----------------------------- MODULE ToolsProofs -----------------------------
(***************************************************************************)
(* Tools, for every value of its constants.                                *)
(***************************************************************************)
EXTENDS Tools, WellFoundedInduction, FiniteSetTheorems, SequenceTheorems, TLAPS

-----------------------------------------------------------------------------
(* Backup.                                                                 *)

(* The database names no object that is not there.                         *)
SourceInv == \A r \in Repos: refs[r] \subseteq objects

DumpedRepos == IF Bak!Split THEN Repos ELSE {}

(* A backup holds the flock, so that what it listed is all there is to     *)
(* name: what is gone from the listing was purged.  Its directory has no   *)
(* manifest yet.                                                           *)
SessionInv ==
    session # None =>
        /\ locked
        /\ dest # None /\ dest.manifest = None
        /\ objects \subseteq session.ids /\ session.ids \subseteq objects \cup purged
        /\ session.missing \subseteq purged
        /\ session.db # None => /\ dest.dump = session.db
                                /\ Bak!Named(session.db) \subseteq session.ids
                                /\ dest.repoDumps = DumpedRepos

(* A manifest is written once its directory is whole.                      *)
ManifestInv ==
    Bak!load_manifest =>
        /\ dest.dump # None
        /\ Bak!Named(dest.dump) \subseteq dest.manifest.objects \cup (IF Bak!Fs THEN purged ELSE {})
        /\ dest.manifest.repos = DumpedRepos

(* The database in the target is the backup's, and the log of naatre.db is *)
(* gone.                                                                   *)
DbRestored ==
    /\ Bak!StoreDb(target) = "restored"
    /\ Bak!Sqlite => ~target.wal

(* A restore reads a directory with a manifest, which stays as it is; what *)
(* it has put in place stays in place.                                     *)
RestoreInv ==
    restore # None =>
        /\ Bak!load_manifest
        /\ ~Bak!Fs => restore.lost \subseteq restore.waived
        /\ restore.pc = "repos" =>
             /\ lastDone = None
             /\ DbRestored
             /\ Bak!Split => \A r \in Repos \ restore.repos: target.repos[r] = "restored"

DoneInv == lastDone # None => Bak!load_manifest

BackupInv ==
    /\ Bak!TypeOK /\ SourceInv /\ SessionInv /\ ManifestInv /\ RestoreInv /\ DoneInv
    /\ Bak!StagedVerified /\ Bak!RestoredExactly

LEMMA BackupInit ==
    ASSUME Bak!BackupAssumption, Bak!Init
    PROVE  BackupInv
<1>. USE DEF Bak!BackupAssumption, Bak!Init
<1>1. Bak!TypeOK
  <2>1. refs \in Bak!Database /\ target \in Bak!TargetType
    BY DEF Bak!Database
  <2>2. crashes \in 0..MaxCrashes /\ rots \in 0..MaxRot
    OBVIOUS
  <2>. QED  BY <2>1, <2>2, Zenon DEF Bak!TypeOK
<1>2. SourceInv /\ SessionInv /\ ManifestInv /\ RestoreInv /\ DoneInv
  BY DEF SourceInv, SessionInv, ManifestInv, RestoreInv, DoneInv, Bak!load_manifest
<1>3. Bak!StagedVerified /\ Bak!RestoredExactly
  BY DEF Bak!StagedVerified, Bak!RestoredExactly
<1>. QED  BY <1>1, <1>2, <1>3 DEF BackupInv

(* What a step that leaves the directory, the target and the restore alone *)
(* leaves true of them, as objects are purged.                             *)
LEMMA RestoreKept ==
    ASSUME BackupInv, UNCHANGED <<cfg, dest, target, restore, lastDone>>,
           purged \subseteq purged'
    PROVE  ManifestInv' /\ RestoreInv' /\ DoneInv' /\ Bak!StagedVerified' /\ Bak!RestoredExactly'
<1>. USE DEF BackupInv, Bak!Split, Bak!Sqlite, Bak!Fs, Bak!load_manifest, Bak!Opens,
             Bak!StoreDb, Bak!LogReplays
<1>1. ManifestInv'
  BY DEF ManifestInv, DumpedRepos, Bak!Named
<1>2. RestoreInv' /\ DoneInv'
  BY DEF RestoreInv, DoneInv, DbRestored
<1>3. Bak!StagedVerified'
  BY DEF Bak!StagedVerified, Bak!Verified
<1>4. Bak!RestoredExactly'
  BY DEF Bak!RestoredExactly, Bak!Named
<1>. QED  BY <1>1, <1>2, <1>3, <1>4

(* The servers write and purge.                                            *)
LEMMA SourceStep ==
    ASSUME Bak!BackupAssumption, BackupInv, Bak!Upload \/ Bak!Reference \/ Bak!Purge
    PROVE  BackupInv'
<1>. USE DEF BackupInv
<1>1. /\ UNCHANGED <<cfg, locked, session, dest, target, restore, waiver, lastDone, crashes, rots>>
      /\ purged \subseteq purged'
  BY DEF Bak!Upload, Bak!Reference, Bak!Purge
<1>2. ManifestInv' /\ RestoreInv' /\ DoneInv' /\ Bak!StagedVerified' /\ Bak!RestoredExactly'
  BY <1>1, RestoreKept
<1>3. refs' \in Bak!Database /\ objects' \subseteq Objects /\ purged' \subseteq Objects
  BY DEF Bak!Upload, Bak!Reference, Bak!Purge, Bak!TypeOK, Bak!Database
<1>4. Bak!TypeOK'
  BY <1>1, <1>3 DEF Bak!TypeOK
<1>5. SourceInv'
  BY DEF Bak!Upload, Bak!Reference, Bak!Purge, Bak!TypeOK, Bak!Database, SourceInv
<1>6. SessionInv'
  <2>1. SUFFICES ASSUME session # None
                 PROVE  /\ objects' \subseteq session.ids
                        /\ session.ids \subseteq objects' \cup purged'
    BY <1>1 DEF SessionInv, DumpedRepos, Bak!Split, Bak!Named
  <2>2. locked
    BY <2>1 DEF SessionInv
  <2>3. Bak!Purge
    BY <2>2 DEF Bak!Upload, Bak!Reference
  <2>. QED  BY <2>1, <2>3 DEF SessionInv, Bak!Purge
<1>. QED  BY <1>2, <1>4, <1>5, <1>6

(* A backup under way: there is no manifest to restore from, and so no     *)
(* restore.                                                                *)
LEMMA NoRestoreYet ==
    ASSUME BackupInv, session # None \/ dest = None \/ dest.manifest = None
    PROVE  restore = None /\ lastDone = None
BY DEF BackupInv, SessionInv, RestoreInv, DoneInv, Bak!load_manifest

LEMMA BackupStep ==
    ASSUME Bak!BackupAssumption, BackupInv,
           \/ Bak!BackupBegin \/ Bak!BackupDump \/ Bak!CopyObject \/ Bak!BackupManifest
           \/ Bak!BackupFail \/ Bak!BackupCrash \/ Bak!RemoveLeftover
    PROVE  BackupInv'
<1>. USE DEF BackupInv
<1>1. /\ UNCHANGED <<cfg, refs, objects, purged, target, restore, waiver, lastDone, rots>>
      /\ restore = None /\ lastDone = None
  <2>1. UNCHANGED <<cfg, refs, objects, purged, target, restore, waiver, lastDone, rots>>
    BY DEF Bak!BackupBegin, Bak!BackupDump, Bak!CopyObject, Bak!BackupManifest, Bak!BackupFail,
           Bak!BackupCrash, Bak!RemoveLeftover, Bak!source
  <2>2. session # None \/ dest = None \/ dest.manifest = None
    BY DEF Bak!BackupBegin, Bak!BackupDump, Bak!CopyObject, Bak!BackupManifest, Bak!BackupFail,
           Bak!BackupCrash, Bak!RemoveLeftover
  <2>. QED  BY <2>1, <2>2, NoRestoreYet
<1>2. RestoreInv' /\ DoneInv' /\ Bak!StagedVerified' /\ Bak!RestoredExactly'
  BY <1>1 DEF RestoreInv, DoneInv, Bak!StagedVerified, Bak!RestoredExactly
<1>3. SourceInv'
  BY <1>1 DEF SourceInv
<1>4. SUFFICES Bak!TypeOK' /\ SessionInv' /\ ManifestInv'
  BY <1>2, <1>3
<1>. USE DEF Bak!BackupAssumption, SessionInv, ManifestInv, Bak!load_manifest, DumpedRepos,
             Bak!Split, Bak!Fs, Bak!Named
<1>5. CASE Bak!BackupBegin
  <2>1. dest' \in Bak!Dest /\ session' \in Bak!Session /\ dest'.manifest = None
    BY <1>5 DEF Bak!BackupBegin, Bak!EmptyDest, Bak!Dest, Bak!Session, Bak!TypeOK
  <2>2. Bak!TypeOK'
    BY <1>1, <1>5, <2>1 DEF Bak!BackupBegin, Bak!TypeOK
  <2>3. SessionInv' /\ ManifestInv'
    BY <1>1, <1>5, <2>1 DEF Bak!BackupBegin
  <2>. QED  BY <2>2, <2>3
<1>6. CASE Bak!BackupDump
  <2>1. /\ dest \in Bak!Dest /\ session \in Bak!Session /\ refs \in Bak!Database
        /\ session # None
    BY <1>6 DEF Bak!BackupDump, Bak!TypeOK
  <2>2. /\ dest' \in Bak!Dest /\ session' \in Bak!Session
        /\ dest'.manifest = None /\ dest'.dump = refs /\ dest'.repoDumps = DumpedRepos
        /\ session'.db = refs /\ session'.ids = session.ids
        /\ session'.copied = session.copied /\ session'.missing = session.missing
    BY <1>6, <2>1 DEF Bak!BackupDump, Bak!Dest, Bak!Session, Bak!Artifacts
  <2>3. Bak!TypeOK'
    BY <1>1, <1>6, <2>1, <2>2 DEF Bak!BackupDump, Bak!TypeOK
  <2>4. SessionInv' /\ ManifestInv'
    BY <1>1, <1>6, <2>1, <2>2 DEF Bak!BackupDump, SourceInv
  <2>. QED  BY <2>3, <2>4
<1>7. CASE Bak!CopyObject
  <2>1. dest \in Bak!Dest /\ session \in Bak!Session /\ session # None /\ session' # None
    BY <1>7 DEF Bak!CopyObject, Bak!TypeOK, Bak!Session
  <2>2. PICK o \in session.ids \ (session.copied \cup session.missing):
             IF o \in objects
             THEN /\ session' = [session EXCEPT !.copied = @ \cup {o}]
                  /\ dest' = [dest EXCEPT !.files = @ \cup {o}]
             ELSE /\ session' = [session EXCEPT !.missing = @ \cup {o}]
                  /\ UNCHANGED dest
    BY <1>7 DEF Bak!CopyObject
  <2>3. /\ dest' \in Bak!Dest /\ session' \in Bak!Session
        /\ dest'.manifest = dest.manifest /\ dest'.dump = dest.dump
        /\ dest'.repoDumps = dest.repoDumps
        /\ session'.db = session.db /\ session'.ids = session.ids
        /\ session'.copied \cup session'.missing = session.copied \cup session.missing \cup {o}
        /\ session'.missing \subseteq session.missing \cup ({o} \ objects)
    BY <2>1, <2>2 DEF Bak!Dest, Bak!Session, Bak!Artifacts
  <2>4. Bak!TypeOK'
    BY <1>1, <1>7, <2>1, <2>2, <2>3 DEF Bak!CopyObject, Bak!TypeOK
  <2>5. SessionInv' /\ ManifestInv'
    BY <1>1, <1>7, <2>1, <2>2, <2>3 DEF Bak!CopyObject
  <2>. QED  BY <2>4, <2>5
<1>8. CASE Bak!BackupManifest
  <2>1. dest \in Bak!Dest /\ session \in Bak!Session /\ session # None /\ session.db # None
    BY <1>8 DEF Bak!BackupManifest, Bak!TypeOK
  <2>2. /\ dest' \in Bak!Dest /\ dest'.dump = session.db
        /\ dest'.manifest.objects = Bak!Carried /\ dest'.manifest.repos = DumpedRepos
    BY <1>8, <2>1 DEF Bak!BackupManifest, Bak!Dest, Bak!Session, Bak!Artifacts, Bak!Manifest,
                      Bak!Carried, Bak!TypeOK
  <2>3. Bak!Named(session.db) \subseteq Bak!Carried \cup (IF Bak!Fs THEN purged ELSE {})
    BY <1>8, <2>1 DEF Bak!BackupManifest, Bak!Carried
  <2>4. Bak!TypeOK'
    BY <1>1, <1>8, <2>2 DEF Bak!BackupManifest, Bak!TypeOK
  <2>5. SessionInv' /\ ManifestInv'
    BY <1>1, <1>8, <2>1, <2>2, <2>3 DEF Bak!BackupManifest
  <2>. QED  BY <2>4, <2>5
<1>9. CASE Bak!BackupFail \/ Bak!BackupCrash \/ Bak!RemoveLeftover
  <2>1. dest # None /\ dest \in Bak!Dest /\ dest.manifest = None
    BY <1>9 DEF Bak!BackupFail, Bak!BackupCrash, Bak!RemoveLeftover, Bak!TypeOK
  <2>a. crashes' \in 0..MaxCrashes
    BY <1>9 DEF Bak!BackupFail, Bak!BackupCrash, Bak!RemoveLeftover, Bak!TypeOK
  <2>b. session' = None /\ locked' \in BOOLEAN
    BY <1>9, Zenon DEF Bak!BackupFail, Bak!BackupCrash, Bak!RemoveLeftover, Bak!TypeOK
  <2>2. dest' = None \/ (dest' \in Bak!Dest /\ dest'.manifest = None)
    BY <1>9, <2>1 DEF Bak!BackupFail, Bak!BackupCrash, Bak!RemoveLeftover, Bak!Dest
  <2>3. Bak!TypeOK'
    BY <1>1, <2>a, <2>b, <2>2 DEF Bak!TypeOK
  <2>4. SessionInv' /\ ManifestInv'
    BY <2>b, <2>2
  <2>. QED  BY <2>3, <2>4
<1>. QED  BY <1>5, <1>6, <1>7, <1>8, <1>9

(* The storage rots under a manifest that stays.                           *)
LEMMA RotStep ==
    ASSUME Bak!BackupAssumption, BackupInv, Bak!Rot
    PROVE  BackupInv'
<1>. USE DEF BackupInv
<1>1. /\ UNCHANGED <<cfg, refs, objects, purged, locked, session, target, restore, waiver,
                     lastDone, crashes>>
      /\ dest \in Bak!Dest /\ Bak!load_manifest /\ session = None
  BY DEF Bak!Rot, Bak!source, Bak!TypeOK, Bak!load_manifest, SessionInv
<1>2. PICK gone \in dest.files: dest' = [dest EXCEPT !.rotten = @ \cup {gone}]
  BY DEF Bak!Rot
<1>3. /\ dest' \in Bak!Dest /\ dest' # None
      /\ dest'.manifest = dest.manifest /\ dest'.dump = dest.dump
  BY <1>1, <1>2 DEF Bak!Dest, Bak!BackupAssumption
<1>4. Bak!TypeOK'
  <2>1. rots' \in 0..MaxRot
    BY DEF Bak!Rot, Bak!TypeOK, Bak!BackupAssumption
  <2>. QED  BY <1>1, <1>3, <2>1 DEF Bak!TypeOK
<1>. USE DEF Bak!load_manifest, Bak!Split, Bak!Sqlite, Bak!Fs, Bak!Named, Bak!Opens,
             Bak!StoreDb, Bak!LogReplays
<1>5. SourceInv' /\ SessionInv'
  BY <1>1 DEF SourceInv, SessionInv
<1>6. ManifestInv'
  BY <1>1, <1>3 DEF ManifestInv, DumpedRepos
<1>7. RestoreInv' /\ DoneInv'
  BY <1>1, <1>3 DEF RestoreInv, DoneInv, DbRestored
<1>8. Bak!StagedVerified' /\ Bak!RestoredExactly'
  BY <1>1, <1>3 DEF Bak!StagedVerified, Bak!Verified, Bak!RestoredExactly
<1>. QED  BY <1>4, <1>5, <1>6, <1>7, <1>8

(* The restore, and an init of its target: the directory is only read.     *)
LEMMA RestoreStep ==
    ASSUME Bak!BackupAssumption, BackupInv,
           \/ Bak!RestoreBegin \/ Bak!Stage \/ Bak!RestoreDb \/ Bak!RestoreRepo
           \/ Bak!RestoreObject \/ Bak!RestoreEnd \/ Bak!RestoreCrash \/ Bak!InitTarget
    PROVE  BackupInv'
<1>. USE DEF BackupInv, Bak!BackupAssumption
<1>1. UNCHANGED <<cfg, refs, objects, purged, locked, session, dest, rots>>
  BY DEF Bak!RestoreBegin, Bak!Stage, Bak!RestoreDb, Bak!RestoreRepo, Bak!RestoreObject,
         Bak!RestoreEnd, Bak!RestoreCrash, Bak!InitTarget, Bak!source
<1>2. SourceInv' /\ SessionInv' /\ ManifestInv'
  BY <1>1 DEF SourceInv, SessionInv, ManifestInv, DumpedRepos, Bak!Split, Bak!Fs, Bak!Named,
              Bak!load_manifest
<1>3. SUFFICES /\ target' \in Bak!TargetType
               /\ restore' \in Bak!Restore \cup {None} /\ lastDone' \in Bak!Restore \cup {None}
               /\ waiver' = None \/ waiver' \subseteq Objects
               /\ crashes' \in 0..MaxCrashes
               /\ RestoreInv' /\ DoneInv' /\ Bak!StagedVerified' /\ Bak!RestoredExactly'
  BY <1>1, <1>2 DEF Bak!TypeOK
<1>4. /\ target \in Bak!TargetType /\ dest \in Bak!Dest \cup {None}
      /\ restore \in Bak!Restore \cup {None} /\ lastDone \in Bak!Restore \cup {None}
      /\ waiver = None \/ waiver \subseteq Objects
      /\ crashes \in 0..MaxCrashes /\ cfg \in Configs /\ objects \subseteq Objects
  BY DEF Bak!TypeOK
<1>. USE DEF Bak!load_manifest, Bak!Split, Bak!Sqlite, Bak!Fs, Bak!Named, Bak!Opens,
             Bak!StoreDb, Bak!LogReplays
<1>5. CASE Bak!RestoreBegin
  <2>1. UNCHANGED <<target, lastDone, crashes>> /\ dest \in Bak!Dest /\ Bak!load_manifest
    BY <1>4, <1>5 DEF Bak!RestoreBegin
  <2>2. dest.manifest \in Bak!Manifest /\ Bak!Missing \subseteq Objects
    BY <2>1 DEF Bak!Dest, Bak!Manifest, Bak!Missing
  <2>3. dest.dump \in Bak!Database
    BY <2>1 DEF ManifestInv, Bak!Dest
  <2>4. CASE UNCHANGED restore /\ waiver' = Bak!Missing
    BY <1>1, <1>4, <2>1, <2>2, <2>4 DEF RestoreInv, DoneInv, DbRestored, Bak!StagedVerified,
                                        Bak!Verified, Bak!RestoredExactly
  <2>5. ASSUME NEW force \in BOOLEAN,
               restore' = [pc |-> "stage", force |-> force, waived |-> Bak!Missing,
                           lost |-> Bak!Named(dest.dump) \ objects,
                           staged |-> {}, left |-> {}, repos |-> {}],
               UNCHANGED waiver
        PROVE  /\ restore' \in Bak!Restore
               /\ RestoreInv' /\ DoneInv' /\ Bak!StagedVerified' /\ Bak!RestoredExactly'
    <3>1. Bak!Named(dest.dump) \ objects \subseteq Objects
      BY <2>3 DEF Bak!Database
    <3>2. restore' \in Bak!Restore
      BY <2>2, <2>5, <3>1 DEF Bak!Restore
    <3>3. ~Bak!Fs => Bak!Named(dest.dump) \ objects \subseteq Bak!Missing
      BY <2>1 DEF ManifestInv, Bak!Missing
    <3>4. RestoreInv'
      BY <1>1, <2>1, <2>5, <3>3 DEF RestoreInv
    <3>5. DoneInv' /\ Bak!StagedVerified' /\ Bak!RestoredExactly'
      BY <1>1, <2>1, <2>5 DEF DoneInv, Bak!StagedVerified, Bak!RestoredExactly
    <3>. QED  BY <3>2, <3>4, <3>5
  <2>. QED  BY <1>4, <1>5, <2>1, <2>4, <2>5 DEF Bak!RestoreBegin
<1>6. CASE Bak!Stage
  <2>1. /\ UNCHANGED <<target, waiver, lastDone, crashes>>
        /\ restore \in Bak!Restore /\ dest \in Bak!Dest /\ Bak!load_manifest
    BY <1>4, <1>6 DEF Bak!Stage, RestoreInv
  <2>2. CASE restore' = None
    BY <1>1, <1>4, <2>1, <2>2 DEF RestoreInv, DoneInv, Bak!StagedVerified, Bak!RestoredExactly
  <2>3. CASE /\ restore' = [restore EXCEPT !.pc = "lock", !.staged = dest.rotten]
             /\ Bak!Verified(dest.rotten)
    <3>1. /\ restore' \in Bak!Restore /\ restore'.pc = "lock" /\ restore'.staged = dest.rotten
          /\ restore'.lost = restore.lost /\ restore'.waived = restore.waived
      BY <2>1, <2>3 DEF Bak!Restore, Bak!Dest
    <3>2. restore # None
      BY <2>1
    <3>. QED  BY <1>1, <1>4, <2>1, <2>3, <3>1, <3>2
                 DEF RestoreInv, DoneInv, Bak!StagedVerified, Bak!Verified, Bak!RestoredExactly
  <2>. QED  BY <1>6, <2>2, <2>3 DEF Bak!Stage
<1>7. CASE Bak!RestoreDb
  <2>1. /\ UNCHANGED <<waiver, crashes>> /\ lastDone' = None
        /\ restore \in Bak!Restore /\ dest \in Bak!Dest /\ Bak!load_manifest
        /\ restore # None /\ restore.pc = "lock"
    BY <1>4, <1>7 DEF Bak!RestoreDb, RestoreInv
  <2>2. DoneInv' /\ Bak!RestoredExactly'
    BY <2>1 DEF DoneInv, Bak!RestoredExactly
  <2>3. CASE restore' = None /\ UNCHANGED target
    BY <1>4, <2>1, <2>2, <2>3 DEF RestoreInv, Bak!StagedVerified
  <2>4. CASE Bak!Sqlite \/ target.schema = None
    <3>1. /\ target' = [target EXCEPT
                          !.root = TRUE,
                          !.wal = IF Bak!Sqlite THEN FALSE ELSE @,
                          !.db = IF Bak!Sqlite /\ ~Bak!Split THEN "restored" ELSE @,
                          !.catalog = IF Bak!Sqlite /\ Bak!Split THEN "restored" ELSE @,
                          !.repos = IF Bak!Split THEN [r \in Repos |-> None] ELSE @,
                          !.schema = IF Bak!Sqlite THEN @ ELSE "restored"]
          /\ restore' = [restore EXCEPT !.pc = "repos", !.repos = dest.manifest.repos,
                            !.left = IF Bak!Fs THEN dest.manifest.objects ELSE {}]
      BY <1>7, <2>4 DEF Bak!RestoreDb
    <3>2. dest.manifest \in Bak!Manifest /\ (Bak!Split => dest.manifest.repos = Repos)
      BY <2>1 DEF Bak!Dest, ManifestInv, DumpedRepos
    <3>3. /\ restore' \in Bak!Restore /\ restore'.pc = "repos"
          /\ restore'.repos = dest.manifest.repos /\ restore'.staged = restore.staged
          /\ restore'.lost = restore.lost /\ restore'.waived = restore.waived
      BY <2>1, <3>1, <3>2 DEF Bak!Restore, Bak!Manifest
    <3>4. target' \in Bak!TargetType
      BY <1>4, <3>1 DEF Bak!TargetType, Bak!Provenance
    <3>5. DbRestored'
      BY <1>1, <1>4, <3>1 DEF DbRestored, Bak!TargetType
    <3>6. RestoreInv' /\ Bak!StagedVerified'
      BY <1>1, <2>1, <3>2, <3>3, <3>5 DEF RestoreInv, Bak!StagedVerified, Bak!Verified
    <3>. QED  BY <1>4, <2>1, <2>2, <3>3, <3>4, <3>6
  <2>. QED  BY <1>7, <2>3, <2>4 DEF Bak!RestoreDb
<1>8. CASE Bak!RestoreRepo \/ Bak!RestoreObject
  <2>1. /\ UNCHANGED <<waiver, lastDone, crashes>>
        /\ restore \in Bak!Restore /\ restore # None /\ restore.pc = "repos"
        /\ Bak!load_manifest /\ lastDone = None
    BY <1>4, <1>8 DEF Bak!RestoreRepo, Bak!RestoreObject, RestoreInv
  <2>2. DoneInv' /\ Bak!RestoredExactly'
    BY <2>1 DEF DoneInv, Bak!RestoredExactly
  <2>3. dest.manifest \in Bak!Manifest
    BY <1>4, <2>1 DEF Bak!Dest
  <2>4. /\ restore' \in Bak!Restore /\ restore'.pc = "repos"
        /\ restore'.staged = restore.staged
        /\ restore'.lost = restore.lost /\ restore'.waived = restore.waived
    BY <1>8, <2>1 DEF Bak!RestoreRepo, Bak!RestoreObject, Bak!Restore
  <2>5. target' \in Bak!TargetType /\ DbRestored'
    BY <1>1, <1>4, <1>8, <2>1
       DEF Bak!RestoreRepo, Bak!RestoreObject, Bak!Restore, Bak!TargetType, Bak!Provenance,
           RestoreInv, DbRestored
  <2>6. \A r \in Repos \ restore'.repos:
          target'.repos[r] = "restored" \/ (r \notin restore.repos /\ target'.repos[r] = target.repos[r])
    BY <1>4, <1>8, <2>1
       DEF Bak!RestoreRepo, Bak!RestoreObject, Bak!Restore, Bak!TargetType
  <2>7. RestoreInv' /\ Bak!StagedVerified'
    BY <1>1, <2>1, <2>4, <2>5, <2>6 DEF RestoreInv, Bak!StagedVerified, Bak!Verified
  <2>. QED  BY <1>4, <2>1, <2>2, <2>4, <2>5, <2>7
<1>9. CASE Bak!RestoreEnd
  <2>1. /\ UNCHANGED <<waiver, target, crashes>> /\ lastDone' = restore /\ restore' = None
        /\ restore \in Bak!Restore /\ restore # None /\ restore.pc = "repos" /\ restore.repos = {}
        /\ Bak!Fs => dest.manifest.objects \subseteq target.objects
    BY <1>4, <1>9 DEF Bak!RestoreEnd
  <2>2. Bak!load_manifest
    BY <2>1 DEF RestoreInv
  <2>3. IF Bak!Fs THEN Bak!Named(dest.dump) \ target.objects \subseteq purged
                  ELSE restore.lost \subseteq restore.waived
    BY <2>1, <2>2 DEF RestoreInv, ManifestInv
  <2>4. Bak!RestoredExactly'
    BY <1>1, <2>1, <2>3 DEF RestoreInv, DbRestored, Bak!RestoredExactly
  <2>. QED  BY <1>1, <1>4, <2>1, <2>2, <2>4 DEF RestoreInv, DoneInv, Bak!StagedVerified
<1>10. CASE Bak!RestoreCrash
  <2>1. UNCHANGED <<waiver, target, lastDone>> /\ restore' = None /\ crashes' \in 0..MaxCrashes
    BY <1>4, <1>10 DEF Bak!RestoreCrash
  <2>. QED  BY <1>1, <1>4, <2>1 DEF RestoreInv, DoneInv, Bak!StagedVerified, Bak!RestoredExactly
<1>11. CASE Bak!InitTarget
  <2>1. /\ UNCHANGED <<restore, waiver, lastDone, crashes>>
        /\ ~Bak!Split /\ target.db = None /\ target.schema = None
    BY <1>11 DEF Bak!InitTarget
  <2>2. target' \in Bak!TargetType
    BY <1>4, <1>11 DEF Bak!InitTarget, Bak!TargetType, Bak!Provenance
  <2>3. ~DbRestored
    BY <2>1 DEF DbRestored
  <2>4. restore # None => restore.pc # "repos"
    BY <2>3 DEF RestoreInv
  <2>5. Bak!Opens(target) # "restored"
    BY <2>1
  <2>6. lastDone = None
    BY <2>1, <2>5 DEF Bak!RestoredExactly
  <2>. QED  BY <1>1, <1>4, <2>1, <2>2, <2>4, <2>6
               DEF RestoreInv, DoneInv, Bak!StagedVerified, Bak!Verified, Bak!RestoredExactly
<1>. QED  BY <1>5, <1>6, <1>7, <1>8, <1>9, <1>10, <1>11

LEMMA BackupNext ==
    ASSUME Bak!BackupAssumption, BackupInv, [Bak!Next]_Bak!vars
    PROVE  BackupInv'
<1>1. CASE Bak!Next
  BY <1>1, SourceStep, BackupStep, RotStep, RestoreStep DEF Bak!Next
<1>2. CASE UNCHANGED Bak!vars
  <2>1. UNCHANGED backupVars
    BY <1>2 DEF Bak!vars, backupVars
  <2>2. ManifestInv' /\ RestoreInv' /\ DoneInv' /\ Bak!StagedVerified' /\ Bak!RestoredExactly'
    BY <2>1, RestoreKept DEF backupVars
  <2>3. Bak!TypeOK' /\ SourceInv' /\ SessionInv'
    BY <2>1 DEF backupVars, BackupInv, Bak!TypeOK, SourceInv, SessionInv, DumpedRepos, Bak!Split,
                Bak!Named
  <2>. QED  BY <2>2, <2>3 DEF BackupInv
<1>. QED  BY <1>1, <1>2

LEMMA BackupHolds == BackupInv => Bak!StoresWhole
BY DEF BackupInv, Bak!StoresWhole

-----------------------------------------------------------------------------
(* Adopt.                                                                  *)

(* The layout configured is the one a server opens.  As long as it is the  *)
(* single one the source has every row; afterwards no command is at work,  *)
(* and a copy that lacks a file is not served before the source is gone.   *)
ModeInv ==
    /\ server.stage # "down" => server.layout = mode
    /\ mode = "single" => db # None /\ acked \subseteq db.rows
    /\ mode = "split" => /\ Ado!Adopted
                         /\ \A c \in Commands: adopt[c].stage = "idle"
                         /\ Ado!FilesPresent \/ (db # None /\ acked \subseteq db.rows)
    /\ server.stage = "up" /\ mode = "single" /\ ~overtaken => catalog = None
    /\ server.stage = "up" /\ mode = "split" => Ado!FilesPresent

(* A repo's rows are in the database that has the repo.                    *)
RegistryInv == db # None => \A row \in db.rows: row.table = "repo" => row.repo \in db.repos

(* The command with the flock has copied the repos that it is done with.   *)
Done(r) ==
    /\ r \in catalog.repos /\ r \in DOMAIN files
    /\ Ado!RepoRows(r) \subseteq files[r]

CommandInv ==
    \A c \in Commands: lock = c =>
        /\ adopt[c].stage # "create" => catalog # None
        /\ adopt[c].stage \notin {"create", "source"} =>
             /\ files # None
             /\ \A r \in db.repos \ adopt[c].todo:
                  Done(r) \/ (adopt[c].stage = "rows" /\ adopt[c].at = r)
        /\ adopt[c].stage = "rows" =>
             adopt[c].at \in catalog.repos /\ adopt[c].at \in DOMAIN files
        /\ adopt[c].stage \in {"verify", "mark"} =>
             adopt[c].todo = {} /\ Ado!CatalogRows \subseteq catalog.rows

(* A catalog with the marker has the global rows, and every repo that has  *)
(* rows; a repo's file, if it is there, has them.                          *)
AdoptedInv ==
    Ado!Adopted /\ ~overtaken =>
        \A row \in acked:
            /\ row.table = "global" => row \in catalog.rows
            /\ row.table = "repo" =>
                 /\ row.repo \in catalog.repos
                 /\ files # None /\ row.repo \in DOMAIN files => row \in files[row.repo]

AdoptInv == Ado!TypeOK /\ ModeInv /\ RegistryInv /\ CommandInv /\ AdoptedInv

LEMMA AdoptInit ==
    ASSUME Ado!AdoptAssumption, Ado!Init
    PROVE  AdoptInv
<1>. USE DEF Ado!AdoptAssumption, Ado!Init
<1>1. Ado!Admin \in Ado!Rows
  BY DEF Ado!Admin, Ado!Rows
<1>2. db \in Ado!Single
  BY <1>1 DEF Ado!Single
<1>3. Ado!TypeOK
  <2>1. /\ server \in [stage: {"down", "checked", "up"}, layout: Ado!Layouts \cup {None}]
        /\ adopt \in [Commands -> [stage: Ado!Stages, todo: SUBSET Repos, at: Repos \cup {None}]]
        /\ adoptRuns \in 0..MaxRuns /\ adoptCrashes \in 0..MaxCrashes
    BY DEF Ado!Down, Ado!Idle, Ado!Stages
  <2>2. /\ (lock = "server") <=> (server.stage = "up")
        /\ \A c \in Commands: (lock = c) <=> (adopt[c].stage \notin {"idle", "guarded"})
    BY DEF Ado!Down, Ado!Idle
  <2>. QED  BY <1>1, <1>2, <2>1, <2>2 DEF Ado!TypeOK, Ado!Layouts
<1>4. ModeInv
  BY <1>2 DEF ModeInv, Ado!Down
<1>5. RegistryInv /\ CommandInv /\ AdoptedInv
  BY DEF RegistryInv, CommandInv, AdoptedInv, Ado!Adopted, Ado!Admin
<1>. QED  BY <1>3, <1>4, <1>5 DEF AdoptInv

(* What a repo's file may hold.                                            *)
FileRows(r) == [table: {"repo"}, repo: {r}, n: 1..MaxAdoptRows]
FilesOK(f) == f \in Ado!Files /\ \A r \in DOMAIN f: f[r] \subseteq FileRows(r)

LEMMA FilesGood ==
    ASSUME NEW held \in SUBSET Repos, NEW f, f = [r \in held |-> f[r]],
           \A r \in held: f[r] \subseteq FileRows(r)
    PROVE  FilesOK(f)
<1>1. \A r \in held: FileRows(r) \subseteq Ado!Rows
  BY DEF FileRows, Ado!Rows, Ado!RowsOf
<1>2. f \in [held -> SUBSET Ado!Rows]
  BY <1>1
<1>3. f \in Ado!Files
  BY <1>2 DEF Ado!Files
<1>. QED  BY <1>2, <1>3 DEF FilesOK

LEMMA FilesHeld ==
    ASSUME Ado!TypeOK, files # None
    PROVE  /\ DOMAIN files \in SUBSET Repos /\ files = [r \in DOMAIN files |-> files[r]]
           /\ \A r \in DOMAIN files: files[r] \subseteq FileRows(r)
<1>1. files \in Ado!Files
  BY DEF Ado!TypeOK
<1>2. PICK held \in SUBSET Repos: files \in [held -> SUBSET Ado!Rows]
  BY <1>1 DEF Ado!Files
<1>. QED  BY <1>2 DEF Ado!TypeOK, FileRows

(* A repo's rows are of the repo, a global row of none.                    *)
LEMMA RowKinds ==
    ASSUME Ado!AdoptAssumption, NEW row \in Ado!Rows
    PROVE  /\ row.table \in {"repo", "access", "global"}
           /\ row.table # "global" => row.repo \in Repos
           /\ row.table = "global" => row.repo = None
           /\ row.table = "repo" => row \in FileRows(row.repo)
<1>. USE DEF FileRows
<1>1. CASE row \in [table: {"global"}, repo: {None}, n: 0..MaxAdoptRows]
  BY <1>1
<1>2. CASE \E r \in Repos: row \in [table: {"repo", "access"}, repo: {r}, n: 1..MaxAdoptRows]
  BY <1>2
<1>. QED  BY <1>1, <1>2 DEF Ado!Rows, Ado!RowsOf

(* The flock has one holder; no command is at work while a server is.      *)
LEMMA OneHolder ==
    ASSUME Ado!AdoptAssumption, Ado!TypeOK
    PROVE  /\ \A c \in Commands: adopt[c].stage \notin {"idle", "guarded"} =>
                  lock = c /\ server.stage # "up"
           /\ server.stage = "up" => \A c \in Commands: lock # c
BY DEF Ado!AdoptAssumption, Ado!TypeOK

(* The server checks, opens and stops: it writes no row, and only an open  *)
(* changes a database's state, which is its log.                           *)
LEMMA ServerStep ==
    ASSUME Ado!AdoptAssumption, AdoptInv,
           \/ Ado!ServerCheck \/ Ado!ServerRefused \/ Ado!ServerOpenSingle
           \/ Ado!ServerOpenSplit \/ Ado!ServerStop \/ Ado!ServerDies
    PROVE  AdoptInv'
<1>. USE DEF AdoptInv, Ado!AdoptAssumption
<1>1. UNCHANGED <<mode, db, files, adopt, acked, adoptRuns>>
  BY DEF Ado!ServerCheck, Ado!ServerRefused, Ado!ServerOpenSingle, Ado!ServerOpenSplit,
         Ado!ServerStop, Ado!ServerDies
<1>2. UNCHANGED catalog
  BY DEF Ado!ServerCheck, Ado!ServerRefused, Ado!ServerOpenSingle, Ado!ServerOpenSplit,
         Ado!ServerStop, Ado!ServerDies, ModeInv, Ado!Adopted, Ado!TypeOK, Ado!Layouts
<1>3. /\ hot' \in BOOLEAN /\ overtaken' \in BOOLEAN
      /\ ~overtaken' => ~overtaken
  BY Zenon DEF Ado!ServerCheck, Ado!ServerRefused, Ado!ServerOpenSingle, Ado!ServerOpenSplit,
         Ado!ServerStop, Ado!ServerDies, Ado!TypeOK
<1>4. adoptCrashes' \in 0..MaxCrashes
  BY DEF Ado!ServerCheck, Ado!ServerRefused, Ado!ServerOpenSingle, Ado!ServerOpenSplit,
         Ado!ServerStop, Ado!ServerDies, Ado!TypeOK
<1>5. /\ server' \in [stage: {"down", "checked", "up"}, layout: Ado!Layouts \cup {None}]
      /\ lock' \in {None, "server"} \cup Commands
      /\ (lock' = "server") <=> (server'.stage = "up")
      /\ \A c \in Commands: (lock' = c) <=> (lock = c)
  BY DEF Ado!ServerCheck, Ado!ServerRefused, Ado!ServerOpenSingle, Ado!ServerOpenSplit,
         Ado!ServerStop, Ado!ServerDies, Ado!TypeOK, Ado!Down
<1>6. Ado!TypeOK'
  BY <1>1, <1>2, <1>3, <1>4, <1>5 DEF Ado!TypeOK
<1>7. /\ server'.stage # "down" => server'.layout = mode
      /\ server'.stage = "up" /\ mode = "single" /\ ~overtaken' => catalog = None
      /\ server'.stage = "up" /\ mode = "split" => Ado!FilesPresent
  <2>1. server \in [stage: {"down", "checked", "up"}, layout: Ado!Layouts \cup {None}]
    BY DEF Ado!TypeOK
  <2>2. CASE Ado!ServerRefused \/ Ado!ServerStop \/ Ado!ServerDies
    BY <2>2 DEF Ado!ServerRefused, Ado!ServerStop, Ado!ServerDies, Ado!Down
  <2>3. CASE Ado!ServerCheck
    BY <2>3 DEF Ado!ServerCheck
  <2>4. CASE Ado!ServerOpenSingle
    BY <2>1, <2>4 DEF Ado!ServerOpenSingle, Ado!detect, ModeInv
  <2>5. CASE Ado!ServerOpenSplit
    BY <2>1, <2>5 DEF Ado!ServerOpenSplit, Ado!Down, ModeInv
  <2>. QED  BY <2>2, <2>3, <2>4, <2>5
<1>8. ModeInv'
  BY <1>1, <1>2, <1>7 DEF ModeInv, Ado!FilesPresent, Ado!Adopted
<1>9. RegistryInv' /\ AdoptedInv'
  BY <1>1, <1>2, <1>3 DEF RegistryInv, AdoptedInv, Ado!Adopted
<1>10. CommandInv'
  BY <1>1, <1>2, <1>5 DEF CommandInv, Done, Ado!RepoRows, Ado!CatalogRows
<1>. QED  BY <1>6, <1>8, <1>9, <1>10

LEMMA CreateRepoStep ==
    ASSUME Ado!AdoptAssumption, AdoptInv, NEW r \in Repos, Ado!CreateRepo(r)
    PROVE  AdoptInv'
<1>. USE DEF AdoptInv, Ado!AdoptAssumption
<1>1. /\ UNCHANGED <<mode, hot, lock, server, adopt, acked, overtaken, adoptRuns, adoptCrashes>>
      /\ server.stage = "up" /\ server.layout = mode /\ mode \in Ado!Layouts
      /\ lock = "server" /\ \A c \in Commands: lock # c
  BY OneHolder DEF Ado!CreateRepo, ModeInv, Ado!TypeOK
<1>2. CommandInv'
  BY <1>1 DEF CommandInv
<1>3. CASE mode = "single"
  <2>1. /\ db' = [db EXCEPT !.repos = @ \cup {r}] /\ UNCHANGED <<catalog, files>>
        /\ db \in Ado!Single /\ db # None
    BY <1>1, <1>3 DEF Ado!CreateRepo, ModeInv, Ado!TypeOK
  <2>2. db' \in Ado!Single /\ db' # None /\ db'.rows = db.rows /\ db.repos \subseteq db'.repos
    BY <2>1 DEF Ado!Single
  <2>3. Ado!TypeOK'
    BY <1>1, <2>1, <2>2 DEF Ado!TypeOK
  <2>4. ModeInv' /\ RegistryInv' /\ AdoptedInv'
    BY <1>1, <1>3, <2>1, <2>2 DEF ModeInv, RegistryInv, AdoptedInv, Ado!Adopted, Ado!FilesPresent
  <2>. QED  BY <1>2, <2>3, <2>4
<1>4. CASE mode = "split"
  <2>1. /\ catalog' = [catalog EXCEPT !.repos = @ \cup {r}] /\ r \notin catalog.repos
        /\ files' = [q \in {r} \cup (IF files = None THEN {} ELSE DOMAIN files) |->
                        IF q = r THEN {} ELSE files[q]]
        /\ UNCHANGED db
    BY <1>1, <1>4 DEF Ado!CreateRepo
  <2>2. Ado!Adopted /\ Ado!FilesPresent /\ catalog \in Ado!Catalog
    BY <1>1, <1>4 DEF ModeInv, Ado!Adopted, Ado!TypeOK
  <2>3. /\ catalog' \in Ado!Catalog /\ catalog' # None /\ catalog'.adopted
        /\ catalog'.repos = catalog.repos \cup {r} /\ catalog'.rows = catalog.rows
    BY <2>1, <2>2 DEF Ado!Catalog, Ado!Adopted
  <2>4. FilesOK(files')
    <3>1. files # None => /\ DOMAIN files \in SUBSET Repos
                          /\ \A q \in DOMAIN files: files[q] \subseteq FileRows(q)
      BY FilesHeld
    <3>2. \A q \in {r} \cup (IF files = None THEN {} ELSE DOMAIN files): files'[q] \subseteq FileRows(q)
      BY <2>1, <3>1
    <3>3. ({r} \cup (IF files = None THEN {} ELSE DOMAIN files)) \in SUBSET Repos
      BY <3>1
    <3>. QED  BY <2>1, <3>2, <3>3, FilesGood
  <2>5. files' # None /\ Ado!TypeOK'
    <3>1. /\ files' \in Ado!Files /\ files' # None
          /\ \A q \in DOMAIN files': files'[q] \subseteq [table: {"repo"}, repo: {q}, n: 1..MaxAdoptRows]
      BY <2>4 DEF FilesOK, FileRows
    <3>. QED  BY <1>1, <2>1, <2>3, <3>1 DEF Ado!TypeOK
  <2>6. Ado!FilesPresent'
    BY <2>1, <2>2, <2>3, <2>5 DEF Ado!FilesPresent
  <2>7. ModeInv' /\ RegistryInv'
    BY <1>1, <1>4, <2>1, <2>3, <2>6 DEF ModeInv, RegistryInv, Ado!Adopted
  <2>8. AdoptedInv'
    BY <1>1, <2>1, <2>2, <2>3 DEF AdoptedInv, Ado!Adopted
  <2>. QED  BY <1>2, <2>5, <2>7, <2>8
<1>. QED  BY <1>1, <1>3, <1>4 DEF Ado!Layouts

LEMMA WriteStep ==
    ASSUME Ado!AdoptAssumption, AdoptInv, NEW row \in Ado!Rows, Ado!Write(row)
    PROVE  AdoptInv'
<1>. USE DEF AdoptInv, Ado!AdoptAssumption
<1>1. /\ UNCHANGED <<mode, hot, lock, server, adopt, overtaken, adoptRuns, adoptCrashes>>
      /\ acked' = acked \cup {row}
      /\ server.stage = "up" /\ server.layout = mode /\ mode \in Ado!Layouts
      /\ lock = "server" /\ \A c \in Commands: lock # c
  BY OneHolder DEF Ado!Write, ModeInv, Ado!TypeOK
<1>2. CommandInv'
  BY <1>1 DEF CommandInv
<1>3. CASE mode = "single"
  <2>1. /\ db' = [db EXCEPT !.rows = @ \cup {row}] /\ UNCHANGED <<catalog, files>>
        /\ db \in Ado!Single /\ db # None /\ row.repo \in db.repos \cup {None}
    BY <1>1, <1>3 DEF Ado!Write, ModeInv, Ado!TypeOK
  <2>2. db' \in Ado!Single /\ db' # None /\ db'.rows = db.rows \cup {row} /\ db'.repos = db.repos
    BY <2>1 DEF Ado!Single
  <2>3. Ado!TypeOK'
    BY <1>1, <2>1, <2>2 DEF Ado!TypeOK
  <2>4. RegistryInv'
    BY <2>1, <2>2, RowKinds DEF RegistryInv
  <2>5. ModeInv' /\ AdoptedInv'
    BY <1>1, <1>3, <2>1, <2>2 DEF ModeInv, AdoptedInv, Ado!Adopted, Ado!FilesPresent
  <2>. QED  BY <1>2, <2>3, <2>4, <2>5
<1>4. CASE mode = "split"
  <2>1. /\ row.repo \in catalog.repos \cup {None} /\ UNCHANGED db
        /\ Ado!Adopted /\ Ado!FilesPresent /\ catalog \in Ado!Catalog
    BY <1>1, <1>4 DEF Ado!Write, ModeInv, Ado!Adopted, Ado!TypeOK
  <2>2. CASE row.table = "repo"
    <3>1. /\ files' = [files EXCEPT ![row.repo] = @ \cup {row}] /\ UNCHANGED catalog
          /\ row.repo \in catalog.repos /\ row \in FileRows(row.repo)
      BY <1>1, <1>4, <2>1, <2>2, RowKinds DEF Ado!Write
    <3>2. files # None /\ row.repo \in DOMAIN files
      BY <2>1, <3>1 DEF Ado!FilesPresent
    <3>3. FilesOK(files') /\ DOMAIN files' = DOMAIN files
      <4>1. \A q \in DOMAIN files: files'[q] \subseteq FileRows(q)
        BY <3>1, <3>2, FilesHeld
      <4>2. DOMAIN files \in SUBSET Repos /\ files' = [q \in DOMAIN files |-> files'[q]]
        BY <3>1, <3>2, FilesHeld
      <4>. QED  BY <4>1, <4>2, FilesGood
    <3>4. files' # None /\ Ado!TypeOK'
      <4>1. /\ files' \in Ado!Files /\ files' # None
            /\ \A q \in DOMAIN files': files'[q] \subseteq [table: {"repo"}, repo: {q}, n: 1..MaxAdoptRows]
        BY <3>3 DEF FilesOK, FileRows
      <4>. QED  BY <1>1, <2>1, <3>1, <4>1 DEF Ado!TypeOK
    <3>5. Ado!FilesPresent'
      BY <2>1, <3>1, <3>3, <3>4 DEF Ado!FilesPresent
    <3>6. ModeInv' /\ RegistryInv'
      BY <1>1, <1>4, <2>1, <3>1, <3>5 DEF ModeInv, RegistryInv, Ado!Adopted
    <3>7. AdoptedInv'
      <4>1. row \in files'[row.repo] /\ \A q \in DOMAIN files: files[q] \subseteq files'[q]
        BY <3>1, <3>2
      <4>. QED  BY <1>1, <2>1, <2>2, <3>1, <3>2, <3>3, <4>1 DEF AdoptedInv, Ado!Adopted
    <3>. QED  BY <1>2, <3>4, <3>6, <3>7
  <2>3. CASE row.table # "repo"
    <3>1. catalog' = [catalog EXCEPT !.rows = @ \cup {row}] /\ UNCHANGED files
      BY <1>1, <1>4, <2>3 DEF Ado!Write
    <3>2. /\ catalog' \in Ado!Catalog /\ catalog' # None /\ catalog'.adopted
          /\ catalog'.repos = catalog.repos /\ catalog'.rows = catalog.rows \cup {row}
      BY <2>1, <3>1 DEF Ado!Catalog, Ado!Adopted
    <3>3. Ado!TypeOK'
      BY <1>1, <2>1, <3>1, <3>2 DEF Ado!TypeOK
    <3>4. ModeInv' /\ RegistryInv'
      BY <1>1, <1>4, <2>1, <3>1, <3>2 DEF ModeInv, RegistryInv, Ado!Adopted, Ado!FilesPresent
    <3>5. AdoptedInv'
      BY <1>1, <2>1, <2>3, <3>1, <3>2 DEF AdoptedInv, Ado!Adopted
    <3>. QED  BY <1>2, <3>3, <3>4, <3>5
  <2>. QED  BY <2>2, <2>3
<1>. QED  BY <1>1, <1>3, <1>4 DEF Ado!Layouts

CommandNext(c) ==
    \/ Ado!AdoptGuards(c) \/ Ado!AdoptLock(c) \/ Ado!AdoptCreate(c) \/ Ado!AdoptSource(c)
    \/ Ado!AdoptRepo(c) \/ Ado!AdoptRows(c) \/ Ado!AdoptGlobals(c) \/ Ado!AdoptVerify(c)
    \/ Ado!AdoptMark(c) \/ Ado!AdoptFails(c) \/ Ado!AdoptDies(c)

(* A command writes neither the source nor the configuration, which still  *)
(* selects the source.  One without the flock writes nothing at all.       *)
LEMMA CommandFrame ==
    ASSUME Ado!AdoptAssumption, AdoptInv, NEW c \in Commands, CommandNext(c)
    PROVE  /\ UNCHANGED <<mode, db, hot, server, acked, overtaken>>
           /\ mode = "single" /\ db # None /\ db \in Ado!Single /\ acked \subseteq db.rows
           /\ lock = c => server.stage # "up"
           /\ lock # c => UNCHANGED <<catalog, files>>
<1>. USE DEF AdoptInv, CommandNext
<1>1. UNCHANGED <<mode, db, hot, server, acked, overtaken>>
  BY DEF Ado!AdoptGuards, Ado!AdoptLock, Ado!AdoptCreate, Ado!AdoptSource, Ado!AdoptRepo,
         Ado!AdoptRows, Ado!AdoptGlobals, Ado!AdoptVerify, Ado!AdoptMark, Ado!AdoptFails,
         Ado!AdoptDies
<1>2. adopt[c].stage # "idle" \/ catalog = None
  BY DEF Ado!AdoptGuards, Ado!AdoptLock, Ado!AdoptCreate, Ado!AdoptSource, Ado!AdoptRepo,
         Ado!AdoptRows, Ado!AdoptGlobals, Ado!AdoptVerify, Ado!AdoptMark, Ado!AdoptFails,
         Ado!AdoptDies, Ado!At, Ado!TypeOK
<1>3. mode = "single"
  BY <1>2 DEF ModeInv, Ado!Adopted, Ado!TypeOK, Ado!Layouts
<1>4. db # None /\ db \in Ado!Single /\ acked \subseteq db.rows
  BY <1>3 DEF ModeInv, Ado!TypeOK
<1>5. lock = c => server.stage # "up"
  BY OneHolder
<1>6. lock # c => UNCHANGED <<catalog, files>>
  BY OneHolder
     DEF Ado!AdoptGuards, Ado!AdoptLock, Ado!AdoptCreate, Ado!AdoptSource, Ado!AdoptRepo,
         Ado!AdoptRows, Ado!AdoptGlobals, Ado!AdoptVerify, Ado!AdoptMark, Ado!AdoptFails,
         Ado!AdoptDies, Ado!At
<1>. QED  BY <1>1, <1>3, <1>4, <1>5, <1>6

(* What a command writes into the catalog and the files has their types,   *)
(* and only a failure removes what is there.                               *)
LEMMA CopyGrows ==
    ASSUME Ado!AdoptAssumption, AdoptInv, NEW c \in Commands, CommandNext(c)
    PROVE  /\ \/ catalog' = None /\ (catalog = None \/ Ado!AdoptFails(c))
              \/ catalog' \in Ado!Catalog /\ catalog' # None
           /\ catalog = None /\ catalog' # None => ~catalog'.adopted
           /\ catalog # None /\ catalog' # None =>
                /\ catalog.repos \subseteq catalog'.repos
                /\ catalog.rows \subseteq catalog'.rows
                /\ catalog'.adopted => catalog.adopted \/ Ado!AdoptMark(c)
           /\ \/ files' = None /\ (files = None \/ Ado!AdoptFails(c))
              \/ FilesOK(files') /\ files' # None
           /\ files # None /\ files' # None =>
                /\ DOMAIN files \subseteq DOMAIN files'
                /\ \A r \in DOMAIN files: files[r] \subseteq files'[r]
           /\ files' # None => \A r \in DOMAIN files': 
                (files # None /\ r \in DOMAIN files) \/ (catalog # None /\ r \notin catalog.repos)
<1>. USE DEF AdoptInv, Ado!AdoptAssumption
<1>1. /\ catalog \in Ado!Catalog \cup {None}
      /\ files # None => FilesOK(files)
      /\ adopt[c] \in [stage: Ado!Stages, todo: SUBSET Repos, at: Repos \cup {None}]
      /\ db \in Ado!Single
  BY CommandFrame DEF Ado!TypeOK, FilesOK, FileRows
<1>2. CASE UNCHANGED <<catalog, files>>
  BY <1>1, <1>2 DEF Ado!Catalog
<1>3. CASE Ado!AdoptCreate(c)
  BY <1>1, <1>3 DEF Ado!AdoptCreate, Ado!Created, Ado!Catalog
<1>4. CASE Ado!AdoptSource(c)
  <2>. DEFINE empty == [r \in {} |-> {}]
  <2>1. DOMAIN empty = {} /\ empty = [r \in {} |-> empty[r]]
    OBVIOUS
  <2>. HIDE DEF empty
  <2>2. FilesOK(empty)
    BY <2>1, FilesGood
  <2>3. empty # None
    BY <2>2 DEF FilesOK
  <2>4. UNCHANGED catalog /\ files' = IF files = None THEN empty ELSE files
    BY <1>4 DEF Ado!AdoptSource, empty
  <2>. QED  BY <1>1, <2>1, <2>2, <2>3, <2>4 DEF Ado!Catalog
<1>5. CASE Ado!AdoptRepo(c)
  <2>1. lock = c /\ catalog # None /\ files # None
    BY <1>5, OneHolder DEF Ado!AdoptRepo, Ado!At, CommandInv
  <2>2. PICK r \in adopt[c].todo \ catalog.repos:
             /\ catalog' = [catalog EXCEPT !.repos = @ \cup {r}]
             /\ files' = [q \in DOMAIN files \cup {r} |-> IF q \in DOMAIN files THEN files[q] ELSE {}]
    BY <1>5 DEF Ado!AdoptRepo
  <2>3. catalog' \in Ado!Catalog /\ catalog' # None
    BY <1>1, <2>1, <2>2 DEF Ado!Catalog
  <2>4. FilesOK(files') /\ files' # None
    <3>1. /\ (DOMAIN files \cup {r}) \in SUBSET Repos
          /\ \A q \in DOMAIN files \cup {r}: files'[q] \subseteq FileRows(q)
      BY <1>1, <2>1, <2>2, FilesHeld
    <3>2. FilesOK(files')
      BY <2>2, <3>1, FilesGood
    <3>. QED  BY <3>2 DEF FilesOK
  <2>. QED  BY <1>1, <2>1, <2>2, <2>3, <2>4 DEF Ado!Catalog
<1>6. CASE Ado!AdoptRows(c)
  <2>1. /\ lock = c /\ catalog # None /\ files # None
        /\ adopt[c].at \in catalog.repos /\ adopt[c].at \in DOMAIN files
    BY <1>6, OneHolder DEF Ado!AdoptRows, Ado!At, CommandInv
  <2>2. /\ files' = [files EXCEPT ![adopt[c].at] = @ \cup Ado!RepoRows(adopt[c].at)]
        /\ UNCHANGED catalog
    BY <1>6 DEF Ado!AdoptRows
  <2>3. Ado!RepoRows(adopt[c].at) \subseteq FileRows(adopt[c].at)
    BY <1>1, RowKinds DEF Ado!RepoRows, Ado!Single
  <2>4. FilesOK(files') /\ files' # None
    <3>1. /\ DOMAIN files \in SUBSET Repos /\ files' = [q \in DOMAIN files |-> files'[q]]
      BY <2>1, <2>2, FilesHeld
    <3>2. \A q \in DOMAIN files: files'[q] \subseteq FileRows(q)
      BY <2>1, <2>2, <2>3, FilesHeld
    <3>3. FilesOK(files')
      BY <3>1, <3>2, FilesGood
    <3>. QED  BY <3>3 DEF FilesOK
  <2>. QED  BY <1>1, <2>1, <2>2, <2>4 DEF Ado!Catalog
<1>7. CASE Ado!AdoptGlobals(c)
  <2>1. catalog \in Ado!Catalog /\ catalog # None
    BY <1>1, <1>7, OneHolder DEF Ado!AdoptGlobals, Ado!At, CommandInv
  <2>2. catalog' = [catalog EXCEPT !.rows = @ \cup Ado!CatalogRows] /\ UNCHANGED files
    BY <1>7 DEF Ado!AdoptGlobals
  <2>3. catalog' \in Ado!Catalog /\ catalog' # None
    BY <1>1, <2>1, <2>2 DEF Ado!Catalog, Ado!CatalogRows, Ado!Single
  <2>. QED  BY <1>1, <2>1, <2>2, <2>3 DEF Ado!Catalog
<1>8. CASE Ado!AdoptMark(c)
  <2>1. catalog \in Ado!Catalog /\ catalog # None
    BY <1>1, <1>8, OneHolder DEF Ado!AdoptMark, Ado!At, CommandInv
  <2>2. catalog' = [catalog EXCEPT !.adopted = TRUE] /\ UNCHANGED files
    BY <1>8 DEF Ado!AdoptMark
  <2>3. catalog' \in Ado!Catalog /\ catalog' # None
    BY <1>1, <2>1, <2>2 DEF Ado!Catalog
  <2>. QED  BY <1>1, <1>8, <2>1, <2>2, <2>3 DEF Ado!Catalog
<1>9. CASE Ado!AdoptFails(c)
  BY <1>1, <1>9 DEF Ado!AdoptFails, Ado!cleanup, Ado!Catalog
<1>10. CASE Ado!AdoptGuards(c) \/ Ado!AdoptLock(c) \/ Ado!AdoptVerify(c) \/ Ado!AdoptDies(c)
  BY <1>2, <1>10 DEF Ado!AdoptGuards, Ado!AdoptLock, Ado!AdoptVerify, Ado!AdoptDies
<1>. QED  BY <1>3, <1>4, <1>5, <1>6, <1>7, <1>8, <1>9, <1>10 DEF CommandNext

LEMMA CommandTypes ==
    ASSUME Ado!AdoptAssumption, AdoptInv, NEW c \in Commands, CommandNext(c)
    PROVE  /\ Ado!TypeOK' /\ ModeInv' /\ RegistryInv'
           /\ \A d \in Commands \ {c}: adopt'[d] = adopt[d] /\ (lock' = d => lock = d)
<1>. USE DEF AdoptInv, Ado!AdoptAssumption, CommandNext
<1>1. /\ UNCHANGED <<mode, db, hot, server, acked, overtaken>> /\ mode = "single"
      /\ server.stage = "up" => UNCHANGED catalog
  BY CommandFrame
<1>2. ModeInv' /\ RegistryInv'
  BY <1>1 DEF ModeInv, RegistryInv
<1>3. adoptRuns' \in 0..MaxRuns /\ adoptCrashes' \in 0..MaxCrashes
  BY DEF Ado!AdoptGuards, Ado!AdoptLock, Ado!AdoptCreate, Ado!AdoptSource, Ado!AdoptRepo,
         Ado!AdoptRows, Ado!AdoptGlobals, Ado!AdoptVerify, Ado!AdoptMark, Ado!AdoptFails,
         Ado!AdoptDies, Ado!TypeOK
<1>4. /\ catalog' \in Ado!Catalog \cup {None}
      /\ files' \in Ado!Files \cup {None}
      /\ files' # None => \A r \in DOMAIN files':
                            files'[r] \subseteq [table: {"repo"}, repo: {r}, n: 1..MaxAdoptRows]
  BY CopyGrows DEF FilesOK, FileRows
<1>. DEFINE Slot == [stage: Ado!Stages, todo: SUBSET Repos, at: Repos \cup {None}]
<1>5. PICK slot \in Slot:
        /\ adopt' = [adopt EXCEPT ![c] = slot]
        /\ lock' \in {lock, c, None}
        /\ (lock' = c) <=> (slot.stage \notin {"idle", "guarded"})
        /\ lock' = None => lock \in {c, None}
        /\ lock' = c => lock \in {c, None}
  <2>1. adopt \in [Commands -> Slot] /\ adopt[c] \in Slot
        /\ ((lock = c) <=> (adopt[c].stage \notin {"idle", "guarded"}))
    BY DEF Ado!TypeOK
  <2>2. CASE Ado!AdoptGuards(c)
    <3>1. [adopt[c] EXCEPT !.stage = "guarded"] \in Slot
      BY <2>1 DEF Ado!Stages
    <3>. QED  BY <2>1, <2>2, <3>1 DEF Ado!AdoptGuards, Ado!At, Ado!Goes
  <2>3. CASE Ado!AdoptLock(c) /\ lock = None
    <3>1. [adopt[c] EXCEPT !.stage = "create"] \in Slot
      BY <2>1 DEF Ado!Stages
    <3>. QED  BY <2>1, <2>3, <3>1 DEF Ado!AdoptLock, Ado!At, Ado!Goes
  <2>4. CASE Ado!AdoptLock(c) /\ lock # None
    <3>1. [adopt[c] EXCEPT !.stage = "idle"] \in Slot
      BY <2>1 DEF Ado!Stages
    <3>. QED  BY <2>1, <2>4, <3>1 DEF Ado!AdoptLock, Ado!At, Ado!Goes
  <2>5. CASE Ado!AdoptCreate(c)
    <3>1. [adopt[c] EXCEPT !.stage = "source"] \in Slot
      BY <2>1 DEF Ado!Stages
    <3>. QED  BY <2>1, <2>5, <3>1 DEF Ado!AdoptCreate, Ado!At, Ado!Goes
  <2>6. CASE Ado!AdoptSource(c)
    <3>1. [stage |-> "register", todo |-> db.repos, at |-> None] \in Slot
      BY CommandFrame DEF Ado!Stages, Ado!Single
    <3>. QED  BY <2>1, <2>6, <3>1 DEF Ado!AdoptSource, Ado!At
  <2>7. CASE Ado!AdoptRepo(c)
    <3>1. PICK r \in adopt[c].todo \ catalog.repos:
               adopt' = [adopt EXCEPT ![c] = [stage |-> "rows", todo |-> @.todo \ {r}, at |-> r]]
      BY <2>7 DEF Ado!AdoptRepo
    <3>2. [stage |-> "rows", todo |-> adopt[c].todo \ {r}, at |-> r] \in Slot
      BY <2>1 DEF Ado!Stages
    <3>3. adopt' = [adopt EXCEPT ![c] = [stage |-> "rows", todo |-> adopt[c].todo \ {r}, at |-> r]]
      BY <2>1, <3>1
    <3>. QED  BY <2>1, <2>7, <3>2, <3>3 DEF Ado!AdoptRepo, Ado!At
  <2>8. CASE Ado!AdoptRows(c)
    <3>1. [adopt[c] EXCEPT !.stage = "register", !.at = None] \in Slot
      BY <2>1 DEF Ado!Stages
    <3>2. adopt' = [adopt EXCEPT ![c] = [adopt[c] EXCEPT !.stage = "register", !.at = None]]
      BY <2>1, <2>8 DEF Ado!AdoptRows
    <3>. QED  BY <2>1, <2>8, <3>1, <3>2 DEF Ado!AdoptRows, Ado!At
  <2>9. CASE Ado!AdoptGlobals(c)
    <3>1. [adopt[c] EXCEPT !.stage = "verify"] \in Slot
      BY <2>1 DEF Ado!Stages
    <3>. QED  BY <2>1, <2>9, <3>1 DEF Ado!AdoptGlobals, Ado!At, Ado!Goes
  <2>10. CASE Ado!AdoptVerify(c)
    <3>1. [adopt[c] EXCEPT !.stage = "mark"] \in Slot
      BY <2>1 DEF Ado!Stages
    <3>. QED  BY <2>1, <2>10, <3>1 DEF Ado!AdoptVerify, Ado!At, Ado!Goes
  <2>11. CASE Ado!AdoptMark(c) \/ Ado!AdoptFails(c) \/ Ado!AdoptDies(c)
    <3>1. Ado!Idle \in Slot
      BY DEF Ado!Idle, Ado!Stages
    <3>2. adopt' = [adopt EXCEPT ![c] = Ado!Idle]
      BY <2>11 DEF Ado!AdoptMark, Ado!AdoptFails, Ado!AdoptDies
    <3>3. lock' = (IF lock = c THEN None ELSE lock)
      BY <2>1, <2>11 DEF Ado!AdoptMark, Ado!AdoptFails, Ado!AdoptDies, Ado!At
    <3>. QED  BY <2>1, <3>1, <3>2, <3>3 DEF Ado!Idle
  <2>. QED  BY <2>2, <2>3, <2>4, <2>5, <2>6, <2>7, <2>8, <2>9, <2>10, <2>11
<1>6. /\ adopt' \in [Commands -> Slot] /\ adopt'[c] = slot
      /\ \A d \in Commands \ {c}: adopt'[d] = adopt[d]
  <2>1. adopt \in [Commands -> Slot]
    BY DEF Ado!TypeOK
  <2>. HIDE DEF Slot
  <2>. QED  BY <1>5, <2>1
<1>7. /\ lock' \in {None, "server"} \cup Commands
      /\ (lock' = "server") <=> (lock = "server")
      /\ \A d \in Commands \ {c}: (lock' = d) <=> (lock = d)
  <2>1. lock \in {None, "server"} \cup Commands
    BY DEF Ado!TypeOK
  <2>. HIDE DEF Slot, AdoptInv, CommandNext
  <2>. QED  BY <1>5, <2>1
<1>8. \A d \in Commands: (lock' = d) <=> (adopt'[d].stage \notin {"idle", "guarded"})
  <2>1. \A d \in Commands: (lock = d) <=> (adopt[d].stage \notin {"idle", "guarded"})
    BY DEF Ado!TypeOK
  <2>. HIDE DEF Slot, AdoptInv, CommandNext
  <2>. QED  BY <1>5, <1>6, <1>7, <2>1
<1>9. Ado!TypeOK'
  BY <1>1, <1>3, <1>4, <1>6, <1>7, <1>8 DEF Ado!TypeOK
<1>. QED  BY <1>2, <1>6, <1>7, <1>9

(* The copy under way stays right: a step of the command with the flock    *)
(* does its part of it, and a step of another touches nothing.             *)
LEMMA CommandCopies ==
    ASSUME Ado!AdoptAssumption, AdoptInv, NEW c \in Commands, CommandNext(c)
    PROVE  CommandInv'
<1>. USE DEF AdoptInv, Ado!AdoptAssumption
<1>1. /\ UNCHANGED db /\ db \in Ado!Single
      /\ lock # c => UNCHANGED <<catalog, files>>
      /\ \A d \in Commands \ {c}: adopt'[d] = adopt[d] /\ (lock' = d => lock = d)
      /\ adopt \in [Commands -> [stage: Ado!Stages, todo: SUBSET Repos, at: Repos \cup {None}]]
      /\ \A r: Ado!RepoRows(r)' = Ado!RepoRows(r)
      /\ Ado!CatalogRows' = Ado!CatalogRows
  BY CommandFrame, CommandTypes DEF Ado!TypeOK, Ado!RepoRows, Ado!CatalogRows
<1>2. \A d \in Commands \ {c}: lock' = d =>
          lock = d /\ adopt'[d] = adopt[d] /\ UNCHANGED <<catalog, files>>
  BY <1>1
<1>3. SUFFICES ASSUME lock' = c
               PROVE  /\ adopt'[c].stage # "create" => catalog' # None
                      /\ adopt'[c].stage \notin {"create", "source"} =>
                           /\ files' # None
                           /\ \A r \in db.repos \ adopt'[c].todo:
                                Done(r)' \/ (adopt'[c].stage = "rows" /\ adopt'[c].at = r)
                      /\ adopt'[c].stage = "rows" =>
                           adopt'[c].at \in catalog'.repos /\ adopt'[c].at \in DOMAIN files'
                      /\ adopt'[c].stage \in {"verify", "mark"} =>
                           adopt'[c].todo = {} /\ Ado!CatalogRows \subseteq catalog'.rows
  <2>1. ASSUME NEW d \in Commands \ {c}, lock' = d
        PROVE  /\ adopt'[d].stage # "create" => catalog' # None
               /\ adopt'[d].stage \notin {"create", "source"} =>
                    /\ files' # None
                    /\ \A r \in db.repos \ adopt'[d].todo:
                         Done(r)' \/ (adopt'[d].stage = "rows" /\ adopt'[d].at = r)
               /\ adopt'[d].stage = "rows" =>
                    adopt'[d].at \in catalog'.repos /\ adopt'[d].at \in DOMAIN files'
               /\ adopt'[d].stage \in {"verify", "mark"} =>
                    adopt'[d].todo = {} /\ Ado!CatalogRows \subseteq catalog'.rows
    <3>1. lock = d /\ adopt'[d] = adopt[d] /\ UNCHANGED <<catalog, files>>
      BY <1>2, <2>1
    <3>2. \A r: Done(r)' = Done(r)
      BY <1>1, <3>1 DEF Done
    <3>. QED  BY <1>1, <3>1, <3>2 DEF CommandInv
  <2>. QED  BY <1>1, <1>3, <2>1 DEF CommandInv
<1>4. lock = c \/ Ado!AdoptLock(c)
  BY <1>3, OneHolder
     DEF CommandNext, Ado!AdoptGuards, Ado!AdoptCreate, Ado!AdoptSource, Ado!AdoptRepo,
         Ado!AdoptRows, Ado!AdoptGlobals, Ado!AdoptVerify, Ado!AdoptMark, Ado!AdoptFails,
         Ado!AdoptDies, Ado!At
<1>5. CASE Ado!AdoptLock(c)
  <2>1. adopt'[c].stage = "create"
    <3>1. lock # c
      BY <1>5 DEF Ado!AdoptLock, Ado!At, Ado!TypeOK
    <3>. QED  BY <1>1, <1>3, <1>5, <3>1 DEF Ado!AdoptLock, Ado!Goes
  <2>. QED  BY <2>1
<1>6. CASE Ado!AdoptCreate(c)
  <2>1. adopt'[c].stage = "source" /\ catalog' # None
    <3>1. Ado!Created # None
      <4>1. Ado!Created \in Ado!Catalog
        BY DEF Ado!Created, Ado!Catalog
      <4>. QED  BY <4>1
    <3>. QED  BY <1>1, <1>6, <3>1 DEF Ado!AdoptCreate, Ado!Goes
  <2>. QED  BY <2>1
<1>7. CASE Ado!AdoptSource(c)
  <2>1. /\ adopt'[c] = [stage |-> "register", todo |-> db.repos, at |-> None]
        /\ lock = c /\ catalog # None
    BY <1>1, <1>7, OneHolder DEF Ado!AdoptSource, Ado!At, CommandInv
  <2>2. UNCHANGED catalog /\ files' = IF files = None THEN [r \in {} |-> {}] ELSE files
    BY <1>7 DEF Ado!AdoptSource
  <2>3. files' # None
    <3>1. [r \in {} |-> {}] \in Ado!Files
      <4>1. [r \in {} |-> {}] \in [{} -> SUBSET Ado!Rows]
        OBVIOUS
      <4>. QED  BY <4>1 DEF Ado!Files
    <3>. QED  BY <2>2, <3>1
  <2>. QED  BY <2>1, <2>2, <2>3
<1>8. CASE Ado!AdoptRepo(c)
  <2>1. lock = c /\ adopt[c].stage = "register"
    BY <1>8, OneHolder DEF Ado!AdoptRepo, Ado!At
  <2>2. PICK r \in adopt[c].todo \ catalog.repos:
          /\ catalog' = [catalog EXCEPT !.repos = @ \cup {r}]
          /\ files' = [q \in DOMAIN files \cup {r} |-> IF q \in DOMAIN files THEN files[q] ELSE {}]
          /\ adopt' = [adopt EXCEPT ![c] = [stage |-> "rows", todo |-> @.todo \ {r}, at |-> r]]
    BY <1>8 DEF Ado!AdoptRepo
  <2>3. adopt'[c] = [stage |-> "rows", todo |-> adopt[c].todo \ {r}, at |-> r]
    BY <1>1, <2>2
  <2>4. files # None /\ \A q \in db.repos \ adopt[c].todo: Done(q)
    BY <2>1 DEF CommandInv
  <2>5. catalog \in Ado!Catalog /\ catalog # None
    BY <2>1 DEF CommandInv, Ado!TypeOK
  <2>6. /\ catalog'.repos = catalog.repos \cup {r} /\ catalog' # None
        /\ DOMAIN files' = DOMAIN files \cup {r} /\ files' # None
        /\ \A q \in DOMAIN files: files'[q] = files[q]
    <3>1. catalog' \in Ado!Catalog /\ catalog'.repos = catalog.repos \cup {r}
      BY <1>1, <2>2, <2>5 DEF Ado!Catalog
    <3>2. files' # None
      BY <2>2, <2>4, CopyGrows, <1>8 DEF CommandNext, Ado!AdoptFails, Ado!AdoptRepo, Ado!Idle
    <3>. QED  BY <2>2, <3>1, <3>2
  <2>7. \A q \in db.repos \ adopt'[c].todo: Done(q)' \/ q = r
    BY <1>1, <2>3, <2>4, <2>6 DEF Done
  <2>. QED  BY <2>3, <2>6, <2>7
<1>9. CASE Ado!AdoptRows(c)
  <2>1. lock = c /\ adopt[c].stage = "rows"
    BY <1>9, OneHolder DEF Ado!AdoptRows, Ado!At
  <2>2. /\ files' = [files EXCEPT ![adopt[c].at] = @ \cup Ado!RepoRows(adopt[c].at)]
        /\ UNCHANGED catalog
        /\ adopt' = [adopt EXCEPT ![c].stage = "register", ![c].at = None]
    BY <1>9 DEF Ado!AdoptRows
  <2>3. adopt'[c].stage = "register" /\ adopt'[c].todo = adopt[c].todo
    BY <1>1, <2>2
  <2>4. /\ files # None /\ catalog # None
        /\ adopt[c].at \in catalog.repos /\ adopt[c].at \in DOMAIN files
        /\ \A q \in db.repos \ adopt[c].todo: Done(q) \/ q = adopt[c].at
    BY <2>1 DEF CommandInv
  <2>5. files' # None
    <3>1. files' \in Ado!Files \cup {None}
      BY CommandTypes DEF Ado!TypeOK
    <3>. QED  BY <2>3, <2>4, CopyGrows, <1>9, <1>3 DEF Ado!AdoptFails
  <2>6. \A q \in db.repos \ adopt[c].todo: Done(q)'
    BY <1>1, <2>2, <2>4, FilesHeld DEF Done
  <2>. QED  BY <2>2, <2>3, <2>4, <2>5, <2>6
<1>10. CASE Ado!AdoptGlobals(c)
  <2>1. lock = c /\ adopt[c].stage = "register"
    BY <1>10, OneHolder DEF Ado!AdoptGlobals, Ado!At
  <2>2. /\ catalog' = [catalog EXCEPT !.rows = @ \cup Ado!CatalogRows] /\ UNCHANGED files
        /\ adopt'[c].stage = "verify" /\ adopt'[c].todo = {} /\ adopt[c].todo = {}
    BY <1>1, <1>10 DEF Ado!AdoptGlobals, Ado!Goes
  <2>3. files # None /\ \A q \in db.repos: Done(q)
    BY <2>1, <2>2 DEF CommandInv
  <2>4. /\ catalog' \in Ado!Catalog /\ catalog' # None /\ catalog'.repos = catalog.repos
        /\ Ado!CatalogRows \subseteq catalog'.rows
    <3>1. catalog \in Ado!Catalog
      BY <2>1 DEF CommandInv, Ado!TypeOK
    <3>2. Ado!CatalogRows \subseteq Ado!Rows
      BY <1>1 DEF Ado!CatalogRows, Ado!Single
    <3>3. /\ catalog' \in Ado!Catalog /\ catalog'.repos = catalog.repos
          /\ catalog'.rows = catalog.rows \cup Ado!CatalogRows
      BY <2>2, <3>1, <3>2 DEF Ado!Catalog
    <3>. QED  BY <3>3
  <2>5. \A q \in db.repos: Done(q)'
    BY <1>1, <2>2, <2>3, <2>4 DEF Done
  <2>. QED  BY <2>2, <2>3, <2>4, <2>5
<1>11. CASE Ado!AdoptVerify(c)
  <2>1. /\ lock = c /\ adopt[c].stage = "verify" /\ UNCHANGED <<catalog, files>>
        /\ adopt'[c].stage = "mark" /\ adopt'[c].todo = adopt[c].todo
    BY <1>1, <1>11, OneHolder DEF Ado!AdoptVerify, Ado!At, Ado!Goes
  <2>2. \A r: Done(r)' = Done(r)
    BY <1>1, <2>1 DEF Done
  <2>. QED  BY <2>1, <2>2 DEF CommandInv
<1>12. ~Ado!AdoptGuards(c) /\ ~Ado!AdoptMark(c) /\ ~Ado!AdoptFails(c) /\ ~Ado!AdoptDies(c)
  BY <1>3 DEF Ado!AdoptGuards, Ado!AdoptMark, Ado!AdoptFails, Ado!AdoptDies, Ado!At, Ado!TypeOK
<1>. QED  BY <1>5, <1>6, <1>7, <1>8, <1>9, <1>10, <1>11, <1>12 DEF CommandNext

(* Only a copy that is whole gets the marker, and no command takes from    *)
(* one that has it but by removing a part that is not served without.      *)
LEMMA CommandMarks ==
    ASSUME Ado!AdoptAssumption, AdoptInv, NEW c \in Commands, CommandNext(c)
    PROVE  AdoptedInv'
<1>. USE DEF AdoptInv, Ado!AdoptAssumption
<1>1. /\ UNCHANGED <<acked, overtaken>> /\ db # None /\ acked \subseteq db.rows
      /\ acked \subseteq Ado!Rows
  BY CommandFrame DEF Ado!TypeOK
<1>2. SUFFICES ASSUME catalog' # None, catalog'.adopted, ~overtaken, NEW row \in acked
               PROVE  /\ row.table = "global" => row \in catalog'.rows
                      /\ row.table = "repo" =>
                           /\ row.repo \in catalog'.repos
                           /\ files' # None /\ row.repo \in DOMAIN files' => row \in files'[row.repo]
  BY <1>1 DEF AdoptedInv, Ado!Adopted
<1>3. catalog # None
  BY <1>2, CopyGrows
<1>4. CASE catalog.adopted
  BY <1>1, <1>2, <1>3, <1>4, CopyGrows DEF AdoptedInv, Ado!Adopted
<1>5. CASE Ado!AdoptMark(c)
  <2>1. lock = c /\ adopt[c].stage = "mark"
    BY <1>5, OneHolder DEF Ado!AdoptMark, Ado!At
  <2>2. /\ Ado!CatalogRows \subseteq catalog.rows
        /\ files # None /\ \A r \in db.repos: Done(r)
    BY <2>1 DEF CommandInv
  <2>3. catalog'.repos = catalog.repos /\ catalog'.rows = catalog.rows /\ UNCHANGED files
    BY <1>3, <1>5 DEF Ado!AdoptMark, Ado!TypeOK, Ado!Catalog
  <2>4. row \in db.rows /\ (row.table = "repo" => row.repo \in db.repos)
    BY <1>1, <1>2 DEF RegistryInv
  <2>. QED  BY <2>2, <2>3, <2>4 DEF Ado!CatalogRows, Ado!RepoRows, Done
<1>. QED  BY <1>2, <1>3, <1>4, <1>5, CopyGrows

(* The operator acts when nothing is at work.                              *)
LEMMA OperatorStep ==
    ASSUME Ado!AdoptAssumption, AdoptInv,
           Ado!FlipConfig \/ Ado!DeleteSource \/ Ado!RemovePartial
    PROVE  AdoptInv'
<1>. USE DEF AdoptInv, Ado!AdoptAssumption
<1>1. /\ UNCHANGED <<lock, server, adopt, acked, overtaken, adoptRuns, adoptCrashes>>
      /\ \A c \in Commands: adopt[c].stage = "idle" /\ lock # c
      /\ server.stage = "down"
  BY DEF Ado!FlipConfig, Ado!DeleteSource, Ado!RemovePartial, Ado!Quiet, Ado!Down, Ado!At,
         Ado!TypeOK
<1>2. CommandInv'
  BY <1>1 DEF CommandInv
<1>3. CASE Ado!FlipConfig
  <2>1. Ado!TypeOK'
    BY <1>1, <1>3 DEF Ado!FlipConfig, Ado!TypeOK, Ado!Layouts
  <2>2. ModeInv' /\ RegistryInv' /\ AdoptedInv'
    BY <1>1, <1>3
       DEF Ado!FlipConfig, ModeInv, RegistryInv, AdoptedInv, Ado!Adopted, Ado!FilesPresent
  <2>. QED  BY <1>2, <2>1, <2>2
<1>4. CASE Ado!DeleteSource
  <2>1. Ado!TypeOK'
    BY <1>1, <1>4 DEF Ado!DeleteSource, Ado!TypeOK
  <2>2. ModeInv' /\ RegistryInv' /\ AdoptedInv'
    BY <1>1, <1>4
       DEF Ado!DeleteSource, ModeInv, RegistryInv, AdoptedInv, Ado!Adopted, Ado!FilesPresent
  <2>. QED  BY <1>2, <2>1, <2>2
<1>5. CASE Ado!RemovePartial
  <2>1. Ado!TypeOK'
    BY <1>1, <1>5 DEF Ado!RemovePartial, Ado!TypeOK
  <2>2. ModeInv' /\ RegistryInv' /\ AdoptedInv'
    BY <1>1, <1>5 DEF Ado!RemovePartial, ModeInv, RegistryInv, AdoptedInv, Ado!Adopted
  <2>. QED  BY <1>2, <2>1, <2>2
<1>. QED  BY <1>3, <1>4, <1>5

LEMMA AdoptNext ==
    ASSUME Ado!AdoptAssumption, AdoptInv, [Ado!Next]_Ado!vars
    PROVE  AdoptInv'
<1>1. ASSUME NEW c \in Commands, CommandNext(c)
      PROVE  AdoptInv'
  BY <1>1, CommandTypes, CommandCopies, CommandMarks DEF AdoptInv
<1>2. CASE Ado!Next
  BY <1>1, <1>2, ServerStep, CreateRepoStep, WriteStep, OperatorStep DEF Ado!Next, CommandNext
<1>3. CASE UNCHANGED Ado!vars
  <2>1. UNCHANGED adoptVars
    BY <1>3 DEF Ado!vars, adoptVars
  <2>2. Ado!TypeOK' /\ ModeInv' /\ RegistryInv' /\ AdoptedInv'
    BY <2>1 DEF adoptVars, AdoptInv, Ado!TypeOK, ModeInv, RegistryInv, AdoptedInv, Ado!Adopted,
                Ado!FilesPresent
  <2>3. CommandInv'
    BY <2>1 DEF adoptVars, AdoptInv, CommandInv, Done, Ado!RepoRows, Ado!CatalogRows
  <2>. QED  BY <2>2, <2>3 DEF AdoptInv
<1>. QED  BY <1>2, <1>3

LEMMA AdoptHolds ==
    ASSUME Ado!AdoptAssumption, AdoptInv
    PROVE  Ado!StoresWhole
<1>. USE DEF AdoptInv
<1>. DEFINE Told == {row \in acked: row.table # "access"}
<1>1. ASSUME Ado!Adopted, Ado!FilesPresent, ~overtaken
      PROVE  Told \subseteq catalog.rows \cup UNION {files[r]: r \in catalog.repos}
  <2>1. SUFFICES ASSUME NEW row \in Told, row.table # "global"
                 PROVE  row.repo \in catalog.repos /\ row \in files[row.repo]
    BY <1>1 DEF AdoptedInv
  <2>2. row.table = "repo"
    BY <2>1, RowKinds DEF Ado!TypeOK
  <2>. QED  BY <1>1, <2>1, <2>2 DEF AdoptedInv, Ado!FilesPresent
<1>2. Ado!ServedWhole
  BY <1>1 DEF Ado!ServedWhole, Ado!Served, ModeInv, Ado!TypeOK, Ado!Layouts
<1>3. Ado!NothingLost
  BY <1>1 DEF Ado!NothingLost, ModeInv, Ado!TypeOK, Ado!Layouts
<1>. QED  BY <1>2, <1>3 DEF Ado!StoresWhole

-----------------------------------------------------------------------------
(* The working copy.                                                       *)

CopyOps == {"sync", "land", "add", "remove", "restore", "commit", "resolve"}
CopyStages == {"fetch", "put", "posted", "write", "index"}
IndexRows == [CheckoutPaths -> {None} \cup Copy!Rows]
CopyStates ==
    [head: DOMAIN hist, sparse: SUBSET Copy!Dirs, conflicted: SUBSET CheckoutPaths]

Pipelines ==
    [op: CopyOps, stage: CopyStages, force: BOOLEAN, state: CopyStates, tree: Copy!Trees,
     adds: SUBSET CheckoutPaths, dels: SUBSET CheckoutPaths, collide: SUBSET CheckoutPaths,
     rows: IndexRows]
Settled == [op: {"land"}, stage: {"landed"}, to: DOMAIN hist, rows: IndexRows]

ServerTypes ==
    /\ hist \in Seq([tree: Copy!Trees, parent: Nat])
    /\ \A i \in DOMAIN hist: hist[i].parent < i
    /\ head \in DOMAIN hist
    /\ tombstones \subseteq CheckoutBlobs
    /\ snap \in Copy!Trees \cup {None}

LocalTypes ==
    /\ state \in CopyStates \cup {None}
    /\ index \in IndexRows
    /\ disk \in Copy!Trees
    /\ verb \in {Copy!Idle} \cup Pipelines \cup Settled
    /\ edits \in Nat
    /\ mine \subseteq CheckoutPaths /\ blind \subseteq CheckoutPaths /\ torn \subseteq CheckoutPaths

(* A file that a verb will write has a content to write.                   *)
AddsInv == verb \in Pipelines => \A p \in verb.adds: verb.tree[p] # None

(* What the user worked on shows in the index: its stat is not the file's, *)
(* and its blob is another.                                                *)
Shows(at, p) ==
    IF at[p] = None THEN disk[p] # None ELSE ~at[p].fresh /\ disk[p] # at[p].blob

MineInv ==
    /\ state = None => mine = {} /\ verb = Copy!Idle
    /\ \A p \in mine: Shows(index, p)

(* A verb that is not forced has nothing of the user's before it, for its  *)
(* gate looked at what it would write when the lock was taken, and what    *)
(* the editor did since is the editor's; a commit discards nothing; sparse *)
(* remove deletes what the index tracks.                                   *)
GateInv ==
    verb \in Pipelines =>
        /\ verb.stage \in {"fetch", "write"} /\ ~verb.force /\ verb.op # "remove" =>
             mine \cap (verb.adds \cup verb.dels \cup verb.collide) = {}
        /\ verb.stage \in {"put", "posted"} => verb.op \in {"commit", "resolve"}
        /\ verb.op \in {"commit", "resolve", "remove"} => verb.collide = {}
        /\ verb.op = "remove" => /\ verb.adds = {}
                                 /\ \A p \in CheckoutPaths: verb.rows[p] # None => index[p] # None

(* The rows that a verb will save say of the user's work what the index    *)
(* does; those of a restore say nothing of it.                             *)
RowsInv ==
    verb \in Pipelines =>
        /\ verb.op \in {"sync", "land", "add", "remove"} =>
             \A p \in mine: verb.rows[p] = index[p]
        /\ verb.op = "restore" => \A p \in mine: verb.rows[p] = None

CopyInv == ServerTypes /\ LocalTypes /\ AddsInv /\ MineInv /\ GateInv /\ RowsInv

LEMMA CopyInit ==
    ASSUME Copy!CopyAssumption, Copy!Init
    PROVE  CopyInv
<1>. USE DEF Copy!Init, Copy!NoRow
<1>1. PICK t \in [CheckoutPaths -> CheckoutStart]: hist = <<[tree |-> t, parent |-> 0]>>
  OBVIOUS
<1>2. ServerTypes
  <2>1. t \in Copy!Trees
    BY DEF Copy!CopyAssumption, Copy!Trees
  <2>. QED  BY <1>1, <2>1 DEF ServerTypes
<1>3. LocalTypes
  BY DEF LocalTypes, IndexRows, Copy!Trees
<1>4. verb \notin Pipelines
  BY DEF Copy!Idle, Pipelines, CopyOps
<1>. QED  BY <1>2, <1>3, <1>4 DEF CopyInv, AddsInv, MineInv, GateInv, RowsInv

(* A verb at one of its steps is in flight, over a clone.                  *)
LEMMA InFlight ==
    ASSUME CopyInv, verb.stage \in CopyStages
    PROVE  /\ verb \in Pipelines /\ verb # Copy!Idle
           /\ state # None /\ state \in CopyStates
<1>1. verb # Copy!Idle /\ verb \notin Settled
  BY DEF CopyStages, Copy!Idle, Settled
<1>2. verb \in Pipelines
  BY <1>1 DEF CopyInv, LocalTypes
<1>3. state # None
  BY <1>1 DEF CopyInv, MineInv
<1>. QED  BY <1>1, <1>2, <1>3 DEF CopyInv, LocalTypes

(* The types of the server's part grow with its history.                   *)
LEMMA HistoryGrows ==
    ASSUME CopyInv,
           \/ UNCHANGED hist
           \/ \E t \in Copy!Trees, i \in DOMAIN hist: hist' = Append(hist, [tree |-> t, parent |-> i])
    PROVE  /\ hist' \in Seq([tree: Copy!Trees, parent: Nat])
           /\ \A i \in DOMAIN hist': hist'[i].parent < i
           /\ DOMAIN hist \subseteq DOMAIN hist'
           /\ Len(hist') \in DOMAIN hist'
           /\ CopyStates \subseteq CopyStates'
           /\ Pipelines \subseteq Pipelines'
           /\ Settled \subseteq Settled'
<1>. USE DEF CopyInv, ServerTypes
<1>1. CASE UNCHANGED hist
  <2>1. CopyStates' = CopyStates /\ Pipelines' = Pipelines /\ Settled' = Settled
    BY <1>1 DEF CopyStates, Pipelines, Settled, IndexRows
  <2>2. Len(hist) \in DOMAIN hist
    OBVIOUS
  <2>. QED  BY <1>1, <2>1, <2>2
<1>2. CASE \E t \in Copy!Trees, i \in DOMAIN hist:
             hist' = Append(hist, [tree |-> t, parent |-> i])
  <2>1. PICK t \in Copy!Trees, i \in DOMAIN hist: hist' = Append(hist, [tree |-> t, parent |-> i])
    BY <1>2
  <2>2. [tree |-> t, parent |-> i] \in [tree: Copy!Trees, parent: Nat]
    OBVIOUS
  <2>3. /\ hist' \in Seq([tree: Copy!Trees, parent: Nat])
        /\ DOMAIN hist' = 1..(Len(hist) + 1) /\ Len(hist') = Len(hist) + 1
        /\ \A k \in DOMAIN hist: hist'[k] = hist[k]
        /\ hist'[Len(hist) + 1] = [tree |-> t, parent |-> i]
    BY <2>1, <2>2
  <2>4. ASSUME NEW k \in DOMAIN hist' PROVE hist'[k].parent < k
    <3>1. CASE k \in DOMAIN hist
      BY <2>3, <3>1
    <3>2. CASE k \notin DOMAIN hist
      <4>1. k = Len(hist) + 1 /\ i < k
        BY <2>3, <3>2
      <4>2. hist'[k].parent = i
        BY <2>3, <4>1
      <4>. QED  BY <4>1, <4>2
    <3>. QED  BY <3>1, <3>2
  <2>5. DOMAIN hist \subseteq DOMAIN hist' /\ Len(hist') \in DOMAIN hist'
    BY <2>3
  <2>6. CopyStates \subseteq CopyStates'
    BY <2>5 DEF CopyStates
  <2>7. Settled \subseteq Settled'
    BY <2>5 DEF Settled, IndexRows
  <2>8. Pipelines \subseteq Pipelines'
    BY <2>6, Zenon DEF Pipelines, IndexRows
  <2>. QED  BY <2>3, <2>4, <2>5, <2>6, <2>7, <2>8
<1>. QED  BY <1>1, <1>2

LEMMA TreesAre ==
    ASSUME CopyInv, NEW i \in DOMAIN hist
    PROVE  Copy!TreeOf(i) \in Copy!Trees
<1>. DEFINE R == [tree: Copy!Trees, parent: Nat]
<1>1. hist \in Seq(R)
  BY DEF CopyInv, ServerTypes
<1>2. hist[i] \in R
  <2>. HIDE DEF R
  <2>. QED  BY <1>1
<1>. QED  BY <1>2 DEF Copy!TreeOf

(* What the gate lets through has nothing of the user's.                   *)
LEMMA GateHolds ==
    ASSUME CopyInv, NEW S \in SUBSET CheckoutPaths, ~Copy!Blocks(S)
    PROVE  mine \cap S = {} /\ Copy!Colliding(S) = {}
<1>1. ASSUME NEW p \in mine
      PROVE  p \in Copy!Dirty
  BY <1>1 DEF CopyInv, LocalTypes, MineInv, Shows, Copy!Dirty, Copy!modified, Copy!deleted,
              Copy!untracked
<1>. QED  BY <1>1 DEF Copy!Blocks, Copy!Colliding, Copy!Dirty

LEMMA ServerMoves ==
    ASSUME Copy!CopyAssumption, CopyInv,
           \/ \E p \in CheckoutPaths, c \in CheckoutBlobs \cup {None}: Copy!UpstreamLands(p, c)
           \/ \E c \in CheckoutBlobs: Copy!Redact(c)
           \/ Copy!LandAdopted \/ Copy!Snapshot
    PROVE  CopyInv'
<1>1. /\ UNCHANGED <<state, index, disk, verb, edits, mine, blind, torn>>
  BY DEF Copy!UpstreamLands, Copy!Redact, Copy!LandAdopted, Copy!Snapshot, Copy!local, Copy!ghosts,
         Copy!counts, Copy!quiet, Copy!Begins
<1>. DEFINE Moved ==
        /\ \/ UNCHANGED hist
           \/ \E t \in Copy!Trees, i \in DOMAIN hist: hist' = Append(hist, [tree |-> t, parent |-> i])
        /\ head' \in DOMAIN hist'
        /\ tombstones' \subseteq CheckoutBlobs
        /\ snap' \in Copy!Trees \cup {None}
<1>2. Moved
  <2>1. ASSUME NEW p \in CheckoutPaths, NEW c \in CheckoutBlobs \cup {None}, Copy!UpstreamLands(p, c)
        PROVE  Moved
    <3>1. [Copy!TreeOf(head) EXCEPT ![p] = c] \in Copy!Trees
      BY TreesAre DEF CopyInv, ServerTypes, Copy!Trees
    <3>2. /\ hist' = Append(hist, [tree |-> [Copy!TreeOf(head) EXCEPT ![p] = c], parent |-> head])
          /\ head' = Len(hist') /\ UNCHANGED <<tombstones, snap>>
      BY <2>1 DEF Copy!UpstreamLands
    <3>. QED  BY <3>1, <3>2, HistoryGrows DEF CopyInv, ServerTypes
  <2>2. ASSUME NEW c \in CheckoutBlobs, Copy!Redact(c)
        PROVE  Moved
    BY <2>2 DEF Copy!Redact, CopyInv, ServerTypes
  <2>3. CASE Copy!LandAdopted
    BY <2>3 DEF Copy!LandAdopted, Copy!Begins, CopyInv, ServerTypes, LocalTypes, CopyStates
  <2>4. CASE Copy!Snapshot
    <3>1. \A p \in CheckoutPaths: Copy!Captured(p) \in CheckoutBlobs \cup {None}
      BY DEF Copy!Captured, CopyInv, LocalTypes, IndexRows, Copy!Rows, Copy!Trees
    <3>2. snap' = [p \in CheckoutPaths |-> Copy!Captured(p)] /\ UNCHANGED <<hist, head, tombstones>>
      BY <2>4 DEF Copy!Snapshot
    <3>3. snap' \in Copy!Trees
      BY <3>1, <3>2 DEF Copy!Trees
    <3>. QED  BY <3>2, <3>3 DEF CopyInv, ServerTypes
  <2>. QED  BY <2>1, <2>2, <2>3, <2>4
<1>3. ServerTypes'
  BY <1>2, HistoryGrows DEF ServerTypes, Copy!Trees
<1>4. CopyStates \subseteq CopyStates' /\ Pipelines \subseteq Pipelines' /\ Settled \subseteq Settled'
  BY <1>2, HistoryGrows
<1>5. LocalTypes'
  BY <1>1, <1>4 DEF CopyInv, LocalTypes, IndexRows, Copy!Idle, Copy!Trees
<1>6. verb' \in Pipelines' => verb \in Pipelines
  <2>1. verb \in {Copy!Idle} \cup Pipelines \cup Settled
    BY DEF CopyInv, LocalTypes
  <2>2. verb \in Pipelines' => verb.stage \in CopyStages
    BY DEF Pipelines, CopyStages
  <2>3. verb = Copy!Idle \/ verb \in Settled => verb.stage \notin CopyStages
    BY DEF Copy!Idle, Settled, CopyStages
  <2>. QED  BY <1>1, <2>1, <2>2, <2>3
<1>. QED
  BY <1>1, <1>3, <1>5, <1>6 DEF CopyInv, AddsInv, MineInv, GateInv, RowsInv, Shows, Copy!Idle

LEMMA ServerStands ==
    ASSUME CopyInv, UNCHANGED <<hist, head, tombstones, snap>>
    PROVE  /\ ServerTypes'
           /\ CopyStates' = CopyStates /\ Pipelines' = Pipelines /\ Settled' = Settled
           /\ IndexRows' = IndexRows
BY DEF CopyInv, ServerTypes, CopyStates, Pipelines, Settled, IndexRows

LEMMA StaleIs ==
    ASSUME Copy!CopyAssumption, NEW at \in IndexRows, NEW p \in CheckoutPaths
    PROVE  /\ Copy!Stale(at, p) \in IndexRows
           /\ \A q \in CheckoutPaths \ {p}: Copy!Stale(at, p)[q] = at[q]
           /\ Copy!Stale(at, p)[p] = None <=> at[p] = None
           /\ at[p] # None => /\ ~Copy!Stale(at, p)[p].fresh
                              /\ Copy!Stale(at, p)[p].blob = at[p].blob
<1>1. CASE at[p] = None
  BY <1>1 DEF Copy!Stale
<1>2. CASE at[p] # None
  <2>1. at[p] \in Copy!Rows
    BY <1>2 DEF IndexRows
  <2>2. [at[p] EXCEPT !.fresh = FALSE] \in Copy!Rows
    BY <2>1 DEF Copy!Rows
  <2>3. [at[p] EXCEPT !.fresh = FALSE] # None
    BY <2>2 DEF Copy!CopyAssumption
  <2>4. Copy!Stale(at, p) = [at EXCEPT ![p] = [at[p] EXCEPT !.fresh = FALSE]]
    BY <1>2 DEF Copy!Stale
  <2>5. Copy!Stale(at, p) \in IndexRows
    BY <2>2, <2>4 DEF IndexRows
  <2>6. Copy!Stale(at, p)[p] = [at[p] EXCEPT !.fresh = FALSE]
    BY <2>4 DEF IndexRows
  <2>7. \A q \in CheckoutPaths \ {p}: Copy!Stale(at, p)[q] = at[q]
    BY <2>4 DEF IndexRows
  <2>8. ~Copy!Stale(at, p)[p].fresh /\ Copy!Stale(at, p)[p].blob = at[p].blob
    BY <2>1, <2>6 DEF Copy!Rows
  <2>. QED  BY <1>2, <2>3, <2>5, <2>6, <2>7, <2>8
<1>. QED  BY <1>1, <1>2

(* The editor: what it writes while no verb runs becomes the user's, if it *)
(* is other than the index has it; what it writes under a verb, nobody's.  *)
LEMMA EditStep ==
    ASSUME Copy!CopyAssumption, CopyInv, NEW p \in CheckoutPaths,
           NEW c \in CheckoutBlobs \cup {None}, Copy!Edit(p, c)
    PROVE  CopyInv'
<1>. USE DEF Copy!Edit, Copy!server
<1>1. ServerTypes' /\ CopyStates' = CopyStates /\ Pipelines' = Pipelines /\ Settled' = Settled
      /\ IndexRows' = IndexRows
  BY ServerStands
<1>2. /\ state' = state /\ torn' = torn /\ edits' = edits + 1
      /\ disk' = [disk EXCEPT ![p] = c] /\ index' = Copy!Stale(index, p)
      /\ state # None
  OBVIOUS
<1>3. index \in IndexRows /\ disk \in Copy!Trees
  BY DEF CopyInv, LocalTypes
<1>4. verb \in Pipelines =>
        /\ verb # Copy!Idle
        /\ verb.rows \in IndexRows
        /\ verb' = [verb EXCEPT !.rows = Copy!Stale(verb.rows, p)]
        /\ verb' \in Pipelines
        /\ verb'.rows = Copy!Stale(verb.rows, p)
        /\ verb'.op = verb.op /\ verb'.stage = verb.stage /\ verb'.force = verb.force
        /\ verb'.adds = verb.adds /\ verb'.dels = verb.dels /\ verb'.collide = verb.collide
        /\ verb'.tree = verb.tree
  <2>. SUFFICES ASSUME verb \in Pipelines PROVE <1>4!2
    OBVIOUS
  <2>1. verb # Copy!Idle
    BY DEF Pipelines, CopyOps, Copy!Idle
  <2>2. verb.rows \in IndexRows
    BY DEF Pipelines
  <2>3. Copy!Stale(verb.rows, p) \in IndexRows
    BY <2>2, StaleIs
  <2>4. verb' = [verb EXCEPT !.rows = Copy!Stale(verb.rows, p)]
    BY <2>1
  <2>. QED  BY <2>1, <2>2, <2>3, <2>4 DEF Pipelines
<1>5. verb \in Settled => verb' \in Settled
  <2>. SUFFICES ASSUME verb \in Settled PROVE verb' \in Settled
    OBVIOUS
  <2>1. verb # Copy!Idle
    BY DEF Settled, Copy!Idle
  <2>2. Copy!Stale(verb.rows, p) \in IndexRows
    BY StaleIs DEF Settled
  <2>. QED  BY <2>1, <2>2 DEF Settled
<1>6. verb' \in Pipelines => verb \in Pipelines
  <2>1. verb \in {Copy!Idle} \cup Pipelines \cup Settled
    BY DEF CopyInv, LocalTypes
  <2>2. verb' \in Pipelines => verb'.stage \in CopyStages
    BY DEF Pipelines
  <2>3. verb = Copy!Idle \/ verb' \in Settled => verb'.stage \notin CopyStages
    BY DEF Copy!Idle, Settled, CopyStages
  <2>. QED  BY <1>5, <2>1, <2>2, <2>3
<1>7. mine' \subseteq CheckoutPaths /\ mine' \subseteq mine \cup {p}
      /\ (verb # Copy!Idle => mine' \subseteq mine \ {p})
  BY DEF CopyInv, LocalTypes
<1>8. LocalTypes'
  <2>1. disk' \in Copy!Trees
    BY <1>2, <1>3 DEF Copy!Trees
  <2>2. index' \in IndexRows
    BY <1>2, <1>3, StaleIs
  <2>3. verb' \in {Copy!Idle} \cup Pipelines \cup Settled
    BY <1>4, <1>5 DEF CopyInv, LocalTypes
  <2>4. blind' \subseteq CheckoutPaths
    BY DEF CopyInv, LocalTypes
  <2>5. edits' \in Nat /\ torn' \subseteq CheckoutPaths /\ state' \in CopyStates \cup {None}
    BY <1>2 DEF CopyInv, LocalTypes
  <2>6. Copy!Trees' = Copy!Trees /\ Copy!Idle' = Copy!Idle
    BY DEF Copy!Trees, Copy!Idle
  <2>. QED  BY <1>1, <1>7, <2>1, <2>2, <2>3, <2>4, <2>5, <2>6 DEF LocalTypes
<1>9. MineInv'
  <2>1. ASSUME NEW q \in mine', q # p
        PROVE  Shows(index, q)'
    BY <1>2, <1>3, <1>7, <2>1, StaleIs DEF CopyInv, LocalTypes, MineInv, Shows, Copy!Trees
  <2>2. ASSUME p \in mine'
        PROVE  Shows(index, p)'
    <3>1. verb = Copy!Idle /\ c # (IF index[p] = None THEN None ELSE index[p].blob)
      BY <1>7, <2>2
    <3>2. disk'[p] = c
      BY <1>2, <1>3 DEF Copy!Trees
    <3>. QED  BY <1>2, <1>3, <3>1, <3>2, StaleIs DEF Shows
  <2>. QED  BY <1>2, <2>1, <2>2 DEF MineInv
<1>10. AddsInv'
  BY <1>1, <1>4, <1>6 DEF CopyInv, AddsInv
<1>11. GateInv'
  <2>1. ASSUME verb' \in Pipelines, verb.op = "remove", NEW q \in CheckoutPaths
        PROVE  verb'.rows[q] # None => index'[q] # None
    <3>1. verb.rows[q] # None => index[q] # None
      BY <1>6, <2>1 DEF CopyInv, GateInv
    <3>. QED  BY <1>2, <1>3, <1>4, <1>6, <2>1, <3>1, StaleIs
  <2>. QED  BY <1>1, <1>4, <1>6, <1>7, <2>1 DEF CopyInv, GateInv
<1>12. RowsInv'
  <2>1. ASSUME verb' \in Pipelines, NEW q \in mine'
        PROVE  verb'.rows[q] = verb.rows[q] /\ index'[q] = index[q] /\ q \in mine
    BY <1>2, <1>3, <1>4, <1>6, <1>7, <2>1, StaleIs
  <2>. QED  BY <1>1, <1>4, <1>6, <2>1 DEF CopyInv, RowsInv
<1>. QED  BY <1>1, <1>8, <1>9, <1>10, <1>11, <1>12 DEF CopyInv

(* A clone has no work of the user's; a rebuild of the index takes what is *)
(* on disk for it.                                                         *)
LEMMA CloneStep ==
    ASSUME Copy!CopyAssumption, CopyInv,
           \/ \E prefixes \in plan.cones: Copy!Clone(prefixes)
           \/ Copy!DoctorRebuild
    PROVE  CopyInv'
<1>1. /\ UNCHANGED <<hist, head, tombstones, snap, verb, edits>>
      /\ blind' \subseteq CheckoutPaths /\ torn' \subseteq CheckoutPaths
  BY DEF Copy!Clone, Copy!DoctorRebuild, Copy!server, Copy!counts, Copy!quiet, Copy!LeftOut, CopyInv,
         LocalTypes
<1>2. ServerTypes' /\ CopyStates' = CopyStates /\ Pipelines' = Pipelines /\ Settled' = Settled
      /\ IndexRows' = IndexRows
  BY <1>1, ServerStands
<1>3. /\ verb = Copy!Idle /\ mine' = {}
      /\ disk' \in Copy!Trees /\ index' \in IndexRows /\ state' \in CopyStates \cup {None}
  <2>1. ASSUME NEW prefixes, Copy!Clone(prefixes)
        PROVE  <1>3
    <3>. DEFINE tree == Copy!TreeOf(head)
                listed == Copy!walk_tree(tree, prefixes)
    <3>1. tree \in Copy!Trees
      BY TreesAre DEF CopyInv, ServerTypes
    <3>2. listed \subseteq CheckoutPaths /\ \A p \in listed: tree[p] \in CheckoutBlobs
      BY <3>1 DEF Copy!walk_tree, Copy!Trees
    <3>3. prefixes \in SUBSET Copy!Dirs
      BY <2>1 DEF Copy!Clone, Copy!Descended
    <3>4. /\ state = None /\ UNCHANGED <<verb, mine>>
          /\ disk' = [p \in CheckoutPaths |-> IF p \in listed THEN tree[p] ELSE None]
          /\ index' = [p \in CheckoutPaths |-> IF p \in listed THEN Copy!Row(tree[p]) ELSE None]
          /\ state' = [head |-> head, sparse |-> prefixes,
                       conflicted |-> {p \in listed : tree[p] \in CheckoutMarkers}]
      BY <2>1 DEF Copy!Clone
    <3>. HIDE DEF tree, listed
    <3>5. disk' \in Copy!Trees
      BY <3>2, <3>4 DEF Copy!Trees
    <3>6. index' \in IndexRows
      BY <3>2, <3>4 DEF IndexRows, Copy!Row, Copy!Rows
    <3>7. state' \in CopyStates
      BY <3>2, <3>3, <3>4 DEF CopyStates, CopyInv, ServerTypes
    <3>. QED  BY <3>4, <3>5, <3>6, <3>7 DEF CopyInv, MineInv
  <2>2. CASE Copy!DoctorRebuild
    <3>1. disk \in Copy!Trees
      BY DEF CopyInv, LocalTypes
    <3>2. index' \in IndexRows
      BY <2>2, <3>1 DEF Copy!DoctorRebuild, Copy!Trees, IndexRows, Copy!Row, Copy!Rows
    <3>. QED  BY <2>2, <3>1, <3>2 DEF Copy!DoctorRebuild, Copy!Begins, CopyInv, LocalTypes
  <2>. QED  BY <2>1, <2>2
<1>4. verb' = Copy!Idle /\ verb' \notin Pipelines
  BY <1>1, <1>3 DEF Copy!Idle, Pipelines, CopyOps
<1>5. LocalTypes'
  BY <1>1, <1>2, <1>3, <1>4 DEF CopyInv, LocalTypes, Copy!Trees, Copy!Idle
<1>. QED
  BY <1>2, <1>3, <1>4, <1>5 DEF CopyInv, AddsInv, MineInv, GateInv, RowsInv, Copy!Idle

(* A step that leaves the copy as it is and takes or drops the lock.       *)
LEMMA LockStep ==
    ASSUME Copy!CopyAssumption, CopyInv,
           \/ UNCHANGED hist
           \/ \E t \in Copy!Trees, i \in DOMAIN hist: hist' = Append(hist, [tree |-> t, parent |-> i]),
           head' \in DOMAIN hist', UNCHANGED <<tombstones, snap>>,
           UNCHANGED <<index, disk, edits, mine>>,
           blind' \subseteq CheckoutPaths, torn' \subseteq CheckoutPaths,
           state # None, state' \in CopyStates',
           verb' \in {Copy!Idle} \cup Pipelines' \cup Settled',
           AddsInv', GateInv', RowsInv'
    PROVE  CopyInv'
<1>1. ServerTypes'
  BY HistoryGrows DEF CopyInv, ServerTypes, Copy!Trees
<1>2. state' # None
  <2>1. hist' \in Seq([tree: Copy!Trees, parent: Nat])
    BY HistoryGrows
  <2>2. CopyStates' \subseteq [head: Nat, sparse: SUBSET Copy!Dirs, conflicted: SUBSET CheckoutPaths]
    BY <2>1 DEF CopyStates, Copy!Dirs
  <2>. QED  BY <2>2 DEF Copy!CopyAssumption
<1>3. LocalTypes'
  BY DEF CopyInv, LocalTypes, IndexRows, Copy!Idle, Copy!Trees
<1>4. MineInv'
  BY <1>2 DEF CopyInv, MineInv, Shows
<1>. QED  BY <1>1, <1>3, <1>4 DEF CopyInv

(* The incoming paths of a sync, and what of them is wanted.               *)
LEMMA DiffIs ==
    ASSUME CopyInv, state # None, NEW op \in CopyOps, NEW to \in DOMAIN hist, NEW force \in BOOLEAN,
           NEW v, v = Copy!apply_tree_diff(op, state.head, to, force)
    PROVE  /\ v \in Pipelines
           /\ v.op = op /\ v.stage = "fetch" /\ v.force = force /\ v.rows = index
           /\ v.adds \cup v.dels \cup v.collide \subseteq Copy!Incoming(state.head, to)
           /\ \A p \in v.adds: v.tree[p] # None
<1>. DEFINE in == Copy!Incoming(state.head, to)
            adds == Copy!Wanted(state.head, to)
            dels == {p \in in : Copy!TreeOf(to)[p] = None}
            tree == Copy!TreeOf(to)
            new == [state EXCEPT !.head = to]
<1>1. /\ in \subseteq CheckoutPaths /\ adds \subseteq in /\ dels \subseteq in
      /\ \A p \in adds: tree[p] # None
      /\ Copy!Colliding(in) \subseteq in
  BY DEF Copy!Incoming, Copy!Wanted, Copy!Colliding
<1>2. new \in CopyStates
  BY DEF CopyInv, LocalTypes, CopyStates
<1>3. tree \in Copy!Trees
  BY TreesAre
<1>4. index \in IndexRows
  BY DEF CopyInv, LocalTypes
<1>5. v = [op |-> op, stage |-> "fetch", force |-> force, state |-> new, tree |-> tree,
           adds |-> adds, dels |-> dels, collide |-> Copy!Colliding(in), rows |-> index]
  BY DEF Copy!apply_tree_diff, Copy!Pipeline
<1>. HIDE DEF in, adds, dels, tree, new
<1>6. v \in Pipelines
  BY <1>1, <1>2, <1>3, <1>4, <1>5 DEF Pipelines, CopyStages
<1>. QED  BY <1>1, <1>5, <1>6 DEF in

(* What takes the lock: a verb that has looked at its gate, or whose       *)
(* changeset is on main.                                                   *)
LEMMA BeginStep ==
    ASSUME Copy!CopyAssumption, CopyInv,
           \/ \E force \in BOOLEAN: Copy!SyncBegin(force) \/ Copy!RestoreBegin(force)
           \/ \E d \in Copy!Dirs: Copy!SparseRemoveBegin(d)
                                    \/ \E force \in BOOLEAN: Copy!SparseAddBegin(d, force)
           \/ Copy!CommitBegin \/ \E p \in CheckoutPaths: Copy!ResolveBegin(p)
    PROVE  CopyInv'
<1>1. /\ state # None /\ state' = state
      /\ UNCHANGED <<hist, head, tombstones, snap, index, disk, edits, mine>>
      /\ blind' \subseteq CheckoutPaths /\ torn' \subseteq CheckoutPaths
  BY DEF Copy!SyncBegin, Copy!RestoreBegin, Copy!SparseRemoveBegin, Copy!SparseAddBegin,
         Copy!CommitBegin, Copy!ResolveBegin, Copy!Commit, Copy!Begins, Copy!server, Copy!ghosts,
         Copy!quiet, Copy!LeftOut, CopyInv, LocalTypes
<1>2. ServerTypes' /\ CopyStates' = CopyStates /\ Pipelines' = Pipelines /\ Settled' = Settled
      /\ IndexRows' = IndexRows
  BY <1>1, ServerStands
<1>3. /\ index \in IndexRows /\ disk \in Copy!Trees /\ state \in CopyStates
      /\ snap \in Copy!Trees \cup {None}
  BY <1>1 DEF CopyInv, LocalTypes, ServerTypes
<1>. DEFINE Rows(v) ==
              /\ v.op \in {"sync", "land", "add", "remove"} => v.rows = index
              /\ v.op = "restore" => \A p \in CheckoutPaths: v.rows[p] = None
            Gate(v) ==
              /\ v.stage = "fetch" /\ ~v.force => mine \cap (v.adds \cup v.dels \cup v.collide) = {}
              /\ v.op \in {"commit", "resolve", "remove"} => v.collide = {} /\ v.stage # "fetch"
              /\ v.op = "remove" <=> v.stage = "write"
              /\ v.stage \in {"put", "posted"} => v.op \in {"commit", "resolve"}
              /\ v.op = "remove" => v.adds = {}
            Good == /\ verb' \in Pipelines /\ Rows(verb') /\ Gate(verb')
                    /\ \A p \in verb'.adds: verb'.tree[p] # None
<1>4. ASSUME NEW force \in BOOLEAN, Copy!SyncBegin(force)
      PROVE  Good
  <2>1. /\ verb' = Copy!apply_tree_diff("sync", state.head, head, force)
        /\ force \/ ~Copy!Blocks(Copy!Incoming(state.head, head))
    BY <1>4 DEF Copy!SyncBegin
  <2>2. Copy!Incoming(state.head, head) \in SUBSET CheckoutPaths
    BY DEF Copy!Incoming
  <2>3. ~force => mine \cap Copy!Incoming(state.head, head) = {}
    BY <2>1, <2>2, GateHolds
  <2>4. head \in DOMAIN hist /\ "sync" \in CopyOps
    BY DEF CopyInv, ServerTypes, CopyOps
  <2>. QED  BY <1>1, <2>1, <2>3, <2>4, DiffIs
<1>5. ASSUME NEW force \in BOOLEAN, Copy!RestoreBegin(force)
      PROVE  Good
  <2>. DEFINE listed == Copy!walk_tree(snap, state.sparse)
  <2>1. /\ verb' = [op |-> "restore", stage |-> "fetch", force |-> force, state |-> state,
                    tree |-> snap, adds |-> listed, dels |-> {}, collide |-> Copy!Colliding(listed),
                    rows |-> Copy!NoRow]
        /\ force \/ ~Copy!Blocks(listed)
        /\ snap # None
    BY <1>5 DEF Copy!RestoreBegin, Copy!Pipeline
  <2>2. listed \in SUBSET CheckoutPaths /\ \A p \in listed: snap[p] # None
    BY DEF Copy!walk_tree
  <2>. HIDE DEF listed
  <2>3. ~force => mine \cap listed = {} /\ Copy!Colliding(listed) = {}
    BY <2>1, <2>2, GateHolds
  <2>4. Copy!NoRow \in IndexRows /\ \A p \in CheckoutPaths: Copy!NoRow[p] = None
    BY DEF Copy!NoRow, IndexRows
  <2>5. Copy!Colliding(listed) \subseteq CheckoutPaths
    BY <2>2 DEF Copy!Colliding
  <2>6. verb' \in Pipelines
    BY <1>3, <2>1, <2>2, <2>4, <2>5 DEF Pipelines, CopyOps, CopyStages
  <2>. QED  BY <2>1, <2>2, <2>3, <2>4, <2>6
<1>6. ASSUME NEW d \in Copy!Dirs, NEW force \in BOOLEAN, Copy!SparseAddBegin(d, force)
      PROVE  Good
  <2>. DEFINE tree == Copy!TreeOf(state.head)
              listed == Copy!walk_tree(tree, {d})
              adds == {p \in listed : force \/ index[p] = None}
              new == [state EXCEPT !.sparse = @ \cup {d}]
  <2>1. /\ verb' = [op |-> "add", stage |-> "fetch", force |-> force, state |-> new,
                    tree |-> tree, adds |-> adds, dels |-> {}, collide |-> Copy!Colliding(listed),
                    rows |-> index]
        /\ force \/ ~Copy!Blocks(listed)
    BY <1>6 DEF Copy!SparseAddBegin, Copy!Pipeline
  <2>2. listed \in SUBSET CheckoutPaths /\ \A p \in listed: tree[p] # None
    BY DEF Copy!walk_tree
  <2>3. adds \subseteq listed /\ new \in CopyStates /\ tree \in Copy!Trees
    BY <1>3, TreesAre DEF CopyStates
  <2>. HIDE DEF listed, adds, new, tree
  <2>4. ~force => mine \cap listed = {} /\ Copy!Colliding(listed) = {}
    BY <2>1, <2>2, GateHolds
  <2>5. Copy!Colliding(listed) \subseteq CheckoutPaths
    BY <2>2 DEF Copy!Colliding
  <2>6. verb' \in Pipelines
    BY <1>3, <2>1, <2>2, <2>3, <2>5 DEF Pipelines, CopyOps, CopyStages
  <2>. QED  BY <2>1, <2>2, <2>3, <2>4, <2>6
<1>7. ASSUME NEW d \in Copy!Dirs, Copy!SparseRemoveBegin(d)
      PROVE  Good
  <2>. DEFINE gone == {p \in CheckoutPaths : p[1] = d}
              dels == {p \in gone : index[p] # None}
              new == [state EXCEPT !.sparse = @ \ {d}, !.conflicted = @ \ gone]
  <2>1. verb' = [op |-> "remove", stage |-> "write", force |-> FALSE, state |-> new,
                 tree |-> Copy!NoRow, adds |-> {}, dels |-> dels, collide |-> {},
                 rows |-> index]
    BY <1>7 DEF Copy!SparseRemoveBegin, Copy!Pipeline
  <2>2. new \in CopyStates /\ dels \subseteq CheckoutPaths /\ Copy!NoRow \in Copy!Trees
    BY <1>3 DEF CopyStates, Copy!NoRow, Copy!Trees
  <2>. HIDE DEF gone, dels, new
  <2>3. verb' \in Pipelines
    BY <1>3, <2>1, <2>2 DEF Pipelines, CopyOps, CopyStages
  <2>. QED  BY <2>1, <2>3
<1>8. ASSUME NEW op \in {"commit", "resolve"}, NEW adds \in SUBSET CheckoutPaths,
             NEW dels \in SUBSET CheckoutPaths, \A p \in adds: disk[p] # None,
             Copy!Commit(op, adds, dels)
      PROVE  Good
  <2>1. verb' = [op |-> op, stage |-> "put", force |-> FALSE, state |-> state,
                 tree |-> disk, adds |-> adds, dels |-> dels, collide |-> {}, rows |-> index]
    BY <1>8 DEF Copy!Commit, Copy!Pipeline
  <2>2. verb' \in Pipelines
    BY <1>3, <2>1 DEF Pipelines, CopyOps, CopyStages
  <2>. QED  BY <1>8, <2>1, <2>2
<1>9. Good
  <2>1. CASE Copy!CommitBegin
    <3>. DEFINE adds == Copy!modified \cup {p \in Copy!untracked : Copy!under_sparse(state.sparse, p)}
    <3>1. Copy!Commit("commit", adds, Copy!deleted)
      BY <2>1 DEF Copy!CommitBegin
    <3>2. adds \in SUBSET CheckoutPaths /\ Copy!deleted \in SUBSET CheckoutPaths
          /\ \A p \in adds: disk[p] # None
      BY DEF Copy!modified, Copy!deleted, Copy!untracked
    <3>. QED  BY <1>8, <3>1, <3>2
  <2>2. ASSUME NEW p \in CheckoutPaths, Copy!ResolveBegin(p)
        PROVE  Good
    <3>1. disk[p] # None /\ Copy!Commit("resolve", {p}, {})
      BY <2>2 DEF Copy!ResolveBegin
    <3>2. {p} \in SUBSET CheckoutPaths /\ {} \in SUBSET CheckoutPaths
          /\ \A q \in {p}: disk[q] # None
      BY <3>1
    <3>. HIDE DEF Good
    <3>. QED  BY <1>8, <3>1, <3>2
  <2>. QED  BY <1>4, <1>5, <1>6, <1>7, <2>1, <2>2
<1>. HIDE DEF Good
<1>10. AddsInv' /\ GateInv' /\ RowsInv' /\ verb' \in Pipelines
  <2>. USE DEF Good
  <2>1. AddsInv' /\ verb' \in Pipelines
    BY <1>9 DEF AddsInv
  <2>2. GateInv'
    BY <1>1, <1>2, <1>9 DEF GateInv
  <2>3. RowsInv'
    BY <1>1, <1>2, <1>9 DEF RowsInv, CopyInv, LocalTypes
  <2>. QED  BY <2>1, <2>2, <2>3
<1>. QED
  BY <1>1, <1>2, <1>3, <1>10, LockStep DEF CopyInv, ServerTypes

(* A land: its changeset is on main, then the copy follows, if the gate    *)
(* lets it.                                                                *)
LEMMA LandStep ==
    ASSUME Copy!CopyAssumption, CopyInv,
           \/ Copy!LandContained \/ \E marker \in CheckoutMarkers: Copy!LandRebased(marker)
           \/ Copy!LandFollow
    PROVE  CopyInv'
<1>1. /\ UNCHANGED <<tombstones, snap, index, disk, edits, mine>>
      /\ blind' \subseteq CheckoutPaths /\ torn' \subseteq CheckoutPaths
  BY DEF Copy!LandContained, Copy!LandRebased, Copy!LandFollow, Copy!Begins, Copy!server,
         Copy!ghosts, Copy!quiet, Copy!counts, CopyInv, LocalTypes
<1>2. index \in IndexRows /\ IndexRows' = IndexRows
  BY DEF CopyInv, LocalTypes, IndexRows
<1>3. state # None /\ state \in CopyStates
  <2>1. CASE Copy!LandFollow
    <3>1. verb # Copy!Idle
      BY <2>1 DEF Copy!LandFollow, Copy!Idle
    <3>. QED  BY <3>1 DEF CopyInv, MineInv, LocalTypes
  <2>. QED  BY <2>1 DEF Copy!LandContained, Copy!LandRebased, Copy!Begins, CopyInv, LocalTypes
<1>4. CASE Copy!LandContained \/ \E marker \in CheckoutMarkers: Copy!LandRebased(marker)
  <2>1. /\ \/ UNCHANGED hist
           \/ \E t \in Copy!Trees, i \in DOMAIN hist: hist' = Append(hist, [tree |-> t, parent |-> i])
        /\ head' \in DOMAIN hist' /\ state' = state
        /\ \E to \in DOMAIN hist': verb' = [op |-> "land", stage |-> "landed", to |-> to, rows |-> index]
    <3>1. CASE Copy!LandContained
      BY <3>1 DEF Copy!LandContained, Copy!LandSettled, Copy!server, CopyInv, ServerTypes
    <3>2. ASSUME NEW marker \in CheckoutMarkers, Copy!LandRebased(marker)
          PROVE  <2>1
      <4>. DEFINE t == Copy!LandedTree(marker)
      <4>1. t \in Copy!Trees
        <5>1. /\ Copy!TreeOf(state.head) \in Copy!Trees /\ Copy!TreeOf(head) \in Copy!Trees
              /\ marker \in CheckoutBlobs
          BY <1>3, TreesAre DEF CopyInv, ServerTypes, CopyStates, Copy!CopyAssumption
        <5>. QED  BY <5>1 DEF Copy!LandedTree, Copy!Trees
      <4>2. /\ hist' = Append(hist, [tree |-> t, parent |-> head])
            /\ head' = Len(hist') /\ state' = state
            /\ verb' = [op |-> "land", stage |-> "landed", to |-> Len(hist'), rows |-> index]
        BY <3>2 DEF Copy!LandRebased, Copy!LandSettled
      <4>3. head \in DOMAIN hist
        BY DEF CopyInv, ServerTypes
      <4>. HIDE DEF t
      <4>4. Len(hist') \in DOMAIN hist'
        BY <4>1, <4>2, <4>3, HistoryGrows
      <4>. QED  BY <4>1, <4>2, <4>3, <4>4
    <3>. QED  BY <1>4, <3>1, <3>2
  <2>2. verb' \in Settled' /\ verb' \notin Pipelines'
    BY <1>2, <2>1 DEF Settled, Pipelines, CopyStages
  <2>3. state' \in CopyStates'
    BY <1>3, <2>1, HistoryGrows
  <2>4. AddsInv' /\ GateInv' /\ RowsInv'
    BY <2>2 DEF AddsInv, GateInv, RowsInv
  <2>. QED  BY <1>1, <1>3, <2>1, <2>2, <2>3, <2>4, LockStep
<1>5. CASE Copy!LandFollow
  <2>1. UNCHANGED <<hist, head, tombstones, snap>>
    BY <1>5 DEF Copy!LandFollow, Copy!server
  <2>2. CopyStates' = CopyStates /\ Pipelines' = Pipelines /\ Settled' = Settled
    BY <2>1, ServerStands
  <2>3. verb \in Settled
    <3>1. verb # Copy!Idle /\ verb \notin Pipelines
      BY <1>5 DEF Copy!LandFollow, Copy!Idle, Pipelines, CopyStages
    <3>. QED  BY <3>1 DEF CopyInv, LocalTypes
  <2>. DEFINE to == verb.to
  <2>4. to \in DOMAIN hist
    BY <2>3 DEF Settled
  <2>5. CASE /\ ~Copy!Blocks(Copy!Incoming(state.head, to))
             /\ verb' = Copy!apply_tree_diff("land", state.head, to, FALSE) /\ UNCHANGED state
    <3>1. Copy!Incoming(state.head, to) \in SUBSET CheckoutPaths
      BY DEF Copy!Incoming
    <3>2. mine \cap Copy!Incoming(state.head, to) = {}
      BY <2>5, <3>1, GateHolds
    <3>3. /\ verb' \in Pipelines
          /\ verb'.op = "land" /\ verb'.stage = "fetch" /\ verb'.force = FALSE /\ verb'.rows = index
          /\ verb'.adds \cup verb'.dels \cup verb'.collide \subseteq Copy!Incoming(state.head, to)
          /\ \A p \in verb'.adds: verb'.tree[p] # None
      <4>1. "land" \in CopyOps /\ FALSE \in BOOLEAN
        BY DEF CopyOps
      <4>2. PICK force \in BOOLEAN:
              force = FALSE /\ verb' = Copy!apply_tree_diff("land", state.head, to, force)
        BY <2>5
      <4>. HIDE DEF to
      <4>3. /\ verb' \in Pipelines
            /\ verb'.op = "land" /\ verb'.stage = "fetch" /\ verb'.force = force /\ verb'.rows = index
            /\ verb'.adds \cup verb'.dels \cup verb'.collide \subseteq Copy!Incoming(state.head, to)
            /\ \A p \in verb'.adds: verb'.tree[p] # None
        BY <1>3, <2>4, <4>1, <4>2, DiffIs
      <4>. QED  BY <4>2, <4>3
    <3>4. AddsInv' /\ RowsInv'
      BY <1>1, <3>3 DEF AddsInv, RowsInv
    <3>5. GateInv'
      BY <1>1, <3>2, <3>3 DEF GateInv
    <3>. QED  BY <1>1, <1>3, <2>1, <2>2, <2>5, <3>3, <3>4, <3>5, LockStep DEF CopyInv, ServerTypes
  <2>6. CASE verb' = Copy!Idle /\ state' = [state EXCEPT !.conflicted = Copy!stale_marks]
    <3>1. Copy!stale_marks \subseteq CheckoutPaths
      BY <1>3 DEF Copy!stale_marks, CopyStates
    <3>2. state' \in CopyStates'
      BY <1>3, <2>2, <2>6, <3>1 DEF CopyStates
    <3>3. verb' \notin Pipelines'
      BY <2>2, <2>6 DEF Copy!Idle, Pipelines, CopyOps
    <3>4. AddsInv' /\ GateInv' /\ RowsInv'
      BY <3>3 DEF AddsInv, GateInv, RowsInv
    <3>. QED  BY <1>1, <1>3, <2>1, <2>6, <3>2, <3>4, LockStep DEF CopyInv, ServerTypes
  <2>. QED  BY <1>5, <2>5, <2>6 DEF Copy!LandFollow, Copy!FollowLand
<1>. QED  BY <1>4, <1>5

(* A verb that ends, by refusal, by death, or by saving what it made, its  *)
(* state first.                                                            *)
LEMMA EndStep ==
    ASSUME Copy!CopyAssumption, CopyInv, Copy!GiveUp \/ Copy!Die \/ Copy!SaveState
    PROVE  CopyInv'
<1>1. /\ UNCHANGED <<hist, head, tombstones, snap, index, disk, edits, mine>>
      /\ blind' \subseteq CheckoutPaths /\ torn' \subseteq CheckoutPaths
  BY DEF Copy!GiveUp, Copy!Die, Copy!SaveState, Copy!server, Copy!ghosts, Copy!counts,
         Copy!Changed, CopyInv, LocalTypes
<1>2. CopyStates' = CopyStates /\ Pipelines' = Pipelines /\ Settled' = Settled
  BY <1>1, ServerStands
<1>3. verb # Copy!Idle /\ state # None /\ state \in CopyStates
  BY DEF Copy!GiveUp, Copy!Die, Copy!SaveState, Copy!Idle, CopyInv, MineInv, LocalTypes
<1>4. CASE Copy!GiveUp \/ Copy!Die
  <2>1. state' \in CopyStates
    <3>1. Copy!stale_marks \subseteq CheckoutPaths
      BY <1>3 DEF Copy!stale_marks, CopyStates
    <3>2. state' = state \/ state' = [state EXCEPT !.conflicted = Copy!stale_marks]
      BY <1>4 DEF Copy!GiveUp, Copy!Die
    <3>. QED  BY <1>3, <3>1, <3>2 DEF CopyStates
  <2>2. verb' = Copy!Idle /\ verb' \notin Pipelines'
    BY <1>2, <1>4 DEF Copy!GiveUp, Copy!Die, Copy!Idle, Pipelines, CopyOps
  <2>3. AddsInv' /\ GateInv' /\ RowsInv'
    BY <2>2 DEF AddsInv, GateInv, RowsInv
  <2>. QED  BY <1>1, <1>2, <1>3, <2>1, <2>2, <2>3, LockStep DEF CopyInv, ServerTypes
<1>5. CASE Copy!SaveState
  <2>1. verb \in Pipelines /\ verb' = [verb EXCEPT !.stage = "index"] /\ state' = verb.state
    BY <1>5, InFlight DEF Copy!SaveState, CopyStages
  <2>2. /\ verb' \in Pipelines /\ state' \in CopyStates
        /\ verb'.op = verb.op /\ verb'.rows = verb.rows /\ verb'.stage = "index"
        /\ verb'.adds = verb.adds /\ verb'.collide = verb.collide /\ verb'.tree = verb.tree
    BY <2>1 DEF Pipelines, CopyStages
  <2>3. AddsInv' /\ GateInv' /\ RowsInv'
    BY <1>1, <2>1, <2>2 DEF CopyInv, AddsInv, GateInv, RowsInv
  <2>. QED  BY <1>1, <1>2, <1>3, <2>2, <2>3, LockStep DEF CopyInv, ServerTypes
<1>. QED  BY <1>4, <1>5

(* The writes of a verb: what they touch is no longer the user's.          *)
LEMMA FetchedStep ==
    ASSUME Copy!CopyAssumption, CopyInv, Copy!Fetched
    PROVE  CopyInv'
<1>. USE DEF Copy!Fetched, Copy!server, Copy!counts
<1>1. /\ verb \in Pipelines /\ state # None
      /\ UNCHANGED <<hist, head, tombstones, snap, state, edits, torn>>
      /\ blind' \subseteq CheckoutPaths
  BY InFlight DEF CopyStages, CopyInv, LocalTypes
<1>2. ServerTypes' /\ CopyStates' = CopyStates /\ Pipelines' = Pipelines /\ Settled' = Settled
      /\ IndexRows' = IndexRows
  BY <1>1, ServerStands
<1>3. index \in IndexRows /\ disk \in Copy!Trees /\ verb.collide \in SUBSET CheckoutPaths
  BY <1>1 DEF CopyInv, LocalTypes, Pipelines
<1>4. /\ verb' \in Pipelines /\ verb'.stage = "write"
      /\ verb'.op = verb.op /\ verb'.rows = verb.rows /\ verb'.force = verb.force
      /\ verb'.adds = verb.adds /\ verb'.dels = verb.dels /\ verb'.collide = verb.collide
      /\ verb'.tree = verb.tree
  BY <1>1 DEF Pipelines, CopyStages
<1>5. /\ disk' \in Copy!Trees
      /\ \A p \in CheckoutPaths \ verb.collide: disk'[p] = disk[p]
  BY <1>3 DEF Copy!Trees
<1>6. /\ index' \in IndexRows
      /\ \A p \in CheckoutPaths \ verb.collide: index'[p] = index[p]
      /\ \A p \in CheckoutPaths: index'[p] = None <=> index[p] = None
  <2>1. \A p \in CheckoutPaths: Copy!Stale(index, p)[p] \in {None} \cup Copy!Rows
    BY <1>3, StaleIs DEF IndexRows
  <2>2. \A p \in CheckoutPaths: Copy!Stale(index, p)[p] = None <=> index[p] = None
    BY <1>3, StaleIs
  <2>. QED  BY <1>3, <2>1, <2>2 DEF IndexRows
<1>7. mine' = mine \ verb.collide /\ mine' \subseteq CheckoutPaths
  BY DEF CopyInv, LocalTypes
<1>8. LocalTypes'
  BY <1>1, <1>2, <1>4, <1>5, <1>6, <1>7 DEF CopyInv, LocalTypes, Copy!Trees, Copy!Idle
<1>9. MineInv'
  BY <1>1, <1>5, <1>6, <1>7 DEF CopyInv, MineInv, Shows
<1>10. AddsInv'
  BY <1>1, <1>4 DEF CopyInv, AddsInv
<1>11. GateInv'
  BY <1>1, <1>4, <1>6, <1>7 DEF CopyInv, GateInv
<1>12. RowsInv'
  BY <1>1, <1>4, <1>6, <1>7 DEF CopyInv, RowsInv
<1>. QED  BY <1>2, <1>8, <1>9, <1>10, <1>11, <1>12 DEF CopyInv

LEMMA CopyWriteStep ==
    ASSUME Copy!CopyAssumption, CopyInv, NEW p \in CheckoutPaths, Copy!Write(p) \/ Copy!Delete(p)
    PROVE  CopyInv'
<1>1. /\ verb \in Pipelines /\ state # None
      /\ UNCHANGED <<hist, head, tombstones, snap, state, edits, blind>>
  BY InFlight DEF Copy!Write, Copy!Delete, Copy!server, Copy!counts, CopyStages
<1>2. ServerTypes' /\ CopyStates' = CopyStates /\ Pipelines' = Pipelines /\ Settled' = Settled
      /\ IndexRows' = IndexRows
  BY <1>1, ServerStands
<1>3. /\ index \in IndexRows /\ disk \in Copy!Trees /\ verb.rows \in IndexRows
      /\ verb.state \in CopyStates /\ mine \subseteq CheckoutPaths /\ torn \subseteq CheckoutPaths
  BY <1>1 DEF CopyInv, LocalTypes, Pipelines
<1>. DEFINE Touched ==
        /\ disk' \in Copy!Trees /\ \A q \in CheckoutPaths \ {p}: disk'[q] = disk[q]
        /\ index' = Copy!Stale(index, p) /\ torn' = torn \cup {p} /\ mine' = mine \ {p}
        /\ \A q \in CheckoutPaths \ {p}: verb'.rows[q] = verb.rows[q]
     Left ==
        /\ UNCHANGED <<disk, index, torn, mine>>
        /\ verb'.rows = verb.rows
     Moved ==
        /\ verb' \in Pipelines
        /\ verb'.op = verb.op /\ verb'.stage = verb.stage /\ verb'.force = verb.force
        /\ verb'.tree = verb.tree /\ verb'.collide = verb.collide
        /\ verb'.adds \subseteq verb.adds /\ verb'.dels \subseteq verb.dels
        /\ verb.op = "remove" => verb'.rows[p] = None \/ verb'.rows[p] = verb.rows[p]
<1>4. Moved /\ (Touched \/ Left)
  <2>1. CASE Copy!Write(p)
    <3>. DEFINE b == verb.tree[p]
    <3>1. b \in CheckoutBlobs /\ Copy!Row(b) \in Copy!Rows /\ verb.op # "remove"
      <4>1. b # None /\ verb.op # "remove"
        BY <1>1, <2>1 DEF Copy!Write, CopyInv, AddsInv, GateInv
      <4>2. b \in CheckoutBlobs \cup {None}
        BY <1>1 DEF Pipelines, Copy!Trees
      <4>. QED  BY <4>1, <4>2 DEF Copy!Row, Copy!Rows
    <3>. DEFINE marks == Copy!Marked(verb.state.conflicted, p, b)
                new == [verb.state EXCEPT !.conflicted = marks]
                at == [verb.rows EXCEPT ![p] = Copy!Row(b)]
    <3>2. new \in CopyStates
      <4>1. marks \subseteq CheckoutPaths
        BY <1>3 DEF Copy!Marked, CopyStates
      <4>. QED  BY <1>3, <4>1 DEF CopyStates
    <3>3. at \in IndexRows /\ \A q \in CheckoutPaths \ {p}: at[q] = verb.rows[q]
      BY <1>3, <3>1 DEF IndexRows
    <3>4. verb' = [verb EXCEPT !.adds = verb.adds \ {p}, !.rows = at, !.state = new]
      BY <1>1, <2>1 DEF Copy!Write, Pipelines
    <3>5. Touched
      <4>1. disk' = [disk EXCEPT ![p] = b] /\ index' = Copy!Stale(index, p)
            /\ torn' = torn \cup {p} /\ mine' = mine \ {p}
        BY <2>1 DEF Copy!Write
      <4>2. verb'.rows = at
        BY <1>1, <3>4 DEF Pipelines
      <4>. QED  BY <1>3, <3>1, <3>3, <4>1, <4>2 DEF Copy!Trees
    <3>. HIDE DEF at, new
    <3>6. Moved
      BY <1>1, <3>1, <3>2, <3>3, <3>4 DEF Pipelines
    <3>. QED  BY <3>5, <3>6
  <2>2. CASE Copy!Delete(p)
    <3>1. CASE verb.rows[p] = None
      BY <1>1, <2>2, <3>1 DEF Copy!Delete, Pipelines
    <3>2. CASE verb.rows[p] # None
      <4>. DEFINE new == [verb.state EXCEPT !.conflicted = verb.state.conflicted \ {p}]
                  at == [verb.rows EXCEPT ![p] = None]
      <4>1. new \in CopyStates
        BY <1>3 DEF CopyStates
      <4>2. at \in IndexRows /\ at[p] = None /\ \A q \in CheckoutPaths \ {p}: at[q] = verb.rows[q]
        BY <1>3 DEF IndexRows
      <4>3. verb' = [verb EXCEPT !.dels = verb.dels \ {p}, !.rows = at, !.state = new]
        BY <1>1, <2>2, <3>2 DEF Copy!Delete, Pipelines
      <4>4. disk' = [disk EXCEPT ![p] = None] /\ index' = Copy!Stale(index, p)
            /\ torn' = torn \cup {p} /\ mine' = mine \ {p}
        BY <2>2, <3>2 DEF Copy!Delete
      <4>. HIDE DEF at, new
      <4>5. Moved /\ verb'.rows = at
        BY <1>1, <4>1, <4>2, <4>3 DEF Pipelines
      <4>. QED  BY <1>3, <4>2, <4>4, <4>5 DEF Copy!Trees
    <3>. QED  BY <3>1, <3>2
  <2>. QED  BY <2>1, <2>2
<1>. HIDE DEF Moved, Touched, Left
<1>5. /\ mine' \subseteq mine /\ torn' \subseteq CheckoutPaths
      /\ index' \in IndexRows /\ disk' \in Copy!Trees
      /\ \A q \in mine': /\ index'[q] = index[q] /\ disk'[q] = disk[q]
                         /\ verb'.rows[q] = verb.rows[q]
      /\ \A q \in CheckoutPaths: index'[q] = None <=> index[q] = None
      /\ \A q \in CheckoutPaths \ {p}: verb'.rows[q] = verb.rows[q]
  BY <1>3, <1>4, StaleIs DEF Touched, Left
<1>6. LocalTypes'
  BY <1>1, <1>2, <1>3, <1>4, <1>5 DEF Moved, CopyInv, LocalTypes, Copy!Trees, Copy!Idle
<1>7. MineInv'
  BY <1>1, <1>5 DEF CopyInv, MineInv, Shows
<1>8. AddsInv'
  BY <1>1, <1>4 DEF Moved, CopyInv, AddsInv
<1>9. GateInv'
  <2>1. \A q \in CheckoutPaths: verb.op = "remove" /\ verb'.rows[q] # None => index'[q] # None
    BY <1>1, <1>4, <1>5 DEF Moved, CopyInv, GateInv
  <2>. QED  BY <1>1, <1>4, <1>5, <2>1 DEF Moved, CopyInv, GateInv
<1>10. RowsInv'
  BY <1>1, <1>4, <1>5 DEF Moved, CopyInv, RowsInv
<1>. QED  BY <1>2, <1>6, <1>7, <1>8, <1>9, <1>10 DEF CopyInv

(* A commit: its changeset is posted, and the rows take the files' stat as *)
(* it is then, whatever the editor wrote in between.                       *)
LEMMA PostStep ==
    ASSUME Copy!CopyAssumption, CopyInv, Copy!Upload \/ Copy!Stat
    PROVE  CopyInv'
<1>1. /\ verb \in Pipelines /\ state # None /\ state \in CopyStates
      /\ UNCHANGED <<head, tombstones, snap, state, index, disk, edits, mine>>
      /\ blind' \subseteq CheckoutPaths /\ torn' \subseteq CheckoutPaths
  BY InFlight DEF Copy!Upload, Copy!Stat, Copy!server, Copy!ghosts, Copy!counts, CopyStages,
         CopyInv, LocalTypes
<1>2. CASE Copy!Upload
  <2>. DEFINE t == [p \in CheckoutPaths |-> IF p \in verb.adds THEN verb.tree[p]
                                            ELSE IF p \in verb.dels THEN None
                                            ELSE Copy!TreeOf(state.head)[p]]
  <2>1. t \in Copy!Trees
    <3>1. Copy!TreeOf(state.head) \in Copy!Trees /\ verb.tree \in Copy!Trees
      BY <1>1, TreesAre DEF CopyStates, Pipelines
    <3>. QED  BY <3>1 DEF Copy!Trees
  <2>2. hist' = Append(hist, [tree |-> t, parent |-> state.head])
    BY <1>2 DEF Copy!Upload
  <2>3. verb' = [verb EXCEPT !.stage = "posted", !.state = [verb.state EXCEPT !.head = Len(hist')]]
    BY <1>1, <1>2 DEF Copy!Upload, Pipelines
  <2>4. state.head \in DOMAIN hist
    BY <1>1 DEF CopyStates
  <2>. HIDE DEF t
  <2>5. /\ \/ UNCHANGED hist
           \/ \E s \in Copy!Trees, i \in DOMAIN hist: hist' = Append(hist, [tree |-> s, parent |-> i])
        /\ DOMAIN hist \subseteq DOMAIN hist' /\ Len(hist') \in DOMAIN hist'
        /\ CopyStates \subseteq CopyStates' /\ Pipelines \subseteq Pipelines'
    BY <2>1, <2>2, <2>4, HistoryGrows
  <2>6. /\ verb' \in Pipelines'
        /\ verb'.op = verb.op /\ verb'.rows = verb.rows /\ verb'.stage = "posted"
        /\ verb'.adds = verb.adds /\ verb'.collide = verb.collide /\ verb'.tree = verb.tree
    <3>1. verb \in Pipelines' /\ verb.state \in CopyStates'
      BY <1>1, <2>5 DEF Pipelines
    <3>2. [verb.state EXCEPT !.head = Len(hist')] \in CopyStates'
      BY <2>5, <3>1 DEF CopyStates
    <3>. QED  BY <2>3, <3>1, <3>2 DEF Pipelines, CopyStages
  <2>7. AddsInv' /\ GateInv' /\ RowsInv'
    <3>1. verb.stage = "put" /\ verb.op \in {"commit", "resolve"}
      BY <1>1, <1>2 DEF Copy!Upload, CopyInv, GateInv
    <3>. QED  BY <1>1, <2>6, <3>1 DEF CopyInv, AddsInv, GateInv, RowsInv
  <2>8. head' \in DOMAIN hist' /\ state' \in CopyStates'
    BY <1>1, <2>5 DEF CopyInv, ServerTypes
  <2>. QED  BY <1>1, <2>5, <2>6, <2>7, <2>8, LockStep
<1>3. CASE Copy!Stat
  <2>1. UNCHANGED hist /\ verb.stage = "posted"
    BY <1>3 DEF Copy!Stat, Copy!server
  <2>2. CopyStates' = CopyStates /\ Pipelines' = Pipelines /\ Settled' = Settled
    BY <1>1, <2>1, ServerStands
  <2>. DEFINE new == [verb.state EXCEPT !.conflicted = verb.state.conflicted \ (verb.adds \cup verb.dels)]
              at == [p \in CheckoutPaths |-> IF p \in verb.adds THEN Copy!Row(verb.tree[p])
                                             ELSE IF p \in verb.dels THEN None ELSE verb.rows[p]]
  <2>3. new \in CopyStates
    BY <1>1 DEF Pipelines, CopyStates
  <2>4. at \in IndexRows
    <3>1. \A p \in verb.adds: verb.tree[p] \in CheckoutBlobs
      BY <1>1 DEF CopyInv, AddsInv, Pipelines, Copy!Trees
    <3>2. verb.rows \in IndexRows
      BY <1>1 DEF Pipelines
    <3>. QED  BY <3>1, <3>2 DEF IndexRows, Copy!Row, Copy!Rows
  <2>5. verb' = [verb EXCEPT !.stage = "write", !.adds = {}, !.dels = {}, !.state = new, !.rows = at]
    BY <1>1, <1>3 DEF Copy!Stat, Pipelines
  <2>. HIDE DEF new, at
  <2>6. /\ verb' \in Pipelines
        /\ verb'.op = verb.op /\ verb'.adds = {} /\ verb'.dels = {} /\ verb'.collide = verb.collide
    BY <1>1, <2>3, <2>4, <2>5 DEF Pipelines, CopyStages
  <2>7. verb.op \in {"commit", "resolve"}
    BY <1>1, <2>1 DEF CopyInv, GateInv
  <2>8. AddsInv' /\ GateInv' /\ RowsInv'
    BY <1>1, <2>6, <2>7 DEF CopyInv, AddsInv, GateInv, RowsInv
  <2>. QED  BY <1>1, <2>1, <2>2, <2>6, <2>8, LockStep DEF CopyInv, ServerTypes
<1>. QED  BY <1>2, <1>3

(* The index is saved: it shows of the user's work what it did.            *)
LEMMA SaveIndexStep ==
    ASSUME Copy!CopyAssumption, CopyInv, Copy!SaveIndex
    PROVE  CopyInv'
<1>. USE DEF Copy!SaveIndex, Copy!server, Copy!counts
<1>1. /\ verb \in Pipelines /\ state # None
      /\ UNCHANGED <<hist, head, tombstones, snap, state, disk, edits>>
      /\ index' = verb.rows /\ verb' = Copy!Idle
  BY InFlight DEF CopyStages
<1>2. ServerTypes' /\ CopyStates' = CopyStates /\ Pipelines' = Pipelines /\ Settled' = Settled
      /\ IndexRows' = IndexRows
  BY <1>1, ServerStands
<1>3. verb.rows \in IndexRows /\ verb.op \in CopyOps
  BY <1>1 DEF Pipelines
<1>4. mine' \subseteq mine /\ \A p \in mine': Shows(verb.rows, p)
  <2>. DEFINE keeps == {"sync", "land", "add", "remove"}
  <2>1. CASE verb.op \in {"commit", "resolve"}
    <3>1. mine' = mine \ Copy!Changed
      BY <2>1
    <3>2. \A p \in mine': p \in CheckoutPaths /\ verb.rows[p] = index[p]
      BY <3>1 DEF Copy!Changed, CopyInv, LocalTypes
    <3>. QED  BY <3>1, <3>2 DEF CopyInv, MineInv, Shows
  <2>2. CASE verb.op = "restore"
    <3>1. mine' = {p \in mine : disk[p] # None}
      BY <2>2
    <3>. QED  BY <1>1, <2>2, <3>1 DEF CopyInv, RowsInv, Shows
  <2>3. CASE verb.op \in keeps
    <3>1. mine' = mine
      BY <2>3
    <3>. QED  BY <1>1, <2>3, <3>1 DEF CopyInv, RowsInv, MineInv, Shows
  <2>. QED  BY <1>3, <2>1, <2>2, <2>3 DEF CopyOps
<1>5. blind' \subseteq CheckoutPaths /\ torn' \subseteq CheckoutPaths
  BY DEF CopyInv, LocalTypes, Copy!Changed, Copy!Outside
<1>6. LocalTypes'
  BY <1>1, <1>2, <1>3, <1>4, <1>5 DEF CopyInv, LocalTypes, Copy!Trees, Copy!Idle
<1>7. MineInv'
  BY <1>1, <1>4 DEF MineInv, Shows
<1>8. verb' \notin Pipelines'
  BY <1>1, <1>2 DEF Copy!Idle, Pipelines, CopyOps
<1>. QED  BY <1>2, <1>6, <1>7, <1>8 DEF CopyInv, AddsInv, GateInv, RowsInv

LEMMA CopyNext ==
    ASSUME Copy!CopyAssumption, CopyInv, [Copy!Next]_Copy!vars
    PROVE  CopyInv'
<1>1. CASE Copy!Next
  BY <1>1, ServerMoves, EditStep, CloneStep, BeginStep, LandStep, EndStep, FetchedStep,
     CopyWriteStep, PostStep, SaveIndexStep
  DEF Copy!Next
<1>2. CASE UNCHANGED Copy!vars
  <2>1. UNCHANGED copyVars
    BY <1>2 DEF Copy!vars, Copy!server, Copy!local, Copy!ghosts, Copy!counts, copyVars
  <2>2. ServerTypes' /\ LocalTypes' /\ Pipelines' = Pipelines
    BY <2>1, ServerStands DEF copyVars, CopyInv, LocalTypes, Copy!Trees, Copy!Idle
  <2>. QED
    BY <2>1, <2>2
    DEF copyVars, CopyInv, AddsInv, MineInv, GateInv, RowsInv, Shows, Copy!Idle
<1>. QED  BY <1>1, <1>2

(* What the verbs write is not the user's, unless they are forced or       *)
(* remove a directory from the cone.                                       *)
LEMMA KeepStep ==
    ASSUME Copy!CopyAssumption, CopyInv, [Copy!Next]_Copy!vars, NEW p \in mine, disk'[p] # disk[p]
    PROVE  \/ edits' # edits
           \/ verb.force
           \/ verb.op = "remove" /\ index[p] # None
<1>1. mine # {} /\ p \in CheckoutPaths /\ disk \in Copy!Trees /\ edits \in Nat /\ state # None
  BY DEF CopyInv, LocalTypes, MineInv
<1>2. CASE \E q \in CheckoutPaths, c \in CheckoutBlobs \cup {None}: Copy!Edit(q, c)
  BY <1>1, <1>2 DEF Copy!Edit
<1>3. CASE \E prefixes \in plan.cones: Copy!Clone(prefixes)
  BY <1>1, <1>3 DEF Copy!Clone
<1>4. CASE Copy!Fetched
  <2>1. verb \in Pipelines /\ verb.stage = "fetch"
    BY <1>4, InFlight DEF Copy!Fetched, CopyStages
  <2>2. p \in verb.collide
    BY <1>1, <1>4 DEF Copy!Fetched, Copy!Trees
  <2>. QED  BY <2>1, <2>2 DEF CopyInv, GateInv, Pipelines
<1>5. ASSUME NEW q \in CheckoutPaths, Copy!Write(q)
      PROVE  verb.force
  <2>1. verb \in Pipelines /\ verb.stage = "write"
    BY <1>5, InFlight DEF Copy!Write, CopyStages
  <2>2. p = q /\ q \in verb.adds
    BY <1>1, <1>5 DEF Copy!Write, Copy!Trees
  <2>. QED  BY <2>1, <2>2 DEF CopyInv, GateInv, Pipelines
<1>6. ASSUME NEW q \in CheckoutPaths, Copy!Delete(q)
      PROVE  verb.force \/ (verb.op = "remove" /\ index[p] # None)
  <2>1. verb \in Pipelines /\ verb.stage = "write"
    BY <1>6, InFlight DEF Copy!Delete, CopyStages
  <2>2. p = q /\ q \in verb.dels /\ verb.rows[q] # None
    BY <1>1, <1>6 DEF Copy!Delete, Copy!Trees
  <2>. QED  BY <1>1, <2>1, <2>2 DEF CopyInv, GateInv, Pipelines
<1>7. ~UNCHANGED disk
  OBVIOUS
<1>. QED
  BY <1>2, <1>3, <1>4, <1>5, <1>6, <1>7
  DEF Copy!Next, Copy!vars, Copy!local, Copy!UpstreamLands, Copy!Redact, Copy!SyncBegin,
      Copy!RestoreBegin, Copy!SparseRemoveBegin, Copy!SparseAddBegin, Copy!LandRebased,
      Copy!LandAdopted, Copy!LandContained, Copy!LandFollow, Copy!Snapshot, Copy!ResolveBegin,
      Copy!CommitBegin, Copy!Commit, Copy!Upload, Copy!Stat, Copy!SaveState, Copy!SaveIndex,
      Copy!GiveUp, Copy!Die, Copy!DoctorRebuild

(* What status relies on.  The row of a path that no verb left torn is      *)
(* about the head, and outside the cone there is none; a file nobody wrote  *)
(* behind the index is as a fresh row says, and if it is clean it is as the *)
(* head has it.                                                            *)
InCone(st, p) == Copy!under_sparse(st.sparse, p)
HeadHas(st, p, c) == Copy!TreeOf(st.head)[p] \in {c} \cup tombstones
BlobAt(at, p) == IF at[p] = None THEN None ELSE at[p].blob
CleanAt(at, p) ==
    IF at[p] = None THEN disk[p] = None
    ELSE disk[p] # None /\ (at[p].fresh \/ disk[p] = at[p].blob)

HeadTrue(p) ==
    /\ p \notin torn =>
         IF InCone(state, p) THEN HeadHas(state, p, BlobAt(index, p)) ELSE index[p] = None
    /\ p \notin blind =>
         /\ index[p] # None /\ index[p].fresh => disk[p] = index[p].blob
         /\ CleanAt(index, p) /\ InCone(state, p) => HeadHas(state, p, disk[p])
         /\ ~CleanAt(index, p) => p \in mine \cup torn
         /\ index[p] # None /\ ~InCone(state, p) => disk[p] = None

(* A mark is of a path of the cone, and a tracked one holds a marker.      *)
MarksTrue(st, p) ==
    p \in st.conflicted =>
        /\ InCone(st, p)
        /\ index[p] # None =>
             /\ p \notin torn => index[p].blob \in CheckoutMarkers
             /\ p \notin blind /\ CleanAt(index, p) => disk[p] \in CheckoutMarkers

(* What a verb in flight is about to save.                                 *)
VerbShape ==
    /\ verb.stage = "fetch" => verb.op \in {"sync", "land", "add", "restore"}
    /\ verb.stage \in {"put", "posted"} =>
         verb.state.sparse = state.sparse /\ verb.state.conflicted = state.conflicted
    /\ verb.stage = "put" => verb.state.head = state.head
    /\ verb.stage = "index" => state = verb.state /\ verb.adds = {} /\ verb.dels = {}
    /\ verb.op \in {"commit", "resolve"} /\ verb.stage = "write" => verb.adds = {} /\ verb.dels = {}
    /\ verb.op \in {"sync", "land", "add"} => verb.tree = Copy!TreeOf(verb.state.head)
    /\ verb.op = "restore" => /\ verb.dels = {}
                              /\ verb.state.head = state.head
                              /\ verb.state.sparse = state.sparse
    /\ verb.op # "remove" => \A p \in CheckoutPaths: InCone(state, p) => InCone(verb.state, p)

(* What it has yet to write, delete, discard or post.                      *)
PendingTrue(p) ==
    /\ p \in verb.adds /\ verb.stage \in {"fetch", "write"} => InCone(verb.state, p)
    /\ p \in verb.adds /\ verb.op = "add" => p \notin verb.state.conflicted
    /\ p \in verb.dels =>
         IF verb.op = "remove" THEN ~InCone(verb.state, p) ELSE verb.tree[p] = None
    /\ p \in verb.collide /\ verb.stage = "fetch" => index[p] = None
    /\ p \in verb.adds \cup verb.dels /\ p \in torn /\ verb.stage = "write" /\ verb.op # "remove"
         => p \in blind
    /\ verb.stage \in {"put", "posted"} /\ p \notin blind =>
         /\ p \in verb.adds => disk[p] = verb.tree[p]
         /\ p \in verb.dels => disk[p] = None
    /\ verb.stage = "posted" =>
         Copy!TreeOf(verb.state.head)[p] =
           IF p \in verb.adds THEN verb.tree[p]
           ELSE IF p \in verb.dels THEN None ELSE Copy!TreeOf(state.head)[p]

(* What its rows say once it has: they are about the head it will save, and*)
(* the ones it has made are what it left on disk.                          *)
RowsTrue(p) ==
    /\ verb.stage \in {"fetch", "put", "posted"} \/ p \in verb.adds \cup verb.dels
         => verb.rows[p] = index[p]
    /\ p \notin verb.adds \cup verb.dels =>
         /\ InCone(verb.state, p) /\ (verb.rows[p] # index[p] \/ p \notin torn)
              => HeadHas(verb.state, p, BlobAt(verb.rows, p))
         /\ ~InCone(verb.state, p) /\ p \notin torn => verb.rows[p] = None \/ index[p] = None
         /\ verb.rows[p] # index[p] /\ verb.rows[p] # None /\ p \in verb.state.conflicted
              => verb.rows[p].blob \in CheckoutMarkers
    /\ p \notin verb.adds \cup verb.dels /\ p \notin blind =>
         /\ verb.stage \in {"write", "index"} /\ verb.rows[p] # index[p]
              => disk[p] = BlobAt(verb.rows, p)
         /\ verb.rows[p] = index[p] /\ p \in torn /\ InCone(verb.state, p) /\ CleanAt(index, p)
              => HeadHas(verb.state, p, disk[p])
         /\ verb.op = "remove" /\ ~InCone(verb.state, p) /\ index[p] # None => disk[p] = None

VerbTrue(p) ==
    PendingTrue(p) /\ MarksTrue(verb.state, p) /\ (verb.op # "restore" => RowsTrue(p))

CopyTrue(p) == HeadTrue(p) /\ MarksTrue(state, p)

StatusInv ==
    state # None /\ ~rebuilt =>
        /\ \A p \in CheckoutPaths: CopyTrue(p)
        /\ verb.stage \in CopyStages => VerbShape /\ \A p \in CheckoutPaths: VerbTrue(p)

(* The changesets that are there stay as they are.                         *)
LEMMA TreesStand ==
    ASSUME CopyInv,
           \/ UNCHANGED hist
           \/ \E t \in Copy!Trees, i \in DOMAIN hist: hist' = Append(hist, [tree |-> t, parent |-> i])
    PROVE  \A i \in DOMAIN hist: Copy!TreeOf(i)' = Copy!TreeOf(i)
<1>. DEFINE R == [tree: Copy!Trees, parent: Nat]
<1>1. hist \in Seq(R)
  BY DEF CopyInv, ServerTypes
<1>2. CASE UNCHANGED hist
  BY <1>2 DEF Copy!TreeOf
<1>3. ASSUME NEW t \in Copy!Trees, NEW i \in DOMAIN hist,
             hist' = Append(hist, [tree |-> t, parent |-> i])
      PROVE  \A k \in DOMAIN hist: hist'[k] = hist[k]
  <2>. HIDE DEF R
  <2>. QED  BY <1>1, <1>3
<1>. QED  BY <1>2, <1>3 DEF Copy!TreeOf

(* A row is none, or says of a blob whether it is the file's.              *)
LEMMA RowIs ==
    ASSUME Copy!CopyAssumption, NEW at \in IndexRows, NEW p \in CheckoutPaths
    PROVE  at[p] = None \/ (at[p] # None /\ at[p] \in Copy!Rows /\ at[p].blob \in CheckoutBlobs
                              /\ at[p].blob # None /\ at[p].fresh \in BOOLEAN)
BY DEF IndexRows, Copy!Rows, Copy!CopyAssumption

(* A path that a step leaves alone stays as it is, whatever is tombstoned, *)
(* torn or written elsewhere.                                              *)
LEMMA CopyKeeps ==
    ASSUME CopyInv, state # None, \A i \in DOMAIN hist: Copy!TreeOf(i)' = Copy!TreeOf(i),
           tombstones \subseteq tombstones', NEW p \in CheckoutPaths, CopyTrue(p),
           index'[p] = index[p], disk'[p] = disk[p],
           p \in torn => p \in torn', p \in blind => p \in blind', p \in mine => p \in mine' \cup torn',
           state'.head = state.head, state'.sparse = state.sparse,
           p \in state'.conflicted => p \in state.conflicted
    PROVE  CopyTrue(p)'
<1>1. state.head \in DOMAIN hist
  BY DEF CopyInv, LocalTypes, CopyStates
<1>2. \A c: HeadHas(state, p, c) => HeadHas(state, p, c)'
  BY <1>1 DEF HeadHas
<1>3. InCone(state, p)' = InCone(state, p)
  BY DEF InCone
<1>4. CleanAt(index, p)' = CleanAt(index, p) /\ BlobAt(index, p)' = BlobAt(index, p)
  BY DEF CleanAt, BlobAt
<1>5. HeadTrue(p)'
  BY <1>2, <1>3, <1>4 DEF CopyTrue, HeadTrue
<1>6. MarksTrue(state, p)'
  BY <1>3, <1>4 DEF CopyTrue, MarksTrue
<1>. QED  BY <1>5, <1>6 DEF CopyTrue

LEMMA VerbKeeps ==
    ASSUME CopyInv, state # None, verb \in Pipelines,
           \A i \in DOMAIN hist: Copy!TreeOf(i)' = Copy!TreeOf(i),
           tombstones \subseteq tombstones', NEW p \in CheckoutPaths, VerbTrue(p),
           index'[p] = index[p], disk'[p] = disk[p],
           p \in torn' <=> p \in torn, p \in blind => p \in blind', state' = state,
           verb'.op = verb.op, verb'.stage = verb.stage, verb'.tree = verb.tree,
           verb'.rows[p] = verb.rows[p],
           p \in verb'.adds <=> p \in verb.adds, p \in verb'.dels <=> p \in verb.dels,
           verb'.collide = verb.collide,
           verb'.state.head = verb.state.head, verb'.state.sparse = verb.state.sparse,
           p \in verb'.state.conflicted <=> p \in verb.state.conflicted
    PROVE  VerbTrue(p)'
<1>1. state.head \in DOMAIN hist /\ verb.state.head \in DOMAIN hist
  BY DEF CopyInv, LocalTypes, CopyStates, Pipelines
<1>2. \A c: HeadHas(verb.state, p, c) => HeadHas(verb.state, p, c)'
  BY <1>1 DEF HeadHas
<1>3. InCone(verb.state, p)' = InCone(verb.state, p)
  BY DEF InCone
<1>4. /\ CleanAt(index, p)' = CleanAt(index, p)
      /\ BlobAt(verb.rows, p)' = BlobAt(verb.rows, p)
  BY DEF CleanAt, BlobAt
<1>5. PendingTrue(p)'
  BY <1>1, <1>3 DEF VerbTrue, PendingTrue
<1>6. MarksTrue(verb.state, p)'
  BY <1>3, <1>4 DEF VerbTrue, MarksTrue
<1>7. verb.op # "restore" => RowsTrue(p)'
  BY <1>2, <1>3, <1>4 DEF VerbTrue, RowsTrue
<1>. QED  BY <1>5, <1>6, <1>7 DEF VerbTrue

(* A step of the server, or none.                                          *)
LEMMA StatusStands ==
    ASSUME CopyInv, StatusInv,
           \/ UNCHANGED hist
           \/ \E t \in Copy!Trees, i \in DOMAIN hist: hist' = Append(hist, [tree |-> t, parent |-> i]),
           tombstones \subseteq tombstones',
           UNCHANGED <<state, index, disk, verb, mine, blind, torn, rebuilt>>
    PROVE  StatusInv'
<1>. SUFFICES ASSUME state # None, ~rebuilt PROVE StatusInv'
  BY DEF StatusInv
<1>1. \A i \in DOMAIN hist: Copy!TreeOf(i)' = Copy!TreeOf(i)
  BY TreesStand
<1>2. ASSUME NEW p \in CheckoutPaths
      PROVE  CopyTrue(p)'
  BY <1>1, CopyKeeps DEF StatusInv
<1>3. ASSUME verb.stage \in CopyStages
      PROVE  VerbShape' /\ \A p \in CheckoutPaths: VerbTrue(p)'
  <2>1. verb \in Pipelines
    BY <1>3, InFlight
  <2>2. Copy!TreeOf(verb.state.head)' = Copy!TreeOf(verb.state.head)
    BY <1>1, <2>1 DEF Pipelines, CopyStates
  <2>3. VerbShape'
    BY <1>3, <2>2 DEF StatusInv, VerbShape, InCone
  <2>4. ASSUME NEW p \in CheckoutPaths
        PROVE  VerbTrue(p)'
    <3>1. VerbTrue(p)
      BY <1>3 DEF StatusInv
    <3>. QED  BY <1>1, <2>1, <3>1, VerbKeeps
  <2>. QED  BY <2>3, <2>4
<1>. QED  BY <1>2, <1>3 DEF StatusInv

(* The editor makes the rows of its path stale, the saved and the coming.  *)
LEMMA StaleSame ==
    ASSUME NEW at \in IndexRows, NEW to \in IndexRows, NEW p \in CheckoutPaths, at[p] = to[p]
    PROVE  Copy!Stale(at, p)[p] = Copy!Stale(to, p)[p]
BY DEF Copy!Stale, IndexRows

LEMMA EditStatus ==
    ASSUME Copy!CopyAssumption, CopyInv, StatusInv, NEW p \in CheckoutPaths,
           NEW c \in CheckoutBlobs \cup {None}, Copy!Edit(p, c)
    PROVE  StatusInv'
<1>. SUFFICES ASSUME ~rebuilt PROVE StatusInv'
  BY DEF StatusInv, Copy!Edit
<1>1. /\ state # None /\ UNCHANGED <<hist, tombstones, state, torn, rebuilt>>
      /\ disk' = [disk EXCEPT ![p] = c] /\ index' = Copy!Stale(index, p)
  BY DEF Copy!Edit, Copy!server
<1>2. index \in IndexRows /\ disk \in Copy!Trees /\ disk'[p] = c
      /\ \A q \in CheckoutPaths \ {p}: disk'[q] = disk[q] /\ index'[q] = index[q]
  BY <1>1, StaleIs DEF CopyInv, LocalTypes, Copy!Trees
<1>3. \A i \in DOMAIN hist: Copy!TreeOf(i)' = Copy!TreeOf(i)
  BY <1>1 DEF Copy!TreeOf
<1>4. \A q \in CheckoutPaths \ {p}: (q \in blind' <=> q \in blind) /\ (q \in mine' <=> q \in mine)
  BY DEF Copy!Edit
<1>5. ASSUME NEW q \in CheckoutPaths \ {p}
      PROVE  CopyTrue(q)'
  <2>1. CopyTrue(q)
    BY <1>1 DEF StatusInv
  <2>2. index'[q] = index[q] /\ disk'[q] = disk[q]
    BY <1>2
  <2>3. (q \in blind => q \in blind') /\ (q \in mine => q \in mine')
    BY <1>4
  <2>4. torn' = torn /\ tombstones' = tombstones /\ state' = state
    BY <1>1
  <2>. QED  BY <1>1, <1>3, <2>1, <2>2, <2>3, <2>4, CopyKeeps
<1>6. /\ index'[p] = None <=> index[p] = None
      /\ index[p] # None => ~index'[p].fresh /\ index'[p].blob = index[p].blob
      /\ BlobAt(index, p)' = BlobAt(index, p)
  BY <1>1, <1>2, StaleIs DEF BlobAt
<1>7. InCone(state, p)' = InCone(state, p) /\ \A b: HeadHas(state, p, b)' = HeadHas(state, p, b)
  BY <1>1 DEF InCone, HeadHas, Copy!TreeOf
<1>8. CopyTrue(p)
  BY <1>1 DEF StatusInv
<1>9. CopyTrue(p)'
  <2>1. CASE p \in blind'
    <3>1. HeadTrue(p)'
      BY <1>1, <1>6, <1>7, <1>8, <2>1 DEF CopyTrue, HeadTrue
    <3>2. MarksTrue(state, p)'
      BY <1>1, <1>6, <1>7, <1>8, <2>1 DEF CopyTrue, MarksTrue
    <3>. QED  BY <3>1, <3>2 DEF CopyTrue
  <2>2. CASE p \notin blind'
    <3>1. /\ p \notin torn
          /\ c # BlobAt(index, p) => p \in mine'
      BY <2>2 DEF Copy!Edit, BlobAt
    <3>2. CleanAt(index, p)' <=> c = BlobAt(index, p)
      <4>1. index[p] # None => index[p].blob # None
        BY <1>2, RowIs
      <4>. QED  BY <1>2, <1>6, <4>1 DEF CleanAt, BlobAt
    <3>3. HeadTrue(p)'
      BY <1>1, <1>2, <1>6, <1>7, <1>8, <3>1, <3>2 DEF CopyTrue, HeadTrue
    <3>4. MarksTrue(state, p)'
      BY <1>1, <1>2, <1>6, <1>7, <1>8, <3>1, <3>2 DEF CopyTrue, MarksTrue, BlobAt
    <3>. QED  BY <3>3, <3>4 DEF CopyTrue
  <2>. QED  BY <2>1, <2>2
<1>10. ASSUME verb'.stage \in CopyStages
       PROVE  VerbShape' /\ \A q \in CheckoutPaths: VerbTrue(q)'
  <2>1. verb # Copy!Idle /\ verb' = [verb EXCEPT !.rows = Copy!Stale(@, p)]
    BY <1>10 DEF Copy!Edit, Copy!Idle, CopyStages
  <2>2. verb \in Pipelines
    <3>1. verb \in Settled => verb'.stage = "landed"
      BY <2>1 DEF Settled
    <3>. QED  BY <1>10, <2>1, <3>1 DEF CopyInv, LocalTypes, CopyStages
  <2>3. /\ verb.stage \in CopyStages /\ verb.rows \in IndexRows
        /\ verb'.rows = Copy!Stale(verb.rows, p)
        /\ verb'.op = verb.op /\ verb'.stage = verb.stage /\ verb'.tree = verb.tree
        /\ verb'.adds = verb.adds /\ verb'.dels = verb.dels /\ verb'.collide = verb.collide
        /\ verb'.state = verb.state
    BY <2>1, <2>2 DEF Pipelines
  <2>4. VerbShape'
    BY <1>1, <2>3 DEF StatusInv, VerbShape, InCone, Copy!TreeOf
  <2>5. ASSUME NEW q \in CheckoutPaths \ {p}
        PROVE  VerbTrue(q)'
    <3>1. verb'.rows[q] = verb.rows[q]
      BY <2>3, StaleIs
    <3>2. VerbTrue(q)
      BY <1>1, <2>3 DEF StatusInv
    <3>3. /\ index'[q] = index[q] /\ disk'[q] = disk[q] /\ tombstones \subseteq tombstones'
          /\ (q \in torn' <=> q \in torn) /\ (q \in blind => q \in blind')
      BY <1>1, <1>2, <1>4
    <3>. QED  BY <1>1, <1>3, <2>2, <2>3, <3>1, <3>2, <3>3, VerbKeeps
  <2>6. VerbTrue(p)'
    <3>1. VerbTrue(p) /\ p \in blind'
      BY <1>1, <2>1, <2>3 DEF StatusInv, Copy!Edit
    <3>2. /\ verb'.rows[p] = None <=> verb.rows[p] = None
          /\ verb.rows[p] # None => verb'.rows[p].blob = verb.rows[p].blob
          /\ BlobAt(verb.rows, p)' = BlobAt(verb.rows, p)
          /\ verb.rows[p] = index[p] => verb'.rows[p] = index'[p]
      BY <1>1, <1>2, <2>3, StaleIs, StaleSame DEF BlobAt
    <3>3. InCone(verb.state, p)' = InCone(verb.state, p)
          /\ \A b: HeadHas(verb.state, p, b)' = HeadHas(verb.state, p, b)
      BY <1>1, <2>3 DEF InCone, HeadHas, Copy!TreeOf
    <3>4. PendingTrue(p)'
      BY <1>1, <1>6, <2>3, <3>1, <3>3 DEF VerbTrue, PendingTrue, Copy!TreeOf
    <3>5. MarksTrue(verb.state, p)'
      BY <1>1, <1>6, <2>3, <3>1, <3>3 DEF VerbTrue, MarksTrue
    <3>6. verb.op # "restore" => RowsTrue(p)'
      BY <1>1, <1>6, <2>3, <3>1, <3>2, <3>3 DEF VerbTrue, RowsTrue
    <3>. QED  BY <2>3, <3>4, <3>5, <3>6 DEF VerbTrue
  <2>. QED  BY <2>4, <2>5, <2>6
<1>. QED  BY <1>5, <1>9, <1>10 DEF StatusInv

(* A step that writes no file and no row.                                  *)
LEMMA CopyStands ==
    ASSUME CopyInv, StatusInv, state # None, ~rebuilt,
           \/ UNCHANGED hist
           \/ \E t \in Copy!Trees, i \in DOMAIN hist: hist' = Append(hist, [tree |-> t, parent |-> i]),
           UNCHANGED <<tombstones, index, disk, mine>>,
           torn \subseteq torn', blind \subseteq blind',
           state'.head = state.head, state'.sparse = state.sparse,
           state'.conflicted \subseteq state.conflicted
    PROVE  \A p \in CheckoutPaths: CopyTrue(p)'
<1>1. \A i \in DOMAIN hist: Copy!TreeOf(i)' = Copy!TreeOf(i)
  BY TreesStand
<1>. TAKE p \in CheckoutPaths
<1>2. CopyTrue(p)
  BY DEF StatusInv
<1>. QED  BY <1>1, <1>2, CopyKeeps

(* A clone lists what it brings; what its walk left out is set aside.      *)
LEMMA CloneStatus ==
    ASSUME Copy!CopyAssumption, CopyInv, StatusInv, NEW prefixes, Copy!Clone(prefixes)
    PROVE  StatusInv'
<1>. DEFINE tree == Copy!TreeOf(head)
            listed == Copy!walk_tree(tree, prefixes)
            out == Copy!LeftOut(tree, prefixes)
<1>1. /\ state = None /\ UNCHANGED <<hist, tombstones, verb>>
      /\ disk' = [p \in CheckoutPaths |-> IF p \in listed THEN tree[p] ELSE None]
      /\ index' = [p \in CheckoutPaths |-> IF p \in listed THEN Copy!Row(tree[p]) ELSE None]
      /\ state' = [head |-> head, sparse |-> prefixes,
                   conflicted |-> {p \in listed : tree[p] \in CheckoutMarkers}]
      /\ out \subseteq torn' /\ out \subseteq blind'
  BY DEF Copy!Clone, Copy!server
<1>2. verb'.stage \notin CopyStages
  BY <1>1 DEF CopyInv, MineInv, Copy!Idle, CopyStages
<1>3. \A p \in listed: /\ Copy!under_sparse(prefixes, p) /\ tree[p] # None
                       /\ tree[p] \in CheckoutBlobs
  <2>1. tree \in Copy!Trees
    BY TreesAre DEF CopyInv, ServerTypes
  <2>. QED
    BY <2>1 DEF Copy!walk_tree, Copy!WalkedOnce, Copy!Descended, Copy!under_sparse, Copy!Trees
<1>4. \A p \in CheckoutPaths \ listed:
        Copy!under_sparse(prefixes, p) /\ p \notin out => tree[p] \in {None} \cup tombstones
  BY DEF Copy!LeftOut
<1>5. Copy!TreeOf(state.head)' = tree
  BY <1>1 DEF Copy!TreeOf
<1>. HIDE DEF tree, listed, out
<1>6. ASSUME NEW p \in CheckoutPaths
      PROVE  CopyTrue(p)'
  <2>1. /\ InCone(state, p)' = Copy!under_sparse(prefixes, p)
        /\ \A c: HeadHas(state, p, c)' <=> tree[p] \in {c} \cup tombstones
    BY <1>1, <1>5 DEF InCone, HeadHas
  <2>2. CASE p \in listed
    <3>1. /\ disk'[p] = tree[p] /\ index'[p] = Copy!Row(tree[p]) /\ index'[p] # None
          /\ index'[p].blob = tree[p] /\ index'[p].fresh
      <4>1. Copy!Row(tree[p]) \in Copy!Rows
        BY <1>3, <2>2 DEF Copy!Row, Copy!Rows
      <4>. QED  BY <1>1, <2>2, <4>1 DEF Copy!Row, Copy!CopyAssumption
    <3>2. CleanAt(index, p)' /\ BlobAt(index, p)' = tree[p]
      BY <1>3, <2>2, <3>1 DEF CleanAt, BlobAt
    <3>3. HeadTrue(p)'
      BY <1>3, <2>1, <2>2, <3>1, <3>2 DEF HeadTrue
    <3>4. MarksTrue(state, p)'
      BY <1>1, <1>3, <2>1, <2>2, <3>1 DEF MarksTrue
    <3>. QED  BY <3>3, <3>4 DEF CopyTrue
  <2>3. CASE p \notin listed
    <3>1. disk'[p] = None /\ index'[p] = None
      BY <1>1, <2>3
    <3>2. CleanAt(index, p)' /\ BlobAt(index, p)' = None
      BY <3>1 DEF CleanAt, BlobAt
    <3>3. HeadTrue(p)'
      BY <1>1, <1>4, <2>1, <2>3, <3>1, <3>2 DEF HeadTrue
    <3>4. MarksTrue(state, p)'
      BY <1>1, <2>3 DEF MarksTrue
    <3>. QED  BY <3>3, <3>4 DEF CopyTrue
  <2>. QED  BY <2>2, <2>3
<1>. QED  BY <1>2, <1>6 DEF StatusInv

(* A verb that ends without saving, a land whose changeset is on main, and *)
(* one that the copy does not follow.                                      *)
LEMMA EndStatus ==
    ASSUME CopyInv, StatusInv,
           \/ UNCHANGED hist
           \/ \E t \in Copy!Trees, i \in DOMAIN hist: hist' = Append(hist, [tree |-> t, parent |-> i]),
           UNCHANGED <<tombstones, index, disk, mine, blind, torn, rebuilt>>,
           state # None, state' \in {state, [state EXCEPT !.conflicted = Copy!stale_marks]},
           verb'.stage \notin CopyStages
    PROVE  StatusInv'
<1>. SUFFICES ASSUME ~rebuilt PROVE StatusInv'
  BY DEF StatusInv
<1>1. /\ state'.head = state.head /\ state'.sparse = state.sparse
      /\ state'.conflicted \subseteq state.conflicted
  BY DEF CopyInv, LocalTypes, CopyStates, Copy!stale_marks
<1>2. \A p \in CheckoutPaths: CopyTrue(p)'
  BY <1>1, CopyStands
<1>. QED  BY <1>2 DEF StatusInv

(* A verb that begins: what is left to show is of the verb.                *)
LEMMA BeginStatus ==
    ASSUME CopyInv, StatusInv, state # None, ~rebuilt,
           UNCHANGED <<hist, tombstones, state, index, disk, mine, rebuilt>>,
           torn \subseteq torn', blind \subseteq blind',
           VerbShape', \A p \in CheckoutPaths: VerbTrue(p)'
    PROVE  StatusInv'
<1>1. \A p \in CheckoutPaths: CopyTrue(p)'
  <2>1. /\ state'.head = state.head /\ state'.sparse = state.sparse
        /\ state'.conflicted \subseteq state.conflicted
    OBVIOUS
  <2>. QED  BY <2>1, CopyStands
<1>. QED  BY <1>1 DEF StatusInv

(* A sync: what it will not write of the cone is the same at both heads, or*)
(* tombstoned.                                                             *)
LEMMA DiffStatus ==
    ASSUME CopyInv, StatusInv, state # None, ~rebuilt,
           NEW op \in {"sync", "land"}, NEW to \in DOMAIN hist, NEW force \in BOOLEAN,
           verb' = Copy!apply_tree_diff(op, state.head, to, force),
           UNCHANGED <<hist, tombstones, state, index, disk, mine, blind, torn, rebuilt>>
    PROVE  StatusInv'
<1>. DEFINE in == Copy!Incoming(state.head, to)
            tree == Copy!TreeOf(to)
            adds == Copy!Wanted(state.head, to)
            dels == {p \in in : tree[p] = None}
            new == [state EXCEPT !.head = to]
<1>1. verb' = [op |-> op, stage |-> "fetch", force |-> force, state |-> new, tree |-> tree,
               adds |-> adds, dels |-> dels, collide |-> Copy!Colliding(in), rows |-> index]
  BY DEF Copy!apply_tree_diff, Copy!Pipeline
<1>2. /\ state \in CopyStates /\ new.head = to /\ new.sparse = state.sparse
      /\ new.conflicted = state.conflicted
  BY DEF CopyInv, LocalTypes, CopyStates
<1>3. ASSUME NEW p \in CheckoutPaths
      PROVE  /\ p \in adds => InCone(state, p)
             /\ p \in dels => tree[p] = None
             /\ p \in Copy!Colliding(in) => index[p] = None
             /\ p \notin adds \cup dels /\ InCone(state, p)
                  => tree[p] \in {Copy!TreeOf(state.head)[p]} \cup tombstones
  BY DEF Copy!Wanted, Copy!Incoming, Copy!Colliding, Copy!untracked, InCone
<1>4. tree = Copy!TreeOf(to)' /\ \A i: Copy!TreeOf(i)' = Copy!TreeOf(i)
  BY DEF Copy!TreeOf
<1>. HIDE DEF in, tree, adds, dels, new
<1>5. VerbShape'
  BY <1>1, <1>2, <1>4 DEF VerbShape, InCone
<1>6. ASSUME NEW p \in CheckoutPaths
      PROVE  VerbTrue(p)'
  <2>1. CopyTrue(p)
    BY DEF StatusInv
  <2>2. InCone(verb.state, p)' = InCone(state, p)
    BY <1>1, <1>2 DEF InCone
  <2>3. \A c: HeadHas(state, p, c) /\ p \notin adds \cup dels /\ InCone(state, p)
                => HeadHas(verb.state, p, c)'
    BY <1>1, <1>2, <1>3, <1>4 DEF HeadHas
  <2>4. CleanAt(index, p)' = CleanAt(index, p) /\ BlobAt(verb.rows, p)' = BlobAt(index, p)
    BY <1>1 DEF CleanAt, BlobAt
  <2>5. PendingTrue(p)'
    BY <1>1, <1>3, <2>2 DEF PendingTrue
  <2>6. MarksTrue(verb.state, p)'
    BY <1>1, <1>2, <2>1, <2>2, <2>4 DEF MarksTrue, CopyTrue
  <2>7. RowsTrue(p)'
    BY <1>1, <2>1, <2>2, <2>3, <2>4 DEF RowsTrue, CopyTrue, HeadTrue
  <2>. QED  BY <2>5, <2>6, <2>7 DEF VerbTrue
<1>. QED  BY <1>5, <1>6, BeginStatus

LEMMA RestoreStatus ==
    ASSUME CopyInv, StatusInv, NEW force \in BOOLEAN, Copy!RestoreBegin(force)
    PROVE  StatusInv'
<1>. DEFINE listed == Copy!walk_tree(snap, state.sparse)
<1>. SUFFICES ASSUME ~rebuilt PROVE StatusInv'
  BY DEF StatusInv, Copy!RestoreBegin, Copy!ghosts
<1>1. /\ state # None
      /\ UNCHANGED <<hist, tombstones, state, index, disk, mine, blind, torn, rebuilt>>
      /\ verb' = [op |-> "restore", stage |-> "fetch", force |-> force, state |-> state,
                  tree |-> snap, adds |-> listed, dels |-> {}, collide |-> Copy!Colliding(listed),
                  rows |-> Copy!NoRow]
  BY DEF Copy!RestoreBegin, Copy!Pipeline, Copy!Begins, Copy!server, Copy!ghosts
<1>2. ASSUME NEW p \in CheckoutPaths
      PROVE  /\ p \in listed => InCone(state, p)
             /\ p \in Copy!Colliding(listed) => index[p] = None
  BY DEF Copy!walk_tree, Copy!WalkedOnce, Copy!Descended, Copy!under_sparse, Copy!Colliding,
         Copy!untracked, InCone
<1>. HIDE DEF listed
<1>3. VerbShape'
  BY <1>1 DEF VerbShape, InCone
<1>4. ASSUME NEW p \in CheckoutPaths
      PROVE  VerbTrue(p)'
  <2>1. CopyTrue(p)
    BY <1>1 DEF StatusInv
  <2>2. InCone(verb.state, p)' = InCone(state, p) /\ CleanAt(index, p)' = CleanAt(index, p)
    BY <1>1 DEF InCone, CleanAt
  <2>3. PendingTrue(p)'
    BY <1>1, <1>2, <2>2 DEF PendingTrue
  <2>4. MarksTrue(verb.state, p)'
    BY <1>1, <2>1, <2>2 DEF MarksTrue, CopyTrue
  <2>. QED  BY <1>1, <2>3, <2>4 DEF VerbTrue
<1>. QED  BY <1>1, <1>3, <1>4, BeginStatus

(* A directory that joins the cone had no rows, but for what was torn; what*)
(* a walk lists of it and has no row is written.                           *)
LEMMA AddStatus ==
    ASSUME CopyInv, StatusInv, NEW d \in Copy!Dirs, NEW force \in BOOLEAN,
           Copy!SparseAddBegin(d, force)
    PROVE  StatusInv'
<1>. DEFINE tree == Copy!TreeOf(state.head)
            listed == Copy!walk_tree(tree, {d})
            out == Copy!LeftOut(tree, {d})
            adds == {p \in listed : force \/ index[p] = None}
            new == [state EXCEPT !.sparse = @ \cup {d}]
<1>. SUFFICES ASSUME ~rebuilt PROVE StatusInv'
  BY DEF StatusInv, Copy!SparseAddBegin
<1>1. /\ state # None
      /\ UNCHANGED <<hist, tombstones, state, index, disk, mine, rebuilt>>
      /\ torn' = torn \cup out /\ blind' = blind \cup out
      /\ verb' = [op |-> "add", stage |-> "fetch", force |-> force, state |-> new,
                  tree |-> tree, adds |-> adds, dels |-> {}, collide |-> Copy!Colliding(listed),
                  rows |-> index]
      /\ state.sparse # {} /\ d \notin state.sparse
  BY DEF Copy!SparseAddBegin, Copy!Pipeline, Copy!Begins, Copy!server
<1>2. /\ state \in CopyStates /\ new.head = state.head /\ new.sparse = state.sparse \cup {d}
      /\ new.conflicted = state.conflicted
  BY <1>1 DEF CopyInv, LocalTypes, CopyStates
<1>3. ASSUME NEW p \in CheckoutPaths
      PROVE  /\ p \in listed => p[1] = d
             /\ p[1] = d /\ p \notin listed /\ p \notin out => tree[p] \in {None} \cup tombstones
             /\ p \in Copy!Colliding(listed) => index[p] = None
  BY DEF Copy!walk_tree, Copy!WalkedOnce, Copy!Descended, Copy!under_sparse, Copy!Colliding,
         Copy!untracked, Copy!LeftOut
<1>4. \A i: Copy!TreeOf(i)' = Copy!TreeOf(i)
  BY <1>1 DEF Copy!TreeOf
<1>5. ASSUME NEW p \in CheckoutPaths
      PROVE  /\ InCone(verb.state, p)' <=> InCone(state, p) \/ p[1] = d
             /\ p[1] = d => ~InCone(state, p)
  BY <1>1, <1>2 DEF InCone, Copy!under_sparse
<1>6. \A p \in CheckoutPaths: p \in adds <=> p \in listed /\ (force \/ index[p] = None)
  OBVIOUS
<1>7. tree = Copy!TreeOf(state.head)
  OBVIOUS
<1>. HIDE DEF tree, listed, out, adds, new
<1>8. VerbShape'
  <2>1. \A p \in CheckoutPaths: InCone(state, p)' => InCone(verb.state, p)'
    BY <1>1, <1>5 DEF InCone
  <2>. QED  BY <1>1, <1>2, <1>4, <1>7, <2>1 DEF VerbShape
<1>9. ASSUME NEW p \in CheckoutPaths
      PROVE  VerbTrue(p)'
  <2>1. CopyTrue(p)
    BY <1>1 DEF StatusInv
  <2>2. \A c: HeadHas(verb.state, p, c)' <=> tree[p] \in {c} \cup tombstones
    BY <1>1, <1>2, <1>4, <1>7 DEF HeadHas
  <2>3. \A c: HeadHas(state, p, c) <=> tree[p] \in {c} \cup tombstones
    BY <1>7 DEF HeadHas
  <2>4. CleanAt(index, p)' = CleanAt(index, p) /\ BlobAt(verb.rows, p)' = BlobAt(index, p)
    BY <1>1 DEF CleanAt, BlobAt
  <2>5. p \in adds => p[1] = d /\ InCone(verb.state, p)' /\ p \notin state.conflicted
    BY <1>3, <1>5, <1>6, <2>1 DEF CopyTrue, MarksTrue
  <2>6. PendingTrue(p)'
    BY <1>1, <1>2, <1>3, <2>5 DEF PendingTrue
  <2>7. MarksTrue(verb.state, p)'
    BY <1>1, <1>2, <1>5, <2>1, <2>4 DEF MarksTrue, CopyTrue
  <2>8. CASE InCone(state, p)
    <3>1. p \notin adds
      BY <1>3, <1>5, <1>6, <2>8
    <3>2. RowsTrue(p)'
      BY <1>1, <1>5, <2>1, <2>2, <2>3, <2>4, <2>8, <3>1 DEF RowsTrue, CopyTrue, HeadTrue
    <3>. QED  BY <2>6, <2>7, <3>2 DEF VerbTrue
  <2>9. CASE ~InCone(state, p)
    <3>1. p \notin torn => index[p] = None
      BY <2>1, <2>9 DEF CopyTrue, HeadTrue
    <3>2. p \notin blind /\ CleanAt(index, p) => index[p] = None /\ disk[p] = None
      BY <2>1, <2>9 DEF CopyTrue, HeadTrue, CleanAt
    <3>3. index[p] = None /\ p \notin adds /\ p \notin out /\ InCone(verb.state, p)'
            => tree[p] \in {None} \cup tombstones
      BY <1>3, <1>5, <1>6, <2>9
    <3>4. index[p] = None => BlobAt(index, p) = None
      BY DEF BlobAt
    <3>5. RowsTrue(p)'
      BY <1>1, <2>2, <2>4, <3>1, <3>2, <3>3, <3>4 DEF RowsTrue
    <3>. QED  BY <2>6, <2>7, <3>5 DEF VerbTrue
  <2>. QED  BY <2>8, <2>9
<1>. QED  BY <1>1, <1>8, <1>9, BeginStatus

LEMMA RemoveStatus ==
    ASSUME CopyInv, StatusInv, NEW d \in Copy!Dirs, Copy!SparseRemoveBegin(d)
    PROVE  StatusInv'
<1>. DEFINE gone == {p \in CheckoutPaths : p[1] = d}
            dels == {p \in gone : index[p] # None}
            new == [state EXCEPT !.sparse = @ \ {d}, !.conflicted = @ \ gone]
<1>. SUFFICES ASSUME ~rebuilt PROVE StatusInv'
  BY DEF StatusInv, Copy!SparseRemoveBegin, Copy!ghosts
<1>1. /\ state # None
      /\ UNCHANGED <<hist, tombstones, state, index, disk, mine, blind, torn, rebuilt>>
      /\ verb' = [op |-> "remove", stage |-> "write", force |-> FALSE, state |-> new,
                  tree |-> Copy!NoRow, adds |-> {}, dels |-> dels, collide |-> {}, rows |-> index]
  <2>1. state # None
        /\ UNCHANGED <<hist, tombstones, state, index, disk, mine, blind, torn, rebuilt>>
    BY DEF Copy!SparseRemoveBegin, Copy!Begins, Copy!server, Copy!ghosts
  <2>2. verb' = [op |-> "remove", stage |-> "write", force |-> FALSE, state |-> new,
                 tree |-> Copy!NoRow, adds |-> {}, dels |-> dels, collide |-> {}, rows |-> index]
    BY DEF Copy!SparseRemoveBegin, Copy!Pipeline
  <2>. QED  BY <2>1, <2>2
<1>2. /\ state \in CopyStates /\ new.head = state.head /\ new.sparse = state.sparse \ {d}
      /\ new.conflicted = state.conflicted \ gone
  BY <1>1 DEF CopyInv, LocalTypes, CopyStates
<1>3. d \in state.sparse /\ state.sparse \ {d} # {}
  BY DEF Copy!SparseRemoveBegin
<1>4. ASSUME NEW p \in CheckoutPaths
      PROVE  /\ InCone(verb.state, p)' <=> InCone(state, p) /\ p \notin gone
             /\ p \in dels <=> p \in gone /\ index[p] # None
             /\ p \in gone => InCone(state, p)
  <2>1. (p \in dels <=> p \in gone /\ index[p] # None) /\ (p \in gone <=> p[1] = d)
    OBVIOUS
  <2>. HIDE DEF gone, dels, new
  <2>. QED  BY <1>1, <1>2, <1>3, <2>1 DEF InCone, Copy!under_sparse
<1>. HIDE DEF gone, dels, new
<1>5. VerbShape'
  BY <1>1 DEF VerbShape
<1>6. ASSUME NEW p \in CheckoutPaths
      PROVE  VerbTrue(p)'
  <2>1. CopyTrue(p)
    BY <1>1 DEF StatusInv
  <2>2. \A c: HeadHas(verb.state, p, c)' = HeadHas(state, p, c)
    BY <1>1, <1>2 DEF HeadHas, Copy!TreeOf
  <2>3. CleanAt(index, p)' = CleanAt(index, p) /\ BlobAt(verb.rows, p)' = BlobAt(index, p)
    BY <1>1 DEF CleanAt, BlobAt
  <2>4. PendingTrue(p)'
    BY <1>1, <1>4 DEF PendingTrue
  <2>5. MarksTrue(verb.state, p)'
    BY <1>1, <1>2, <1>4, <2>1, <2>3 DEF MarksTrue, CopyTrue
  <2>6. RowsTrue(p)'
    BY <1>1, <1>4, <2>1, <2>2, <2>3 DEF RowsTrue, CopyTrue, HeadTrue
  <2>. QED  BY <2>4, <2>5, <2>6 DEF VerbTrue
<1>. QED  BY <1>1, <1>5, <1>6, BeginStatus

LEMMA CommitStatus ==
    ASSUME CopyInv, StatusInv, Copy!CommitBegin \/ \E p \in CheckoutPaths: Copy!ResolveBegin(p)
    PROVE  StatusInv'
<1>. SUFFICES ASSUME ~rebuilt PROVE StatusInv'
  <2>1. rebuilt' = rebuilt
    BY DEF Copy!CommitBegin, Copy!ResolveBegin, Copy!Commit, Copy!ghosts
  <2>. QED  BY <2>1 DEF StatusInv
<1>1. state # None
  BY DEF Copy!CommitBegin, Copy!ResolveBegin, Copy!Begins
<1>2. PICK op \in {"commit", "resolve"}, adds \in SUBSET CheckoutPaths, dels \in SUBSET Copy!deleted:
        Copy!Commit(op, adds, dels)
  <2>1. CASE Copy!CommitBegin
    BY <2>1 DEF Copy!CommitBegin, Copy!modified, Copy!untracked
  <2>2. ASSUME NEW p \in CheckoutPaths, Copy!ResolveBegin(p)
        PROVE  Copy!Commit("resolve", {p}, {})
    BY <2>2 DEF Copy!ResolveBegin
  <2>. QED  BY <2>1, <2>2
<1>3. /\ UNCHANGED <<hist, tombstones, state, index, disk, mine, blind, torn, rebuilt>>
      /\ verb' = [op |-> op, stage |-> "put", force |-> FALSE, state |-> state, tree |-> disk,
                  adds |-> adds, dels |-> dels, collide |-> {}, rows |-> index]
  BY <1>2 DEF Copy!Commit, Copy!Pipeline, Copy!server, Copy!ghosts
<1>4. VerbShape'
  BY <1>3 DEF VerbShape, InCone
<1>5. ASSUME NEW p \in CheckoutPaths
      PROVE  VerbTrue(p)'
  <2>1. CopyTrue(p)
    BY <1>1 DEF StatusInv
  <2>2. /\ InCone(verb.state, p)' = InCone(state, p)
        /\ \A c: HeadHas(verb.state, p, c)' = HeadHas(state, p, c)
    BY <1>3 DEF InCone, HeadHas, Copy!TreeOf
  <2>3. CleanAt(index, p)' = CleanAt(index, p) /\ BlobAt(verb.rows, p)' = BlobAt(index, p)
    BY <1>3 DEF CleanAt, BlobAt
  <2>4. PendingTrue(p)'
    <3>1. p \in dels => disk[p] = None
      BY <1>2 DEF Copy!deleted
    <3>. QED  BY <1>3, <3>1 DEF PendingTrue
  <2>5. MarksTrue(verb.state, p)'
    BY <1>3, <2>1, <2>2, <2>3 DEF MarksTrue, CopyTrue
  <2>6. RowsTrue(p)'
    BY <1>3, <2>1, <2>2, <2>3 DEF RowsTrue, CopyTrue, HeadTrue
  <2>. QED  BY <2>4, <2>5, <2>6 DEF VerbTrue
<1>. QED  BY <1>1, <1>3, <1>4, <1>5, BeginStatus

(* The files that are in the way are discarded: they had no row, so the    *)
(* head has nothing there, unless a verb had left them torn.               *)
LEMMA FetchedStatus ==
    ASSUME Copy!CopyAssumption, CopyInv, StatusInv, Copy!Fetched
    PROVE  StatusInv'
<1>. SUFFICES ASSUME ~rebuilt PROVE StatusInv'
  BY DEF StatusInv, Copy!Fetched
<1>1. /\ verb \in Pipelines /\ verb.stage \in CopyStages /\ verb.stage = "fetch" /\ state # None
  BY InFlight DEF Copy!Fetched, CopyStages
<1>2. /\ UNCHANGED <<hist, tombstones, state, torn, rebuilt>>
      /\ disk' = [p \in CheckoutPaths |-> IF p \in verb.collide THEN None ELSE disk[p]]
      /\ index' = [p \in CheckoutPaths |-> IF p \in verb.collide THEN Copy!Stale(index, p)[p]
                                           ELSE index[p]]
      /\ mine' = mine \ verb.collide
      /\ blind' = blind \cup (torn \cap (verb.adds \cup verb.dels \cup verb.collide))
  BY DEF Copy!Fetched, Copy!server
<1>3. /\ verb'.stage = "write" /\ verb'.op = verb.op /\ verb'.rows = verb.rows
      /\ verb'.adds = verb.adds /\ verb'.dels = verb.dels /\ verb'.tree = verb.tree
      /\ verb'.state = verb.state
  BY <1>1 DEF Copy!Fetched, Pipelines
<1>4. VerbShape /\ verb.op \notin {"commit", "resolve", "remove"}
  BY <1>1 DEF StatusInv, VerbShape
<1>5. VerbShape'
  BY <1>2, <1>3, <1>4 DEF VerbShape, InCone, Copy!TreeOf
<1>6. ASSUME NEW p \in CheckoutPaths
      PROVE  CopyTrue(p)' /\ VerbTrue(p)'
  <2>1. CopyTrue(p) /\ VerbTrue(p)
    BY <1>1 DEF StatusInv
  <2>2. p \in verb.collide => index[p] = None
    BY <1>1, <2>1 DEF VerbTrue, PendingTrue
  <2>3. index'[p] = index[p]
    <3>1. CASE p \in verb.collide
      <4>1. index \in IndexRows
        BY DEF CopyInv, LocalTypes
      <4>. QED  BY <1>2, <2>2, <3>1, <4>1, StaleIs
    <3>. QED  BY <1>2, <3>1
  <2>4. /\ InCone(state, p)' = InCone(state, p)
        /\ \A c: HeadHas(state, p, c)' = HeadHas(state, p, c)
        /\ InCone(verb.state, p)' = InCone(verb.state, p)
        /\ \A c: HeadHas(verb.state, p, c)' = HeadHas(verb.state, p, c)
    BY <1>2, <1>3 DEF InCone, HeadHas, Copy!TreeOf
  <2>5. BlobAt(index, p)' = BlobAt(index, p) /\ BlobAt(verb.rows, p)' = BlobAt(verb.rows, p)
    BY <1>3, <2>3 DEF BlobAt
  <2>6. PendingTrue(p)'
    BY <1>1, <1>2, <1>3, <2>1, <2>3, <2>4 DEF VerbTrue, PendingTrue
  <2>7. CASE p \in verb.collide
    <3>1. /\ disk'[p] = None /\ CleanAt(index, p)' /\ BlobAt(index, p) = None
          /\ p \in torn => p \in blind'
      BY <1>2, <2>2, <2>3, <2>7 DEF CleanAt, BlobAt
    <3>2. CopyTrue(p)'
      BY <1>2, <2>1, <2>2, <2>3, <2>4, <2>5, <2>7, <3>1 DEF CopyTrue, HeadTrue, MarksTrue
    <3>3. MarksTrue(verb.state, p)'
      BY <1>3, <2>1, <2>2, <2>3, <2>4, <2>7 DEF VerbTrue, MarksTrue
    <3>4. verb.op # "restore" => RowsTrue(p)'
      BY <1>1, <1>2, <1>3, <1>4, <2>1, <2>2, <2>3, <2>4, <2>5, <2>7, <3>1 DEF VerbTrue, RowsTrue
    <3>. QED  BY <1>3, <2>6, <3>2, <3>3, <3>4 DEF VerbTrue
  <2>8. CASE p \notin verb.collide
    <3>1. disk'[p] = disk[p] /\ CleanAt(index, p)' = CleanAt(index, p)
          /\ (p \in mine' <=> p \in mine) /\ (p \in blind => p \in blind')
      BY <1>2, <2>3, <2>8 DEF CleanAt
    <3>2. CopyTrue(p)'
      BY <1>2, <2>1, <2>3, <2>4, <2>5, <3>1 DEF CopyTrue, HeadTrue, MarksTrue
    <3>3. MarksTrue(verb.state, p)'
      BY <1>2, <1>3, <2>1, <2>3, <2>4, <3>1 DEF VerbTrue, MarksTrue
    <3>4. verb.op # "restore" => RowsTrue(p)'
      BY <1>1, <1>2, <1>3, <1>4, <2>1, <2>3, <2>4, <2>5, <3>1 DEF VerbTrue, RowsTrue
    <3>. QED  BY <1>3, <2>6, <3>2, <3>3, <3>4 DEF VerbTrue
  <2>. QED  BY <2>7, <2>8
<1>. QED  BY <1>3, <1>5, <1>6 DEF StatusInv

(* A file is written: until the index is saved its row is of what was there*)
(* before, so it shows, unless that is what was written.                   *)
LEMMA WriteStatus ==
    ASSUME Copy!CopyAssumption, CopyInv, StatusInv, NEW p \in CheckoutPaths, Copy!Write(p)
    PROVE  StatusInv'
<1>. DEFINE b == verb.tree[p]
<1>. SUFFICES ASSUME ~rebuilt PROVE StatusInv'
  BY DEF StatusInv, Copy!Write
<1>1. /\ verb \in Pipelines /\ verb.stage \in CopyStages /\ verb.stage = "write" /\ state # None
      /\ p \in verb.adds
  BY InFlight DEF Copy!Write, CopyStages
<1>2. /\ UNCHANGED <<hist, tombstones, state, blind, rebuilt>>
      /\ disk' = [disk EXCEPT ![p] = b] /\ index' = Copy!Stale(index, p)
      /\ torn' = torn \cup {p} /\ mine' = mine \ {p}
  BY DEF Copy!Write, Copy!server
<1>3. /\ disk'[p] = b
      /\ \A q \in CheckoutPaths \ {p}: disk'[q] = disk[q] /\ index'[q] = index[q]
      /\ index'[p] = None <=> index[p] = None
      /\ index[p] # None => ~index'[p].fresh /\ index'[p].blob = index[p].blob
  BY <1>2, StaleIs DEF CopyInv, LocalTypes, Copy!Trees
<1>4. /\ verb'.stage = "write" /\ verb'.op = verb.op /\ verb'.tree = verb.tree
      /\ verb'.adds = verb.adds \ {p} /\ verb'.dels = verb.dels /\ verb'.collide = verb.collide
      /\ verb'.rows = [verb.rows EXCEPT ![p] = Copy!Row(b)]
      /\ verb'.state.head = verb.state.head /\ verb'.state.sparse = verb.state.sparse
      /\ verb'.state.conflicted = Copy!Marked(verb.state.conflicted, p, b)
  BY <1>1 DEF Copy!Write, Pipelines, CopyStates
<1>5. \A q \in CheckoutPaths \ {p}:
        /\ verb'.rows[q] = verb.rows[q]
        /\ q \in verb'.state.conflicted <=> q \in verb.state.conflicted
  BY <1>1, <1>4 DEF Pipelines, IndexRows, Copy!Marked
<1>6. /\ b \in CheckoutBlobs /\ b # None
      /\ verb'.rows[p] = Copy!Row(b) /\ Copy!Row(b) \in Copy!Rows /\ Copy!Row(b) # None
      /\ Copy!Row(b).blob = b /\ Copy!Row(b).fresh
  <2>1. b # None
    BY <1>1 DEF CopyInv, AddsInv
  <2>2. b \in CheckoutBlobs \cup {None}
    BY <1>1 DEF Pipelines, Copy!Trees
  <2>3. verb'.rows[p] = Copy!Row(b)
    BY <1>1, <1>4 DEF Pipelines, IndexRows
  <2>. HIDE DEF b
  <2>4. /\ b \in CheckoutBlobs /\ Copy!Row(b) \in Copy!Rows
        /\ Copy!Row(b).blob = b /\ Copy!Row(b).fresh
    BY <2>1, <2>2 DEF Copy!Row, Copy!Rows
  <2>5. Copy!Row(b) # None
    BY <2>4 DEF Copy!CopyAssumption
  <2>. QED  BY <2>1, <2>3, <2>4, <2>5
<1>7. VerbShape /\ CopyTrue(p) /\ VerbTrue(p)
  BY <1>1 DEF StatusInv
<1>8. verb.op \in {"sync", "land", "add", "restore"}
  <2>1. verb.op # "remove"
    BY <1>1 DEF CopyInv, GateInv
  <2>2. verb.op \notin {"commit", "resolve"}
    BY <1>1, <1>7 DEF VerbShape
  <2>. QED  BY <1>1, <2>1, <2>2 DEF Pipelines, CopyOps
<1>9. /\ p \notin verb.dels /\ InCone(verb.state, p)
      /\ p \notin blind => p \notin torn
      /\ verb.op = "add" => p \notin verb.state.conflicted
  BY <1>1, <1>6, <1>7, <1>8 DEF VerbTrue, PendingTrue
<1>10. /\ \A i: Copy!TreeOf(i)' = Copy!TreeOf(i)
       /\ \A q: InCone(state, q)' = InCone(state, q) /\ InCone(verb.state, q)' = InCone(verb.state, q)
       /\ \A c: HeadHas(state, p, c)' = HeadHas(state, p, c)
       /\ \A c: HeadHas(verb.state, p, c)' = HeadHas(verb.state, p, c)
  BY <1>2, <1>4 DEF InCone, HeadHas, Copy!TreeOf
<1>11. VerbShape'
  BY <1>2, <1>4, <1>7, <1>8, <1>10 DEF VerbShape
<1>12. ASSUME NEW q \in CheckoutPaths \ {p}
       PROVE  CopyTrue(q)' /\ VerbTrue(q)'
  <2>1. CopyTrue(q) /\ VerbTrue(q)
    BY <1>1 DEF StatusInv
  <2>2. /\ index'[q] = index[q] /\ disk'[q] = disk[q] /\ tombstones' = tombstones
        /\ (q \in torn' <=> q \in torn) /\ blind' = blind /\ (q \in mine' <=> q \in mine)
        /\ state' = state
    BY <1>2, <1>3
  <2>3. CopyTrue(q)'
    BY <1>1, <1>10, <2>1, <2>2, CopyKeeps
  <2>4. (q \in verb'.adds <=> q \in verb.adds) /\ (q \in verb'.dels <=> q \in verb.dels)
    BY <1>4
  <2>5. VerbTrue(q)'
    BY <1>1, <1>4, <1>5, <1>10, <2>1, <2>2, <2>4, VerbKeeps
  <2>. QED  BY <2>3, <2>5
<1>13. CopyTrue(p)'
  <2>1. BlobAt(index, p)' = BlobAt(index, p)
    BY <1>3 DEF BlobAt
  <2>2. CleanAt(index, p)' => index[p] # None /\ b = index[p].blob /\ b = BlobAt(index, p)
    BY <1>3, <1>6 DEF CleanAt, BlobAt
  <2>3. HeadTrue(p)'
    BY <1>2, <1>3, <1>7, <1>9, <1>10, <2>1, <2>2 DEF CopyTrue, HeadTrue
  <2>4. MarksTrue(state, p)'
    BY <1>2, <1>3, <1>7, <1>9, <1>10, <2>2 DEF CopyTrue, MarksTrue
  <2>. QED  BY <2>3, <2>4 DEF CopyTrue
<1>14. VerbTrue(p)'
  <2>1. PendingTrue(p)'
    BY <1>4, <1>9 DEF PendingTrue
  <2>2. p \in verb'.state.conflicted => b \in CheckoutMarkers
    BY <1>4, <1>9 DEF Copy!Marked
  <2>3. MarksTrue(verb.state, p)'
    BY <1>2, <1>3, <1>9, <1>10, <2>2 DEF MarksTrue
  <2>4. BlobAt(verb.rows, p)' = b
    BY <1>6 DEF BlobAt
  <2>5. verb.op # "restore" => HeadHas(verb.state, p, b)
    BY <1>7, <1>8 DEF VerbShape, HeadHas
  <2>6. verb'.rows[p] # index'[p]
    BY <1>3, <1>6
  <2>7. verb.op # "restore" => RowsTrue(p)'
    BY <1>2, <1>3, <1>4, <1>6, <1>8, <1>9, <1>10, <2>2, <2>4, <2>5, <2>6 DEF RowsTrue
  <2>. QED  BY <1>4, <2>1, <2>3, <2>7 DEF VerbTrue
<1>. QED  BY <1>4, <1>11, <1>12, <1>13, <1>14 DEF StatusInv

(* A file is deleted: its row shows it, until the index is saved.          *)
LEMMA DeleteStatus ==
    ASSUME Copy!CopyAssumption, CopyInv, StatusInv, NEW p \in CheckoutPaths, Copy!Delete(p)
    PROVE  StatusInv'
<1>. SUFFICES ASSUME ~rebuilt PROVE StatusInv'
  BY DEF StatusInv, Copy!Delete
<1>1. /\ verb \in Pipelines /\ verb.stage \in CopyStages /\ verb.stage = "write" /\ state # None
      /\ p \in verb.dels /\ verb.adds = {}
  BY InFlight DEF Copy!Delete, CopyStages
<1>2. UNCHANGED <<hist, tombstones, state, blind, rebuilt>>
  BY DEF Copy!Delete, Copy!server
<1>3. VerbShape /\ CopyTrue(p) /\ VerbTrue(p)
  BY <1>1 DEF StatusInv
<1>4. verb.op \in {"sync", "land", "add", "remove"}
  BY <1>1, <1>3 DEF VerbShape, Pipelines, CopyOps
<1>5. /\ verb.rows[p] = index[p]
      /\ verb.op = "remove" => ~InCone(verb.state, p)
      /\ verb.op # "remove" => verb.tree[p] = None /\ (p \in torn => p \in blind)
  BY <1>1, <1>3, <1>4 DEF VerbTrue, PendingTrue, RowsTrue
<1>6. InCone(verb.state, p) => HeadHas(verb.state, p, None)
  BY <1>3, <1>4, <1>5 DEF VerbShape, HeadHas
<1>. DEFINE Left == verb.rows[p] = None /\ UNCHANGED <<disk, index, torn, mine>>
            Gone == /\ verb.rows[p] # None
                    /\ disk' = [disk EXCEPT ![p] = None]
                    /\ index' = Copy!Stale(index, p)
                    /\ torn' = torn \cup {p} /\ mine' = mine \ {p}
<1>7. /\ verb'.stage = "write" /\ verb'.op = verb.op /\ verb'.tree = verb.tree
      /\ verb'.adds = {} /\ verb'.dels = verb.dels \ {p} /\ verb'.collide = verb.collide
      /\ verb'.state.head = verb.state.head /\ verb'.state.sparse = verb.state.sparse
      /\ Left => verb'.rows = verb.rows /\ verb'.state = verb.state
      /\ Gone => /\ verb'.rows = [verb.rows EXCEPT ![p] = None]
                 /\ verb'.state.conflicted = verb.state.conflicted \ {p}
      /\ Left \/ Gone
  <2>1. CASE verb.rows[p] = None
    <3>1. verb' = [verb EXCEPT !.dels = verb.dels \ {p}] /\ UNCHANGED <<disk, index, torn, mine>>
      BY <1>1, <2>1 DEF Copy!Delete, Pipelines
    <3>. QED  BY <1>1, <2>1, <3>1 DEF Pipelines
  <2>2. CASE verb.rows[p] # None
    <3>1. Gone
      BY <2>2 DEF Copy!Delete
    <3>2. verb' = [verb EXCEPT !.dels = verb.dels \ {p}, !.rows = [verb.rows EXCEPT ![p] = None],
                              !.state = [verb.state EXCEPT !.conflicted = verb.state.conflicted \ {p}]]
      BY <1>1, <2>2 DEF Copy!Delete, Pipelines
    <3>3. ~Left
      BY <2>2
    <3>. HIDE DEF Left, Gone
    <3>. QED  BY <1>1, <3>1, <3>2, <3>3 DEF Pipelines, CopyStates
  <2>. QED  BY <2>1, <2>2
<1>8. ASSUME NEW q \in CheckoutPaths \ {p}
      PROVE  /\ verb'.rows[q] = verb.rows[q] /\ disk'[q] = disk[q] /\ index'[q] = index[q]
             /\ (q \in torn' <=> q \in torn) /\ (q \in mine' <=> q \in mine)
             /\ q \in verb'.state.conflicted <=> q \in verb.state.conflicted
  <2>1. CASE Left
    BY <1>7, <2>1
  <2>2. CASE Gone
    <3>1. verb.rows \in IndexRows /\ index \in IndexRows /\ disk \in Copy!Trees
      BY <1>1 DEF Pipelines, CopyInv, LocalTypes
    <3>2. verb'.rows[q] = verb.rows[q]
      BY <1>7, <2>2, <3>1 DEF IndexRows
    <3>3. disk'[q] = disk[q] /\ index'[q] = index[q]
      BY <2>2, <3>1, StaleIs DEF Copy!Trees
    <3>. QED  BY <1>7, <2>2, <3>2, <3>3
  <2>. QED  BY <1>7, <2>1, <2>2
<1>9. /\ \A i: Copy!TreeOf(i)' = Copy!TreeOf(i)
      /\ \A q: InCone(state, q)' = InCone(state, q) /\ InCone(verb.state, q)' = InCone(verb.state, q)
      /\ \A c: HeadHas(state, p, c)' = HeadHas(state, p, c)
      /\ \A c: HeadHas(verb.state, p, c)' = HeadHas(verb.state, p, c)
  BY <1>2, <1>7 DEF InCone, HeadHas, Copy!TreeOf
<1>10. VerbShape'
  BY <1>2, <1>3, <1>4, <1>7, <1>9 DEF VerbShape
<1>11. ASSUME NEW q \in CheckoutPaths \ {p}
       PROVE  CopyTrue(q)' /\ VerbTrue(q)'
  <2>1. CopyTrue(q) /\ VerbTrue(q)
    BY <1>1 DEF StatusInv
  <2>2. CopyTrue(q)'
    BY <1>1, <1>2, <1>8, <1>9, <2>1, CopyKeeps
  <2>3. (q \in verb'.adds <=> q \in verb.adds) /\ (q \in verb'.dels <=> q \in verb.dels)
    BY <1>1, <1>7
  <2>4. VerbTrue(q)'
    BY <1>1, <1>2, <1>7, <1>8, <1>9, <2>1, <2>3, VerbKeeps
  <2>. QED  BY <2>2, <2>4
<1>12. PendingTrue(p)'
  BY <1>7 DEF PendingTrue
<1>13. CASE Left
  <2>1. CopyTrue(p)'
    BY <1>1, <1>2, <1>3, <1>9, <1>13, CopyKeeps
  <2>2. /\ CleanAt(index, p)' = CleanAt(index, p) /\ index[p] = None
        /\ verb'.rows[p] = None /\ index'[p] = None
        /\ BlobAt(verb.rows, p)' = None
    BY <1>5, <1>7, <1>13 DEF CleanAt, BlobAt
  <2>3. MarksTrue(verb.state, p)'
    BY <1>3, <1>7, <1>9, <1>13, <2>2 DEF VerbTrue, MarksTrue
  <2>4. RowsTrue(p)'
    BY <1>2, <1>5, <1>6, <1>7, <1>9, <1>13, <2>2 DEF RowsTrue
  <2>. QED  BY <1>7, <1>10, <1>11, <1>12, <2>1, <2>3, <2>4 DEF StatusInv, VerbTrue
<1>14. CASE Gone
  <2>1. /\ index[p] # None /\ index'[p] # None /\ ~index'[p].fresh /\ disk'[p] = None
        /\ ~CleanAt(index, p)' /\ p \in torn'
    <3>1. index \in IndexRows /\ disk \in Copy!Trees
      BY DEF CopyInv, LocalTypes
    <3>2. index[p] # None
      BY <1>5, <1>14
    <3>3. index'[p] # None /\ ~index'[p].fresh /\ disk'[p] = None
      BY <1>14, <3>1, <3>2, StaleIs DEF Copy!Trees
    <3>. QED  BY <1>14, <3>2, <3>3 DEF CleanAt
  <2>2. CopyTrue(p)'
    BY <1>2, <1>3, <1>9, <2>1 DEF CopyTrue, HeadTrue, MarksTrue
  <2>3. verb'.rows[p] = None /\ p \notin verb'.state.conflicted /\ BlobAt(verb.rows, p)' = None
    <3>1. verb.rows \in IndexRows
      BY <1>1 DEF Pipelines
    <3>. QED  BY <1>7, <1>14, <3>1 DEF IndexRows, BlobAt
  <2>4. MarksTrue(verb.state, p)'
    BY <2>3 DEF MarksTrue
  <2>5. RowsTrue(p)'
    BY <1>6, <1>7, <1>9, <2>1, <2>3 DEF RowsTrue
  <2>. QED  BY <1>7, <1>10, <1>11, <1>12, <2>2, <2>4, <2>5 DEF StatusInv, VerbTrue
<1>. QED  BY <1>7, <1>13, <1>14

(* The changeset is posted: it is the head with what the commit takes.     *)
LEMMA UploadStatus ==
    ASSUME Copy!CopyAssumption, CopyInv, StatusInv, Copy!Upload
    PROVE  StatusInv'
<1>. DEFINE t == [p \in CheckoutPaths |-> IF p \in verb.adds THEN verb.tree[p]
                                          ELSE IF p \in verb.dels THEN None
                                          ELSE Copy!TreeOf(state.head)[p]]
<1>. SUFFICES ASSUME ~rebuilt PROVE StatusInv'
  BY DEF StatusInv, Copy!Upload, Copy!ghosts
<1>1. /\ verb \in Pipelines /\ verb.stage \in CopyStages /\ verb.stage = "put" /\ state # None
      /\ state \in CopyStates
  BY InFlight DEF Copy!Upload, CopyStages
<1>2. /\ UNCHANGED <<tombstones, state, index, disk, mine, blind, torn, rebuilt>>
      /\ hist' = Append(hist, [tree |-> t, parent |-> state.head])
  BY DEF Copy!Upload, Copy!ghosts
<1>3. /\ verb'.stage = "posted" /\ verb'.op = verb.op /\ verb'.tree = verb.tree
      /\ verb'.adds = verb.adds /\ verb'.dels = verb.dels /\ verb'.rows = verb.rows
      /\ verb'.state.head = Len(hist') /\ verb'.state.sparse = verb.state.sparse
      /\ verb'.state.conflicted = verb.state.conflicted
  BY <1>1 DEF Copy!Upload, Pipelines, CopyStates
<1>4. t \in Copy!Trees
  <2>1. Copy!TreeOf(state.head) \in Copy!Trees /\ verb.tree \in Copy!Trees
    BY <1>1, TreesAre DEF CopyStates, Pipelines
  <2>. QED  BY <2>1 DEF Copy!Trees
<1>5. state.head \in DOMAIN hist
  BY <1>1 DEF CopyStates
<1>6. \A p \in CheckoutPaths: t[p] = IF p \in verb.adds THEN verb.tree[p]
                                    ELSE IF p \in verb.dels THEN None
                                    ELSE Copy!TreeOf(state.head)[p]
  OBVIOUS
<1>. HIDE DEF t
<1>7. /\ \A i \in DOMAIN hist: Copy!TreeOf(i)' = Copy!TreeOf(i)
      /\ Copy!TreeOf(verb.state.head)' = t
  <2>. DEFINE R == [tree: Copy!Trees, parent: Nat]
  <2>1. \A i \in DOMAIN hist: Copy!TreeOf(i)' = Copy!TreeOf(i)
    BY <1>2, <1>4, <1>5, TreesStand
  <2>2. hist \in Seq(R)
    BY DEF CopyInv, ServerTypes
  <2>3. hist'[Len(hist')] = [tree |-> t, parent |-> state.head]
    <3>. HIDE DEF R
    <3>. QED  BY <1>2, <2>2
  <2>. QED  BY <1>3, <2>1, <2>3 DEF Copy!TreeOf
<1>8. \A p \in CheckoutPaths: CopyTrue(p)'
  <2>1. /\ state'.head = state.head /\ state'.sparse = state.sparse
        /\ state'.conflicted \subseteq state.conflicted
    BY <1>2
  <2>. QED  BY <1>1, <1>2, <1>4, <1>5, <2>1, CopyStands
<1>9. VerbShape /\ verb.op \in {"commit", "resolve"}
  BY <1>1 DEF StatusInv, CopyInv, GateInv
<1>10. VerbShape'
  BY <1>1, <1>2, <1>3, <1>9 DEF VerbShape, InCone
<1>11. ASSUME NEW p \in CheckoutPaths
       PROVE  VerbTrue(p)'
  <2>1. VerbTrue(p)
    BY <1>1 DEF StatusInv
  <2>2. /\ InCone(verb.state, p)' = InCone(verb.state, p)
        /\ CleanAt(index, p)' = CleanAt(index, p)
        /\ BlobAt(verb.rows, p)' = BlobAt(verb.rows, p)
    BY <1>2, <1>3 DEF InCone, CleanAt, BlobAt
  <2>3. \A c: HeadHas(verb.state, p, c) /\ p \notin verb.adds \cup verb.dels
                => HeadHas(verb.state, p, c)'
    BY <1>1, <1>2, <1>6, <1>7, <1>9 DEF HeadHas, VerbShape
  <2>4. PendingTrue(p)'
    BY <1>1, <1>2, <1>3, <1>5, <1>6, <1>7, <2>1, <2>2 DEF VerbTrue, PendingTrue
  <2>5. MarksTrue(verb.state, p)'
    BY <1>2, <1>3, <2>1, <2>2 DEF VerbTrue, MarksTrue
  <2>6. RowsTrue(p)'
    BY <1>1, <1>2, <1>3, <1>9, <2>1, <2>2, <2>3 DEF VerbTrue, RowsTrue
  <2>. QED  BY <2>4, <2>5, <2>6 DEF VerbTrue
<1>. QED  BY <1>8, <1>10, <1>11 DEF StatusInv

(* The rows of a commit are of what it posted; it is what is on disk, but  *)
(* for what the editor wrote since.                                        *)
LEMMA StatStatus ==
    ASSUME Copy!CopyAssumption, CopyInv, StatusInv, Copy!Stat
    PROVE  StatusInv'
<1>. SUFFICES ASSUME ~rebuilt PROVE StatusInv'
  BY DEF StatusInv, Copy!Stat, Copy!ghosts
<1>1. /\ verb \in Pipelines /\ verb.stage \in CopyStages /\ verb.stage = "posted" /\ state # None
  BY InFlight DEF Copy!Stat, CopyStages
<1>2. UNCHANGED <<hist, tombstones, state, index, disk, mine, blind, torn, rebuilt>>
  BY DEF Copy!Stat, Copy!server, Copy!ghosts
<1>3. /\ verb'.stage = "write" /\ verb'.op = verb.op /\ verb'.adds = {} /\ verb'.dels = {}
      /\ verb'.state.head = verb.state.head /\ verb'.state.sparse = verb.state.sparse
      /\ verb'.state.conflicted = verb.state.conflicted \ (verb.adds \cup verb.dels)
      /\ verb'.rows = [p \in CheckoutPaths |-> IF p \in verb.adds THEN Copy!Row(verb.tree[p])
                                               ELSE IF p \in verb.dels THEN None ELSE verb.rows[p]]
  BY <1>1 DEF Copy!Stat, Pipelines, CopyStates
<1>4. VerbShape /\ verb.op \in {"commit", "resolve"}
  BY <1>1 DEF StatusInv, CopyInv, GateInv
<1>5. VerbShape'
  BY <1>2, <1>3, <1>4 DEF VerbShape, InCone
<1>6. ASSUME NEW p \in CheckoutPaths
      PROVE  VerbTrue(p)'
  <2>1. VerbTrue(p) /\ CopyTrue(p)
    BY <1>1 DEF StatusInv
  <2>2. /\ InCone(verb.state, p)' = InCone(verb.state, p) /\ InCone(verb.state, p) = InCone(state, p)
        /\ CleanAt(index, p)' = CleanAt(index, p)
        /\ \A c: HeadHas(verb.state, p, c)' = HeadHas(verb.state, p, c)
    BY <1>1, <1>2, <1>3, <1>4 DEF InCone, CleanAt, HeadHas, Copy!TreeOf, VerbShape
  <2>3. PendingTrue(p)'
    BY <1>3 DEF PendingTrue
  <2>4. MarksTrue(verb.state, p)'
    BY <1>2, <1>3, <2>1, <2>2 DEF VerbTrue, MarksTrue
  <2>5. verb.rows[p] = index[p]
    BY <1>1, <1>4, <2>1 DEF VerbTrue, RowsTrue
  <2>6. CASE p \in verb.adds
    <3>. DEFINE b == verb.tree[p]
    <3>1. Copy!TreeOf(verb.state.head)[p] = b /\ (p \notin blind => disk[p] = b)
      BY <1>1, <2>1, <2>6 DEF VerbTrue, PendingTrue
    <3>2. b \in CheckoutBlobs
      BY <1>1, <2>6 DEF CopyInv, AddsInv, Pipelines, Copy!Trees
    <3>3. verb'.rows[p] = Copy!Row(b)
      BY <1>3, <2>6
    <3>. HIDE DEF b
    <3>4. BlobAt(verb.rows, p)' = b
      <4>1. Copy!Row(b) \in Copy!Rows /\ Copy!Row(b).blob = b
        BY <3>2 DEF Copy!Row, Copy!Rows
      <4>2. Copy!Row(b) # None
        BY <4>1 DEF Copy!CopyAssumption
      <4>. QED  BY <3>3, <4>1, <4>2 DEF BlobAt
    <3>5. HeadHas(verb.state, p, b)
      BY <3>1 DEF HeadHas
    <3>6. p \notin verb'.state.conflicted
      BY <1>3, <2>6
    <3>7. ~InCone(state, p) /\ p \notin torn => index[p] = None
      BY <2>1 DEF CopyTrue, HeadTrue
    <3>8. RowsTrue(p)'
      BY <1>2, <1>3, <1>4, <2>2, <3>1, <3>4, <3>5, <3>6, <3>7 DEF RowsTrue
    <3>. QED  BY <2>3, <2>4, <3>8 DEF VerbTrue
  <2>7. CASE p \in verb.dels /\ p \notin verb.adds
    <3>1. Copy!TreeOf(verb.state.head)[p] = None /\ (p \notin blind => disk[p] = None)
      BY <1>1, <2>1, <2>7 DEF VerbTrue, PendingTrue
    <3>2. verb'.rows[p] = None /\ BlobAt(verb.rows, p)' = None
      BY <1>3, <2>7 DEF BlobAt
    <3>3. HeadHas(verb.state, p, None)
      BY <3>1 DEF HeadHas
    <3>4. RowsTrue(p)'
      BY <1>2, <1>3, <1>4, <2>2, <3>1, <3>2, <3>3 DEF RowsTrue
    <3>. QED  BY <2>3, <2>4, <3>4 DEF VerbTrue
  <2>8. CASE p \notin verb.adds \cup verb.dels
    <3>1. verb'.rows[p] = verb.rows[p] /\ BlobAt(verb.rows, p)' = BlobAt(verb.rows, p)
      BY <1>3, <2>8 DEF BlobAt
    <3>2. RowsTrue(p)'
      BY <1>2, <1>3, <1>4, <2>1, <2>2, <2>5, <2>8, <3>1 DEF VerbTrue, RowsTrue
    <3>. QED  BY <2>3, <2>4, <3>2 DEF VerbTrue
  <2>. QED  BY <2>6, <2>7, <2>8
<1>. QED  BY <1>1, <1>2, <1>5, <1>6, BeginStatus

(* The state is saved: the index is still of the old head, but where the   *)
(* two rows are the same; where they differ the old one shows, or holds    *)
(* what the new head has.                                                  *)
LEMMA SaveStateStatus ==
    ASSUME Copy!CopyAssumption, CopyInv, StatusInv, Copy!SaveState
    PROVE  StatusInv'
<1>. SUFFICES ASSUME ~rebuilt PROVE StatusInv'
  BY DEF StatusInv, Copy!SaveState
<1>1. /\ verb \in Pipelines /\ verb.stage \in CopyStages /\ verb.stage = "write" /\ state # None
      /\ verb.adds = {} /\ verb.dels = {}
  BY InFlight DEF Copy!SaveState, CopyStages
<1>2. /\ UNCHANGED <<hist, tombstones, index, disk, mine, blind, rebuilt>>
      /\ state' = verb.state /\ torn' = torn \cup Copy!Changed
  BY DEF Copy!SaveState, Copy!server
<1>3. /\ verb'.stage = "index" /\ verb'.op = verb.op /\ verb'.adds = {} /\ verb'.dels = {}
      /\ verb'.state = verb.state /\ verb'.rows = verb.rows /\ verb'.tree = verb.tree
  BY <1>1 DEF Copy!SaveState, Pipelines
<1>4. VerbShape
  BY <1>1 DEF StatusInv
<1>5. VerbShape'
  BY <1>2, <1>3, <1>4 DEF VerbShape, InCone, Copy!TreeOf
<1>6. ASSUME NEW p \in CheckoutPaths
      PROVE  CopyTrue(p)' /\ VerbTrue(p)'
  <2>1. VerbTrue(p) /\ CopyTrue(p)
    BY <1>1 DEF StatusInv
  <2>2. /\ InCone(verb.state, p)' = InCone(verb.state, p) /\ InCone(state, p)' = InCone(verb.state, p)
        /\ CleanAt(index, p)' = CleanAt(index, p) /\ BlobAt(index, p)' = BlobAt(index, p)
        /\ BlobAt(verb.rows, p)' = BlobAt(verb.rows, p)
        /\ \A c: /\ HeadHas(verb.state, p, c)' = HeadHas(verb.state, p, c)
                 /\ HeadHas(state, p, c)' = HeadHas(verb.state, p, c)
    BY <1>2, <1>3 DEF InCone, CleanAt, BlobAt, HeadHas, Copy!TreeOf
  <2>3. p \in torn' <=> p \in torn \/ index[p] # verb.rows[p]
    BY <1>2 DEF Copy!Changed
  <2>4. PendingTrue(p)'
    BY <1>3 DEF PendingTrue
  <2>5. MarksTrue(verb.state, p)' /\ MarksTrue(state, p)'
    BY <1>2, <1>3, <2>1, <2>2, <2>3 DEF VerbTrue, MarksTrue
  <2>6. verb.op # "restore" => RowsTrue(p)'
    BY <1>1, <1>2, <1>3, <2>1, <2>2, <2>3 DEF VerbTrue, RowsTrue
  <2>7. HeadTrue(p)'
    <3>1. CASE verb.op = "restore"
      <4>1. InCone(verb.state, p) = InCone(state, p)
            /\ \A c: HeadHas(verb.state, p, c) = HeadHas(state, p, c)
        BY <1>4, <3>1 DEF VerbShape, InCone, HeadHas
      <4>. QED  BY <1>2, <2>1, <2>2, <2>3, <4>1 DEF CopyTrue, HeadTrue
    <3>2. CASE verb.op # "restore"
      <4>1. RowsTrue(p)
        BY <2>1, <3>2 DEF VerbTrue
      <4>2. verb.rows[p] = index[p] => BlobAt(verb.rows, p) = BlobAt(index, p)
        BY DEF BlobAt
      <4>3. p \notin torn' =>
              IF InCone(verb.state, p) THEN HeadHas(verb.state, p, BlobAt(index, p))
              ELSE index[p] = None
        BY <1>1, <2>3, <4>1, <4>2 DEF RowsTrue
      <4>4. p \notin blind /\ CleanAt(index, p) => disk[p] = BlobAt(index, p)
        BY <2>1 DEF CopyTrue, HeadTrue, CleanAt, BlobAt
      <4>5. p \notin blind /\ CleanAt(index, p) /\ InCone(verb.state, p)
              => HeadHas(verb.state, p, disk[p])
        BY <1>1, <4>1, <4>2, <4>4 DEF RowsTrue
      <4>6. p \notin blind /\ index[p] # None /\ ~InCone(verb.state, p) => disk[p] = None
        BY <1>1, <1>4, <2>1, <4>1 DEF VerbShape, RowsTrue, CopyTrue, HeadTrue
      <4>. QED  BY <1>2, <2>1, <2>2, <2>3, <4>3, <4>5, <4>6 DEF CopyTrue, HeadTrue
    <3>. QED  BY <3>1, <3>2
  <2>. QED  BY <1>3, <2>4, <2>5, <2>6, <2>7 DEF CopyTrue, VerbTrue
<1>. QED  BY <1>3, <1>5, <1>6 DEF StatusInv

(* The index is saved: its rows are about the head.                        *)
LEMMA SaveIndexStatus ==
    ASSUME Copy!CopyAssumption, CopyInv, StatusInv, Copy!SaveIndex
    PROVE  StatusInv'
<1>. SUFFICES ASSUME ~rebuilt, verb.op # "restore" PROVE StatusInv'
  BY DEF StatusInv, Copy!SaveIndex
<1>1. /\ verb \in Pipelines /\ verb.stage \in CopyStages /\ verb.stage = "index" /\ state # None
  BY InFlight DEF Copy!SaveIndex, CopyStages
<1>2. /\ UNCHANGED <<hist, tombstones, state, disk>>
      /\ index' = verb.rows /\ verb' = Copy!Idle
      /\ torn' = (torn \ Copy!Changed) \cup Copy!Outside /\ blind' = blind \cup Copy!Outside
      /\ mine \ Copy!Changed \subseteq mine'
  BY DEF Copy!SaveIndex, Copy!server
<1>3. verb'.stage \notin CopyStages
  BY <1>2 DEF Copy!Idle, CopyStages
<1>4. state = verb.state /\ verb.adds = {} /\ verb.dels = {}
  BY <1>1 DEF StatusInv, VerbShape
<1>5. ASSUME NEW p \in CheckoutPaths
      PROVE  CopyTrue(p)'
  <2>1. CopyTrue(p) /\ RowsTrue(p)
    BY <1>1 DEF StatusInv, VerbTrue
  <2>2. /\ InCone(state, p)' = InCone(state, p)
        /\ CleanAt(index, p)' = CleanAt(verb.rows, p) /\ BlobAt(index, p)' = BlobAt(verb.rows, p)
        /\ \A c: HeadHas(state, p, c)' = HeadHas(state, p, c)
    BY <1>2 DEF InCone, CleanAt, BlobAt, HeadHas, Copy!TreeOf
  <2>3. CASE verb.rows[p] = index[p]
    <3>1. p \notin Copy!Changed /\ p \notin Copy!Outside
      BY <2>3 DEF Copy!Changed, Copy!Outside
    <3>2. (p \in torn' <=> p \in torn) /\ (p \in blind' <=> p \in blind) /\ (p \in mine => p \in mine')
      BY <1>2, <3>1
    <3>3. index'[p] = index[p] /\ disk'[p] = disk[p]
      BY <1>2, <2>3
    <3>4. \A i \in DOMAIN hist: Copy!TreeOf(i)' = Copy!TreeOf(i)
      BY <1>2 DEF Copy!TreeOf
    <3>. QED  BY <1>1, <1>2, <2>1, <3>2, <3>3, <3>4, CopyKeeps
  <2>4. CASE verb.rows[p] # index[p]
    <3>1. /\ p \in Copy!Changed
          /\ p \in Copy!Outside <=> verb.rows[p] # None /\ ~InCone(state, p)
      BY <2>4 DEF Copy!Changed, Copy!Outside, InCone
    <3>2. /\ p \in torn' <=> p \in Copy!Outside
          /\ p \notin blind' => p \notin blind /\ p \notin Copy!Outside
      BY <1>2, <3>1
    <3>3. /\ InCone(state, p) => HeadHas(state, p, BlobAt(verb.rows, p))
          /\ verb.rows[p] # None /\ p \in state.conflicted => verb.rows[p].blob \in CheckoutMarkers
          /\ p \notin blind => disk[p] = BlobAt(verb.rows, p)
      BY <1>1, <1>4, <2>1, <2>4 DEF RowsTrue
    <3>4. /\ verb.rows[p] # None => verb.rows[p].blob # None
          /\ verb.rows[p] # None => BlobAt(verb.rows, p) = verb.rows[p].blob
          /\ verb.rows[p] = None => BlobAt(verb.rows, p) = None
      <4>1. verb.rows \in IndexRows
        BY <1>1 DEF Pipelines
      <4>. QED  BY <4>1, RowIs DEF BlobAt
    <3>5. p \notin blind => CleanAt(verb.rows, p)
      BY <3>3, <3>4 DEF CleanAt
    <3>6. HeadTrue(p)'
      BY <1>2, <2>2, <3>1, <3>2, <3>3, <3>4, <3>5 DEF HeadTrue
    <3>7. MarksTrue(state, p)'
      <4>1. p \in state.conflicted => InCone(state, p)
        BY <2>1 DEF CopyTrue, MarksTrue
      <4>. QED  BY <1>2, <2>2, <3>2, <3>3, <3>4, <4>1 DEF MarksTrue
    <3>. QED  BY <3>6, <3>7 DEF CopyTrue
  <2>. QED  BY <2>3, <2>4
<1>. QED  BY <1>3, <1>5 DEF StatusInv

LEMMA StatusInit ==
    ASSUME Copy!Init
    PROVE  StatusInv
BY DEF Copy!Init, StatusInv

(* A land: its changeset is on main, then the copy follows or stays.       *)
LEMMA LandStatus ==
    ASSUME Copy!CopyAssumption, CopyInv, StatusInv,
           \/ Copy!LandContained \/ \E marker \in CheckoutMarkers: Copy!LandRebased(marker)
           \/ Copy!LandFollow
    PROVE  StatusInv'
<1>1. UNCHANGED <<tombstones, index, disk, mine, blind, torn, rebuilt>>
  BY DEF Copy!LandContained, Copy!LandRebased, Copy!LandFollow, Copy!server, Copy!ghosts
<1>2. CASE Copy!LandContained \/ \E marker \in CheckoutMarkers: Copy!LandRebased(marker)
  <2>1. /\ state # None /\ state' = state /\ verb'.stage = "landed"
        /\ \/ UNCHANGED hist
           \/ \E marker \in CheckoutMarkers:
                hist' = Append(hist, [tree |-> Copy!LandedTree(marker), parent |-> head])
    <3>1. CASE Copy!LandContained
      BY <3>1 DEF Copy!LandContained, Copy!LandSettled, Copy!Begins, Copy!server
    <3>2. ASSUME NEW marker \in CheckoutMarkers, Copy!LandRebased(marker)
          PROVE  <2>1
      <4>1. /\ state # None /\ state' = state /\ verb'.stage = "landed"
            /\ hist' = Append(hist, [tree |-> Copy!LandedTree(marker), parent |-> head])
        BY <3>2 DEF Copy!LandRebased, Copy!LandSettled, Copy!Begins
      <4>. QED  BY <4>1
    <3>. QED  BY <1>2, <3>1, <3>2
  <2>2. state.head \in DOMAIN hist /\ head \in DOMAIN hist
    BY <2>1 DEF CopyInv, LocalTypes, CopyStates, ServerTypes
  <2>3. \A marker \in CheckoutMarkers: Copy!LandedTree(marker) \in Copy!Trees
    <3>1. Copy!TreeOf(state.head) \in Copy!Trees /\ Copy!TreeOf(head) \in Copy!Trees
      BY <2>2, TreesAre
    <3>2. CheckoutMarkers \subseteq CheckoutBlobs
      BY DEF Copy!CopyAssumption
    <3>. QED  BY <3>1, <3>2 DEF Copy!LandedTree, Copy!Trees
  <2>4. \/ UNCHANGED hist
        \/ \E t \in Copy!Trees, i \in DOMAIN hist: hist' = Append(hist, [tree |-> t, parent |-> i])
    BY <2>1, <2>2, <2>3
  <2>5. verb'.stage \notin CopyStages
    BY <2>1 DEF CopyStages
  <2>. QED  BY <1>1, <2>1, <2>4, <2>5, EndStatus
<1>3. CASE Copy!LandFollow
  <2>1. verb \in Settled /\ state # None /\ UNCHANGED hist
    <3>1. verb # Copy!Idle /\ verb \notin Pipelines
      BY <1>3 DEF Copy!LandFollow, Copy!Idle, Pipelines, CopyStages
    <3>. QED  BY <1>3, <3>1 DEF Copy!LandFollow, Copy!server, CopyInv, LocalTypes, MineInv
  <2>2. verb.to \in DOMAIN hist
    BY <2>1 DEF Settled
  <2>3. CASE verb' = Copy!apply_tree_diff("land", state.head, verb.to, FALSE) /\ UNCHANGED state
    <3>1. CASE rebuilt
      BY <1>1, <3>1 DEF StatusInv
    <3>2. CASE ~rebuilt
      <4>1. "land" \in {"sync", "land"} /\ FALSE \in BOOLEAN
        OBVIOUS
      <4>. QED  BY <1>1, <2>1, <2>2, <2>3, <3>2, <4>1, DiffStatus
    <3>. QED  BY <3>1, <3>2
  <2>4. CASE verb' = Copy!Idle /\ state' = [state EXCEPT !.conflicted = Copy!stale_marks]
    <3>1. verb'.stage \notin CopyStages
      BY <2>4 DEF Copy!Idle, CopyStages
    <3>. QED  BY <1>1, <2>1, <2>4, <3>1, EndStatus
  <2>. QED  BY <1>3, <2>3, <2>4 DEF Copy!LandFollow, Copy!FollowLand
<1>. QED  BY <1>2, <1>3

LEMMA StatusNext ==
    ASSUME Copy!CopyAssumption, CopyInv, StatusInv, [Copy!Next]_Copy!vars
    PROVE  StatusInv'
<1>1. ASSUME \/ \E p \in CheckoutPaths, c \in CheckoutBlobs \cup {None}: Copy!UpstreamLands(p, c)
             \/ \E c \in CheckoutBlobs: Copy!Redact(c)
             \/ Copy!LandAdopted \/ Copy!Snapshot \/ UNCHANGED Copy!vars
      PROVE  StatusInv'
  <2>1. /\ UNCHANGED <<state, index, disk, verb, mine, blind, torn, rebuilt>>
        /\ tombstones \subseteq tombstones'
    BY <1>1 DEF Copy!UpstreamLands, Copy!Redact, Copy!LandAdopted, Copy!Snapshot, Copy!local,
                Copy!ghosts, Copy!vars, Copy!server
  <2>2. \/ UNCHANGED hist
        \/ \E t \in Copy!Trees, i \in DOMAIN hist: hist' = Append(hist, [tree |-> t, parent |-> i])
    <3>1. ASSUME NEW p \in CheckoutPaths, NEW c \in CheckoutBlobs \cup {None}, Copy!UpstreamLands(p, c)
          PROVE  \E t \in Copy!Trees, i \in DOMAIN hist: hist' = Append(hist, [tree |-> t, parent |-> i])
      <4>1. head \in DOMAIN hist
        BY DEF CopyInv, ServerTypes
      <4>2. [Copy!TreeOf(head) EXCEPT ![p] = c] \in Copy!Trees
        BY <4>1, TreesAre DEF Copy!Trees
      <4>. QED  BY <3>1, <4>1, <4>2 DEF Copy!UpstreamLands
    <3>2. CASE \E c \in CheckoutBlobs: Copy!Redact(c)
      BY <3>2 DEF Copy!Redact
    <3>3. CASE Copy!LandAdopted \/ Copy!Snapshot \/ UNCHANGED Copy!vars
      BY <3>3 DEF Copy!LandAdopted, Copy!Snapshot, Copy!vars, Copy!server
    <3>. QED  BY <1>1, <3>1, <3>2, <3>3
  <2>. QED  BY <2>1, <2>2, StatusStands
<1>2. CASE Copy!GiveUp \/ Copy!Die
  <2>1. /\ UNCHANGED <<hist, tombstones, index, disk, mine, blind, torn, rebuilt>>
        /\ state' \in {state, [state EXCEPT !.conflicted = Copy!stale_marks]}
        /\ verb' = Copy!Idle
    BY <1>2 DEF Copy!GiveUp, Copy!Die, Copy!server, Copy!ghosts
  <2>2. state # None
    BY <1>2 DEF Copy!GiveUp, Copy!Die, Copy!Idle, CopyInv, MineInv
  <2>3. verb'.stage \notin CopyStages
    BY <2>1 DEF Copy!Idle, CopyStages
  <2>. QED  BY <2>1, <2>2, <2>3, EndStatus
<1>3. CASE Copy!DoctorRebuild
  BY <1>3 DEF Copy!DoctorRebuild, StatusInv
<1>4. ASSUME NEW force \in BOOLEAN, Copy!SyncBegin(force)
      PROVE  StatusInv'
  <2>1. /\ UNCHANGED <<hist, tombstones, state, index, disk, mine, blind, torn, rebuilt>>
        /\ verb' = Copy!apply_tree_diff("sync", state.head, head, force)
        /\ state # None
    BY <1>4 DEF Copy!SyncBegin, Copy!Begins, Copy!server, Copy!ghosts
  <2>2. head \in DOMAIN hist /\ "sync" \in {"sync", "land"}
    BY DEF CopyInv, ServerTypes
  <2>3. CASE rebuilt
    BY <2>1, <2>3 DEF StatusInv
  <2>4. CASE ~rebuilt
    BY <2>1, <2>2, <2>4, DiffStatus
  <2>. QED  BY <2>3, <2>4
<1>. QED
  BY <1>1, <1>2, <1>3, <1>4, EditStatus, CloneStatus, RestoreStatus, AddStatus, RemoveStatus,
     CommitStatus, LandStatus, FetchedStatus, WriteStatus, DeleteStatus, UploadStatus, StatStatus,
     SaveStateStatus, SaveIndexStatus
  DEF Copy!Next

(* What the invariant says between verbs is that status is truthful.       *)
LEMMA TruthfulStatus ==
    ASSUME Copy!CopyAssumption, CopyInv, StatusInv
    PROVE  Copy!StatusTruthful
<1>. SUFFICES ASSUME state # None, ~rebuilt, NEW p \in CheckoutPaths \ blind
              PROVE  /\ Copy!under_sparse(state.sparse, p) /\ p \notin Copy!Dirty
                          => \/ disk[p] = Copy!TreeOf(state.head)[p]
                             \/ Copy!TreeOf(state.head)[p] \in tombstones
                     /\ p \in Copy!Dirty => p \in mine \cup torn
                     /\ p \in state.conflicted /\ index[p] # None /\ p \notin Copy!Dirty
                          => disk[p] \in CheckoutMarkers
  BY DEF Copy!StatusTruthful
<1>1. CopyTrue(p)
  BY DEF StatusInv
<1>2. p \in Copy!Dirty <=> ~CleanAt(index, p)
  <2>1. index \in IndexRows
    BY DEF CopyInv, LocalTypes
  <2>. QED
    BY <2>1, RowIs DEF Copy!Dirty, Copy!modified, Copy!deleted, Copy!untracked, CleanAt
<1>. QED  BY <1>1, <1>2 DEF CopyTrue, HeadTrue, MarksTrue, InCone, HeadHas

-----------------------------------------------------------------------------
(* The land's rebase.                                                      *)

(* The least number of a set: what induction on numbers rests on here.     *)
LEMMA LeastNumber ==
    ASSUME NEW T, T \subseteq Nat, T # {}
    PROVE  \E n \in T: \A m \in T: n <= m
<1>. DEFINE R == OpToRel(<, Nat)
<1>1. IsWellFoundedOn(R, Nat)
  BY NatLessThanWellFounded
<1>2. \A m, n \in Nat: <<m, n>> \in R <=> m < n
  BY DEF OpToRel
<1>. HIDE DEF R
<1>3. PICK n \in T: \A m \in T: ~ (<<m, n>> \in R)
  BY <1>1, WFMin
<1>4. \A m \in T: ~ (m < n)
  BY <1>2, <1>3
<1>5. \A m \in T: n <= m
  BY <1>4
<1>. QED  BY <1>5

(* Parents are there, and no changeset is its own ancestor: the generation *)
(* of a row does not say so (a land can leave it too low), a rank does.    *)
Ranked(rs) ==
    \E rank \in [DOMAIN rs -> Nat]:
        \A i \in DOMAIN rs: \A k \in ParentsOf(i): rank[k] < rank[i]
GraphOk(rs) == (\A i \in DOMAIN rs: ParentsOf(i) \subseteq DOMAIN rs) /\ Ranked(rs)

(* What is reachable, without recursion: what every set has that has i and *)
(* the parents of its members.                                             *)
UpClosed(S) == \A k \in S: ParentsOf(k) \subseteq S
Reached(rs, i) == {j \in DOMAIN rs: \A S \in SUBSET DOMAIN rs: i \in S /\ UpClosed(S) => j \in S}

LEMMA ReachedIs ==
    ASSUME NEW rs, \A i \in DOMAIN rs: ParentsOf(i) \subseteq DOMAIN rs, NEW i \in DOMAIN rs
    PROVE  /\ i \in Reached(rs, i) /\ Reached(rs, i) \subseteq DOMAIN rs
           /\ UpClosed(Reached(rs, i))
           /\ \A S \in SUBSET DOMAIN rs: i \in S /\ UpClosed(S) => Reached(rs, i) \subseteq S
           /\ Reached(rs, i) = {i} \cup UNION {Reached(rs, k): k \in ParentsOf(i)}
<1>. DEFINE Below == {i} \cup UNION {Reached(rs, k): k \in ParentsOf(i)}
<1>1. i \in Reached(rs, i) /\ Reached(rs, i) \subseteq DOMAIN rs
  BY DEF Reached
<1>2. \A h \in DOMAIN rs: UpClosed(Reached(rs, h))
  BY DEF Reached, UpClosed
<1>3. \A S \in SUBSET DOMAIN rs: i \in S /\ UpClosed(S) => Reached(rs, i) \subseteq S
  BY DEF Reached
<1>4. ASSUME NEW k \in ParentsOf(i)
      PROVE  k \in Reached(rs, k) /\ Reached(rs, k) \subseteq Reached(rs, i)
  <2>1. k \in DOMAIN rs
    OBVIOUS
  <2>2. ASSUME NEW S \in SUBSET DOMAIN rs, i \in S, UpClosed(S)
        PROVE  k \in S
    BY <2>2 DEF UpClosed
  <2>. QED  BY <2>1, <2>2 DEF Reached
<1>5. Below \subseteq Reached(rs, i)
  BY <1>1, <1>4
<1>6. Below \in SUBSET DOMAIN rs
  BY <1>1, <1>5
<1>7. UpClosed(Below)
  <2>1. ASSUME NEW h \in Below
        PROVE  ParentsOf(h) \subseteq Below
    <3>1. CASE h = i
      BY <1>4, <3>1
    <3>2. CASE h # i
      <4>1. PICK k \in ParentsOf(i): h \in Reached(rs, k)
        BY <3>2
      <4>2. ParentsOf(h) \subseteq Reached(rs, k)
        BY <1>2, <4>1 DEF UpClosed
      <4>. QED  BY <4>2
    <3>. QED  BY <3>1, <3>2
  <2>. QED  BY <2>1 DEF UpClosed
<1>8. Reached(rs, i) \subseteq Below
  BY <1>3, <1>6, <1>7
<1>. QED  BY <1>1, <1>2, <1>3, <1>5, <1>8

(* The walk over the parents finds it.                                     *)
LEMMA AncestorsAre ==
    ASSUME NEW rs, GraphOk(rs), NEW i \in DOMAIN rs
    PROVE  Ancestors(rs, i) = Reached(rs, i)
<1>. DEFINE Up(f, j) == {j} \cup UNION {f[k]: k \in ParentsOf(j)}
            Walks(f) == f = [j \in DOMAIN rs |-> {j} \cup UNION {f[k]: k \in ParentsOf(j)}]
            reach == CHOOSE f: Walks(f)
            least == [j \in DOMAIN rs |-> Reached(rs, j)]
<1>1. Ancestors(rs, i) = reach[i]
  BY DEF Ancestors
<1>2. Walks(least)
  <2>1. \A j \in DOMAIN rs: Reached(rs, j) = {j} \cup UNION {least[k]: k \in ParentsOf(j)}
    <3>. SUFFICES ASSUME NEW j \in DOMAIN rs
                  PROVE  Reached(rs, j) = {j} \cup UNION {least[k]: k \in ParentsOf(j)}
      OBVIOUS
    <3>1. \A k \in ParentsOf(j): least[k] = Reached(rs, k)
      BY DEF GraphOk
    <3>2. Reached(rs, j) = {j} \cup UNION {Reached(rs, k): k \in ParentsOf(j)}
      BY ReachedIs DEF GraphOk
    <3>. QED  BY <3>1, <3>2
  <2>. QED  BY <2>1
<1>3. Walks(reach)
  BY <1>2
<1>. HIDE DEF reach
<1>4. \A j \in DOMAIN rs: reach[j] = {j} \cup UNION {reach[k]: k \in ParentsOf(j)}
  BY <1>3
<1>5. PICK rank \in [DOMAIN rs -> Nat]:
        \A j \in DOMAIN rs: \A k \in ParentsOf(j): rank[k] < rank[j]
  BY DEF GraphOk, Ranked
<1>6. \A j \in DOMAIN rs: reach[j] = Reached(rs, j)
  <2>. DEFINE Bad == {j \in DOMAIN rs: reach[j] # Reached(rs, j)}
              T == {rank[j]: j \in Bad}
  <2>. SUFFICES ASSUME Bad # {} PROVE FALSE
    OBVIOUS
  <2>1. T \subseteq Nat /\ T # {}
    OBVIOUS
  <2>2. PICK n \in T: \A m \in T: n <= m
    BY <2>1, LeastNumber
  <2>3. PICK j \in Bad: n = rank[j]
    BY <2>2
  <2>4. \A k \in ParentsOf(j): k \in DOMAIN rs /\ reach[k] = Reached(rs, k)
    BY <1>5, <2>2, <2>3 DEF GraphOk
  <2>5. Reached(rs, j) = {j} \cup UNION {Reached(rs, k): k \in ParentsOf(j)}
    BY ReachedIs DEF GraphOk
  <2>6. {reach[k]: k \in ParentsOf(j)} = {Reached(rs, k): k \in ParentsOf(j)}
    BY <2>4
  <2>7. j \in DOMAIN rs /\ reach[j] # Reached(rs, j)
    BY <2>3
  <2>. HIDE DEF Bad
  <2>. QED  BY <1>4, <2>5, <2>6, <2>7
<1>. QED  BY <1>1, <1>6

LEMMA ReachedOf ==
    ASSUME NEW rs, \A i \in DOMAIN rs: ParentsOf(i) \subseteq DOMAIN rs, NEW i \in DOMAIN rs
    PROVE  /\ \A j \in Reached(rs, i): j \in DOMAIN rs /\ Reached(rs, j) \subseteq Reached(rs, i)
           /\ \A k \in ParentsOf(i): k \in Reached(rs, i) /\ Reached(rs, k) \subseteq Reached(rs, i)
<1>1. ASSUME NEW j \in Reached(rs, i)
      PROVE  j \in DOMAIN rs /\ Reached(rs, j) \subseteq Reached(rs, i)
  <2>1. Reached(rs, i) \subseteq DOMAIN rs /\ UpClosed(Reached(rs, i))
    BY ReachedIs
  <2>. QED  BY <2>1, ReachedIs
<1>2. ASSUME NEW k \in ParentsOf(i)
      PROVE  k \in Reached(rs, i)
  BY ReachedIs DEF UpClosed
<1>. QED  BY <1>1, <1>2

(* New changesets do not change what is reachable from an old one.         *)
LEMMA ReachedStays ==
    ASSUME NEW rs, NEW r2, DOMAIN rs \subseteq DOMAIN r2,
           \A i \in DOMAIN rs: ParentsOf(i) \subseteq DOMAIN rs,
           \A i \in DOMAIN r2: ParentsOf(i) \subseteq DOMAIN r2, NEW i \in DOMAIN rs
    PROVE  Reached(r2, i) = Reached(rs, i)
<1>1. Reached(rs, i) \subseteq DOMAIN rs /\ i \in Reached(rs, i) /\ UpClosed(Reached(rs, i))
  BY ReachedIs
<1>2. Reached(r2, i) \subseteq Reached(rs, i)
  BY <1>1, ReachedIs
<1>3. i \in Reached(r2, i) /\ UpClosed(Reached(r2, i))
  BY ReachedIs
<1>. QED  BY <1>1, <1>2, <1>3, ReachedIs

(* Rows as creates, imports and rebases make them.                         *)
IdOk(rs, i) ==
    /\ i = [parents |-> i.parents, stamp |-> i.stamp, changes |-> i.changes, reps |-> i.reps]
    /\ i.parents \in Seq(DOMAIN rs)
    /\ i.changes # NoChange \/ i.reps # NoReps
RowsOk(rs) == IsFiniteSet(DOMAIN rs) /\ Ranked(rs) /\ \A i \in DOMAIN rs: IdOk(rs, i)

LEMMA RowsGraph ==
    ASSUME NEW rs, RowsOk(rs)
    PROVE  /\ GraphOk(rs)
           /\ \A i \in DOMAIN rs: ParentsOf(i) \subseteq DOMAIN rs
           /\ \A i \in DOMAIN rs: i.parents # <<>> => i.parents[1] \in ParentsOf(i)
           /\ \A i \in DOMAIN rs: Len(i.parents) = 1 => i.parents = <<i.parents[1]>>
<1>. SUFFICES ASSUME NEW i \in DOMAIN rs
              PROVE  /\ ParentsOf(i) \subseteq DOMAIN rs
                     /\ i.parents # <<>> => i.parents[1] \in ParentsOf(i)
                     /\ Len(i.parents) = 1 => i.parents = <<i.parents[1]>>
  BY DEF GraphOk, RowsOk
<1>1. i.parents \in Seq(DOMAIN rs)
  BY DEF RowsOk, IdOk
<1>. QED  BY <1>1 DEF ParentsOf

(* A changeset on none or one of them.                                     *)
NewOk(rs, i) ==
    /\ i \notin DOMAIN rs
    /\ i = [parents |-> i.parents, stamp |-> i.stamp, changes |-> i.changes, reps |-> i.reps]
    /\ i.parents = <<>> \/ \E k \in DOMAIN rs: i.parents = <<k>>
    /\ i.changes # NoChange \/ i.reps # NoReps

LEMMA WithOk ==
    ASSUME NEW rs, RowsOk(rs), NEW i, NewOk(rs, i), NEW row
    PROVE  /\ RowsOk(With(rs, i, row))
           /\ DOMAIN With(rs, i, row) = DOMAIN rs \cup {i}
           /\ With(rs, i, row)[i] = row
           /\ \A j \in DOMAIN rs: With(rs, i, row)[j] = rs[j]
<1>. DEFINE r2 == With(rs, i, row)
<1>. USE DEF NewOk
<1>1. /\ DOMAIN r2 = DOMAIN rs \cup {i}
      /\ r2[i] = row
      /\ \A j \in DOMAIN rs: r2[j] = rs[j]
  BY DEF With
<1>. HIDE DEF r2
<1>2. IsFiniteSet(DOMAIN r2)
  BY <1>1, FS_AddElement DEF RowsOk
<1>3. ParentsOf(i) \subseteq DOMAIN rs /\ i.parents \in Seq(DOMAIN rs)
  <2>1. CASE i.parents = <<>>
    BY <2>1 DEF ParentsOf
  <2>2. CASE \E k \in DOMAIN rs: i.parents = <<k>>
    <3>1. PICK k \in DOMAIN rs: i.parents = <<k>>
      BY <2>2
    <3>2. <<k>> \in Seq(DOMAIN rs) /\ DOMAIN <<k>> = {1} /\ <<k>>[1] = k
      OBVIOUS
    <3>. QED  BY <3>1, <3>2 DEF ParentsOf
  <2>. QED  BY <2>1, <2>2
<1>4. \A j \in DOMAIN r2: IdOk(r2, j)
  <2>. SUFFICES ASSUME NEW j \in DOMAIN r2 PROVE IdOk(r2, j)
    OBVIOUS
  <2>1. j.parents \in Seq(DOMAIN rs)
    BY <1>1, <1>3 DEF RowsOk, IdOk
  <2>2. j.parents \in Seq(DOMAIN r2)
    BY <1>1, <2>1
  <2>. QED  BY <1>1, <2>2 DEF RowsOk, IdOk
<1>5. PICK rank \in [DOMAIN rs -> Nat]:
        \A j \in DOMAIN rs: \A k \in ParentsOf(j): rank[k] < rank[j]
  BY DEF RowsOk, Ranked
<1>6. PICK top \in Nat: \A k \in ParentsOf(i): rank[k] < top
  <2>1. CASE i.parents = <<>>
    BY <2>1 DEF ParentsOf
  <2>2. CASE \E k \in DOMAIN rs: i.parents = <<k>>
    <3>1. PICK k \in DOMAIN rs: i.parents = <<k>>
      BY <2>2
    <3>2. ParentsOf(i) = {k}
      BY <3>1 DEF ParentsOf
    <3>3. rank[k] + 1 \in Nat /\ rank[k] < rank[k] + 1
      OBVIOUS
    <3>. QED  BY <3>2, <3>3
  <2>. QED  BY <2>1, <2>2
<1>7. Ranked(r2)
  <2>. DEFINE up == [j \in DOMAIN r2 |-> IF j = i THEN top ELSE rank[j]]
  <2>1. up \in [DOMAIN r2 -> Nat]
    BY <1>1
  <2>2. ASSUME NEW j \in DOMAIN r2, NEW k \in ParentsOf(j)
        PROVE  up[k] < up[j]
    <3>1. k \in DOMAIN rs /\ k # i
      BY <1>1, <1>3, RowsGraph
    <3>2. up[k] = rank[k]
      BY <1>1, <3>1
    <3>. QED  BY <1>1, <1>5, <1>6, <3>1, <3>2
  <2>. QED  BY <2>1, <2>2 DEF Ranked
<1>. QED  BY <1>1, <1>2, <1>4, <1>7 DEF RowsOk, r2

(* What the merge does with one path: the side that changed wins, and what *)
(* it could not resolve it marks.                                          *)
LEMMA PathMerged ==
    ASSUME NEW p, NEW b, NEW o, NEW t
    PROVE  /\ o = b => MergePath(p, b, o, t).file = t /\ MergePath(p, b, o, t).rep = None
           /\ t = b => MergePath(p, b, o, t).file = o
           /\ MergePath(p, b, o, t).rep # None =>
                /\ MergePath(p, b, o, t).file.blob = Marker(p, MergePath(p, b, o, t).rep)
                /\ MergePath(p, b, o, t).rep.base \notin MergePath(p, b, o, t).rep.sides
<1>. DEFINE lines == MergeLines(b.blob, o.blob, t.blob)
            take(g) == [file |-> g, rep |-> None, inputs |-> {}]
            merged == [file   |-> File(lines, ResolveExec(b, o, t)),
                       rep    |-> None,
                       inputs |-> {b.blob, o.blob, t.blob}]
            conflict == [file   |-> MarkerFile(p, b, o, t),
                         rep    |-> ContentRep(b, o, t),
                         inputs |-> RepBlobs(ContentRep(b, o, t))]
<1>1. o = t => MergePath(p, b, o, t) = take(o)
  BY DEF MergePath
<1>2. o = b /\ o # t => MergePath(p, b, o, t) = take(t)
  BY DEF MergePath
<1>3. t = b /\ o # t /\ o # b => MergePath(p, b, o, t) = take(o)
  BY DEF MergePath
<1>4. o # t /\ o # b /\ t # b =>
        MergePath(p, b, o, t) = merged \/ MergePath(p, b, o, t) = conflict
  BY DEF MergePath
<1>5. conflict.file.blob = Marker(p, conflict.rep)
  BY DEF MarkerFile, File
<1>6. o # b /\ t # b => conflict.rep.base \notin conflict.rep.sides
  BY DEF ContentRep
<1>7. merged.rep = None
  OBVIOUS
<1>8. \A g: take(g).file = g /\ take(g).rep = None
  OBVIOUS
<1>. HIDE DEF take, merged, conflict
<1>. QED  BY <1>1, <1>2, <1>3, <1>4, <1>5, <1>6, <1>7, <1>8

(* A conflict is recorded in the row that the changeset has, and main or   *)
(* the tip of the open land has the changesets with conflicts.             *)
Marked(rs, i) ==
    \A p \in Paths: i.reps[p] # None =>
        /\ rs[i].tree[p].blob = Marker(p, i.reps[p])
        /\ i.reps[p].base \notin i.reps[p].sides
RecordedOn(rs, tip) ==
    \A i \in DOMAIN rs: Marked(rs, i) /\ (i.reps # NoReps => i \in Reached(rs, tip))

GraphInv == RowsOk(rows) /\ main \in DOMAIN rows /\ RecordedOn(rows, main)

(* What a settled land says, of rows and a main.                           *)
LandOk(rs, tip, land) ==
    /\ land.landed \in Reached(rs, tip)
    /\ land.base \in Reached(rs, land.landed)
    /\ land.made <= Cardinality(Reached(rs, land.landed) \ Reached(rs, land.base))
    /\ land.state = "conflicted" <=> land.landed.reps # NoReps
LandsInv ==
    /\ lands \in Seq({lands[n]: n \in DOMAIN lands})
    /\ \A n \in DOMAIN lands: LandOk(rows, main, lands[n])

(* The changesets that the land has to bring to main.                      *)
Own == Reached(rows, txn.head) \ txn.inMain

(* What the walk leaves behind it: a chain of first parents from the head  *)
(* to the cursor, of which main has nothing.                               *)
TxnShape ==
    txn = [stage |-> txn.stage, head |-> txn.head, record |-> txn.record,
           inMain |-> txn.inMain, cursor |-> txn.cursor, chain |-> txn.chain,
           tip |-> txn.tip, tipGen |-> txn.tipGen, tipTree |-> txn.tipTree,
           rows |-> txn.rows, made |-> txn.made]
ChainInv ==
    /\ txn.inMain = Reached(rows, main)
    /\ txn.head \in DOMAIN rows /\ txn.cursor \in DOMAIN rows
    /\ txn.chain \in Seq(Own)
    /\ txn.chain # <<>> => txn.chain[Len(txn.chain)] = txn.head
    /\ \A n \in 1..(Len(txn.chain) - 1): txn.chain[n + 1].parents[1] = txn.chain[n]
    /\ \A n \in DOMAIN txn.chain: txn.chain[n].parents # <<>>
WalkInv ==
    txn.stage = "walk" =>
        /\ txn.rows = rows /\ txn.tip = main /\ txn.made = 0
        /\ txn.cursor = IF txn.chain = <<>> THEN txn.head ELSE txn.chain[1].parents[1]

(* What the rebase has on main's tip: a line, of as many new changesets as *)
(* it counts at least, with the conflicts it recorded.                     *)
TipInv ==
    /\ RowsOk(txn.rows) /\ DOMAIN rows \subseteq DOMAIN txn.rows
    /\ \A i \in DOMAIN rows: txn.rows[i] = rows[i]
    /\ txn.tip \in DOMAIN txn.rows /\ main \in Reached(txn.rows, txn.tip)
    /\ txn.tipTree = txn.rows[txn.tip].tree
    /\ RecordedOn(txn.rows, txn.tip)
    /\ \A i \in Reached(txn.rows, txn.tip) \ txn.inMain: Len(i.parents) = 1
    /\ txn.made \in Nat
    /\ txn.made <= Cardinality(Reached(txn.rows, txn.tip) \ txn.inMain)

TxnInv == txn # None => TxnShape /\ ChainInv /\ WalkInv /\ TipInv

(* On main itself, a chain of exact changes is adopted node by node.       *)
Exact ==
    /\ txn.cursor = main
    /\ \A i \in Own: Len(i.parents) = 1 /\ i.changes = Delta(ParentTree(rows, i), rows[i].tree)
ForwardInv ==
    txn # None /\ txn.stage = "rebase" /\ Exact =>
        /\ txn.rows = rows
        /\ txn.tip = IF txn.chain = <<>> THEN txn.head ELSE txn.chain[1].parents[1]

RebaseInv == GraphInv /\ LandsInv /\ TxnInv /\ ForwardInv

(* While the chain is merged onto the tip, what main left as it forked is  *)
(* as the chain has it so far, and what the chain leaves alone as on main. *)
BaseTree ==
    IF txn.chain = <<>> THEN rows[txn.head].tree ELSE ParentTree(rows, txn.chain[1])
Untouched(p) == \A i \in Own: rows[i].tree[p] = ParentTree(rows, i)[p]
SidesInv ==
    txn # None /\ txn.stage = "rebase" =>
        \A p \in Paths:
          /\ rows[main].tree[p] = rows[txn.cursor].tree[p] => txn.tipTree[p] = BaseTree[p]
          /\ Untouched(p) => txn.tipTree[p] = rows[main].tree[p]

LEMMA LandStays ==
    ASSUME NEW rs, RowsOk(rs), NEW r2, RowsOk(r2), DOMAIN rs \subseteq DOMAIN r2,
           NEW m \in DOMAIN rs, NEW m2 \in DOMAIN r2, m \in Reached(r2, m2),
           NEW land, LandOk(rs, m, land)
    PROVE  LandOk(r2, m2, land)
<1>1. \A i \in DOMAIN rs: Reached(r2, i) = Reached(rs, i)
  BY RowsGraph, ReachedStays
<1>2. Reached(r2, m) \subseteq Reached(r2, m2)
  BY RowsGraph, ReachedOf
<1>3. land.landed \in DOMAIN rs /\ land.landed \in Reached(rs, m)
  BY RowsGraph, ReachedOf DEF LandOk
<1>4. land.base \in DOMAIN rs
  BY <1>3, RowsGraph, ReachedOf DEF LandOk
<1>. QED  BY <1>1, <1>2, <1>3, <1>4 DEF LandOk

LEMMA RecordedStays ==
    ASSUME NEW rs, RowsOk(rs), NEW r2, RowsOk(r2), DOMAIN rs \subseteq DOMAIN r2,
           \A j \in DOMAIN rs: r2[j] = rs[j],
           NEW m \in DOMAIN rs, NEW m2 \in DOMAIN r2, m \in Reached(r2, m2), RecordedOn(rs, m),
           \A j \in DOMAIN r2 \ DOMAIN rs:
               Marked(r2, j) /\ (j.reps # NoReps => j \in Reached(r2, m2))
    PROVE  RecordedOn(r2, m2)
<1>1. Reached(r2, m) = Reached(rs, m) /\ Reached(r2, m) \subseteq Reached(r2, m2)
  BY RowsGraph, ReachedStays, ReachedOf
<1>2. ASSUME NEW j \in DOMAIN rs
      PROVE  Marked(r2, j) /\ (j.reps # NoReps => j \in Reached(r2, m2))
  BY <1>1, <1>2 DEF RecordedOn, Marked
<1>. QED  BY <1>2 DEF RecordedOn

LEMMA Appended ==
    ASSUME NEW s, NEW e, s \in Seq({s[n]: n \in DOMAIN s})
    PROVE  /\ Append(s, e) \in Seq({Append(s, e)[n]: n \in DOMAIN Append(s, e)})
           /\ DOMAIN Append(s, e) = 1..(Len(s) + 1) /\ DOMAIN s = 1..Len(s) /\ Len(s) \in Nat
           /\ \A n \in DOMAIN s: Append(s, e)[n] = s[n]
           /\ Append(s, e)[Len(s) + 1] = e
<1>. DEFINE S == {s[n]: n \in DOMAIN s} \cup {e}
            t == Append(s, e)
<1>1. s \in Seq(S) /\ e \in S
  OBVIOUS
<1>. HIDE DEF S
<1>2. t \in Seq(S) /\ Len(t) = Len(s) + 1
  BY <1>1
<1>3. /\ DOMAIN t = 1..(Len(s) + 1) /\ DOMAIN s = 1..Len(s) /\ Len(s) \in Nat
      /\ \A n \in DOMAIN s: t[n] = s[n]
      /\ t[Len(s) + 1] = e
  BY <1>1
<1>4. t \in Seq({t[n]: n \in DOMAIN t})
  <2>. HIDE DEF t
  <2>1. Len(t) \in Nat /\ DOMAIN t = 1..Len(t) /\ t = [n \in DOMAIN t |-> t[n]]
    BY <1>2
  <2>2. t \in [1..Len(t) -> {t[n]: n \in DOMAIN t}]
    BY <2>1
  <2>. QED  BY <2>1, <2>2
<1>. QED  BY <1>3, <1>4

LEMMA RebaseInit ==
    ASSUME Init
    PROVE  RebaseInv
<1>1. PICK s \in Seeds: rows = s.rows /\ main = s.main
  BY DEF Init
<1>2. /\ IsFiniteSet(DOMAIN rows) /\ main \in DOMAIN rows
      /\ \A i \in DOMAIN rows:
           /\ i = [parents |-> i.parents, stamp |-> i.stamp, changes |-> i.changes,
                   reps |-> NoReps]
           /\ i.parents \in Seq(DOMAIN rows)
           /\ i.changes # NoChange
           /\ rows[i].gen \in Nat
           /\ \A k \in ParentsOf(i): rows[k].gen < rows[i].gen
  BY <1>1, InputAssumption
<1>3. Ranked(rows)
  <2>. DEFINE rank == [i \in DOMAIN rows |-> rows[i].gen]
  <2>1. rank \in [DOMAIN rows -> Nat]
    BY <1>2
  <2>2. ASSUME NEW i \in DOMAIN rows, NEW k \in ParentsOf(i)
        PROVE  rank[k] < rank[i]
    <3>1. k \in DOMAIN rows
      <4>1. i.parents \in Seq(DOMAIN rows)
        BY <1>2
      <4>. QED  BY <4>1 DEF ParentsOf
    <3>. QED  BY <1>2, <3>1
  <2>. QED  BY <2>1, <2>2 DEF Ranked
<1>4. \A i \in DOMAIN rows: i.reps = NoReps
  BY <1>2
<1>5. \A i \in DOMAIN rows: IdOk(rows, i)
  BY <1>2, <1>4 DEF IdOk
<1>6. RowsOk(rows)
  BY <1>2, <1>3, <1>5 DEF RowsOk
<1>7. RecordedOn(rows, main)
  BY <1>4 DEF RecordedOn, Marked, NoReps
<1>8. LandsInv
  <2>1. lands = <<>>
    BY DEF Init
  <2>. QED  BY <2>1 DEF LandsInv
<1>. QED  BY <1>2, <1>6, <1>7, <1>8 DEF Init, RebaseInv, GraphInv, TxnInv, ForwardInv

(* Outside a land.                                                         *)
LEMMA RebaseStands ==
    ASSUME RebaseInv, UNCHANGED <<rows, main, lands>>, txn' = txn \/ txn' = None
    PROVE  RebaseInv'
<1>1. GraphInv' /\ LandsInv'
  BY DEF RebaseInv, GraphInv, LandsInv
<1>2. CASE txn' = None
  BY <1>1, <1>2 DEF RebaseInv, TxnInv, ForwardInv
<1>3. CASE txn' = txn
  <2>1. TxnInv'
    BY <1>3 DEF RebaseInv, TxnInv, TxnShape, ChainInv, WalkInv, TipInv, Own
  <2>2. ForwardInv'
    BY <1>3 DEF RebaseInv, ForwardInv, Exact, Own
  <2>. QED  BY <1>1, <2>1, <2>2 DEF RebaseInv
<1>. QED  BY <1>2, <1>3

LEMMA CreateStep ==
    ASSUME RebaseInv, NEW parents \in {<<>>} \cup {<<i>> : i \in DOMAIN rows},
           NEW stamp, NEW changes, Create(parents, stamp, changes)
    PROVE  RebaseInv'
<1>. DEFINE id == [parents |-> parents, stamp |-> stamp, changes |-> changes, reps |-> NoReps]
<1>1. PICK row: rows' = With(rows, id, row)
  BY DEF Create
<1>2. id \notin DOMAIN rows /\ id.changes # NoChange /\ id.reps = NoReps
  BY DEF Create
<1>3. /\ UNCHANGED <<main, lands, txn>> /\ txn = None
      /\ id = [parents |-> id.parents, stamp |-> id.stamp, changes |-> id.changes, reps |-> id.reps]
      /\ id.parents = <<>> \/ \E k \in DOMAIN rows: id.parents = <<k>>
  BY DEF Create
<1>. HIDE DEF id
<1>4. RowsOk(rows) /\ main \in DOMAIN rows /\ RecordedOn(rows, main)
  BY DEF RebaseInv, GraphInv
<1>5. /\ RowsOk(rows') /\ DOMAIN rows' = DOMAIN rows \cup {id}
      /\ \A j \in DOMAIN rows: rows'[j] = rows[j]
  <2>1. NewOk(rows, id)
    BY <1>2, <1>3 DEF NewOk
  <2>2. RowsOk(With(rows, id, row))
    BY <1>4, <2>1, WithOk
  <2>3. DOMAIN With(rows, id, row) = DOMAIN rows \cup {id}
    BY <1>4, <2>1, WithOk
  <2>4. \A j \in DOMAIN rows: With(rows, id, row)[j] = rows[j]
    BY <1>2 DEF With
  <2>. QED  BY <1>1, <2>2, <2>3, <2>4
<1>6. main \in Reached(rows', main)
  BY <1>4, <1>5, RowsGraph, ReachedIs
<1>7. Marked(rows', id)
  BY <1>2 DEF Marked, NoReps
<1>8. RecordedOn(rows', main)
  BY <1>2, <1>4, <1>5, <1>6, <1>7, RecordedStays
<1>9. GraphInv'
  BY <1>3, <1>4, <1>5, <1>8 DEF GraphInv
<1>10. LandsInv'
  <2>1. ASSUME NEW n \in DOMAIN lands
        PROVE  LandOk(rows', main, lands[n])
    BY <1>4, <1>5, <1>6, LandStays DEF RebaseInv, LandsInv
  <2>. QED  BY <1>3, <2>1 DEF RebaseInv, LandsInv
<1>. QED  BY <1>3, <1>9, <1>10 DEF RebaseInv, TxnInv, ForwardInv

LEMMA RebaseBegins ==
    ASSUME RebaseInv, NEW hd \in DOMAIN rows, NEW record \in BOOLEAN, Begin(hd, record)
    PROVE  RebaseInv'
<1>. DEFINE open == [stage |-> "walk", head |-> hd, record |-> record,
                     inMain |-> Ancestors(rows, main), cursor |-> hd,
                     chain |-> <<>>, tip |-> main, tipGen |-> rows[main].gen,
                     tipTree |-> rows[main].tree, rows |-> rows, made |-> 0]
<1>1. txn' = open /\ UNCHANGED <<rows, main, lands>>
  BY DEF Begin
<1>2. RowsOk(rows) /\ main \in DOMAIN rows /\ RecordedOn(rows, main)
  BY DEF RebaseInv, GraphInv
<1>3. Ancestors(rows, main) = Reached(rows, main)
  BY <1>2, RowsGraph, AncestorsAre
<1>4. main \in Reached(rows, main)
  BY <1>2, RowsGraph, ReachedIs
<1>5. GraphInv' /\ LandsInv'
  BY <1>1 DEF RebaseInv, GraphInv, LandsInv
<1>6. open.stage = "walk" /\ open.head = hd /\ open.inMain = Reached(rows, main)
      /\ open.cursor = hd /\ open.chain = <<>> /\ open.tip = main /\ open.rows = rows
      /\ open.tipTree = rows[main].tree /\ open.made = 0
  BY <1>3
<1>7. TxnShape'
  BY <1>1 DEF TxnShape
<1>. HIDE DEF open
<1>8. ChainInv'
  <2>1. <<>> \in Seq(Own') /\ Len(<<>>) = 0 /\ DOMAIN <<>> = {}
    OBVIOUS
  <2>. QED  BY <1>1, <1>6, <2>1 DEF ChainInv
<1>9. WalkInv'
  BY <1>1, <1>6 DEF WalkInv
<1>10. TipInv'
  <2>1. Reached(rows, main) \ Reached(rows, main) = {}
    OBVIOUS
  <2>2. 0 <= Cardinality(Reached(rows, main) \ Reached(rows, main))
    BY <2>1, FS_EmptySet
  <2>. QED  BY <1>1, <1>2, <1>4, <1>6, <2>1, <2>2 DEF TipInv
<1>11. ForwardInv'
  BY <1>1, <1>6 DEF ForwardInv
<1>. QED  BY <1>5, <1>7, <1>8, <1>9, <1>10, <1>11 DEF RebaseInv, TxnInv

(* A land that the open transaction settles.                               *)
LEMMA LandSettled ==
    ASSUME LandsInv, NEW land, lands' = Append(lands, land),
           \A n \in DOMAIN lands: LandOk(rows', main', lands[n]), LandOk(rows', main', land)
    PROVE  LandsInv'
<1>1. lands \in Seq({lands[n]: n \in DOMAIN lands})
  BY DEF LandsInv
<1>2. /\ lands' \in Seq({lands'[n]: n \in DOMAIN lands'})
      /\ DOMAIN lands' = 1..(Len(lands) + 1) /\ DOMAIN lands = 1..Len(lands) /\ Len(lands) \in Nat
      /\ \A n \in DOMAIN lands: lands'[n] = lands[n]
      /\ lands'[Len(lands) + 1] = land
  BY <1>1, Appended
<1>3. \A n \in DOMAIN lands': n \in DOMAIN lands \/ n = Len(lands) + 1
  BY <1>2
<1>4. \A n \in DOMAIN lands': LandOk(rows', main', lands'[n])
  BY <1>2, <1>3
<1>. QED  BY <1>2, <1>4 DEF LandsInv

LEMMA ContainedStep ==
    ASSUME RebaseInv, SettleContained
    PROVE  RebaseInv'
<1>1. lands' = Append(lands, Settlement(txn.head, main, main, 0)) /\ txn' = None
      /\ UNCHANGED <<rows, main>>
  BY DEF SettleContained
<1>2. RowsOk(rows) /\ main \in DOMAIN rows
  BY DEF RebaseInv, GraphInv
<1>3. main \in Reached(rows, main)
  BY <1>2, RowsGraph, ReachedIs
<1>4. LandOk(rows, main, Settlement(txn.head, main, main, 0))
  <2>1. Reached(rows, main) \ Reached(rows, main) = {}
    OBVIOUS
  <2>2. 0 <= Cardinality(Reached(rows, main) \ Reached(rows, main))
    BY <2>1, FS_EmptySet
  <2>. QED  BY <1>3, <2>2 DEF LandOk, Settlement
<1>5. LandsInv'
  BY <1>1, <1>4, LandSettled DEF RebaseInv, LandsInv
<1>. QED  BY <1>1, <1>5 DEF RebaseInv, GraphInv, TxnInv, ForwardInv

LEMMA Consed ==
    ASSUME NEW S, NEW c \in Seq(S), NEW x \in S
    PROVE  /\ <<x>> \o c \in Seq(S) /\ <<x>> \o c # <<>>
           /\ Len(<<x>> \o c) = Len(c) + 1 /\ Len(c) \in Nat
           /\ (<<x>> \o c)[1] = x
           /\ \A n \in 1..Len(c): (<<x>> \o c)[n + 1] = c[n]
<1>1. <<x>> \in Seq(S) /\ Len(<<x>>) = 1 /\ <<x>>[1] = x
  OBVIOUS
<1>2. <<x>> \o c \in Seq(S) /\ Len(<<x>> \o c) = Len(c) + 1 /\ Len(c) \in Nat
  BY <1>1, ConcatProperties
<1>3. (<<x>> \o c)[1] = x
  BY <1>1, ConcatProperties
<1>4. \A n \in 1..Len(c): (<<x>> \o c)[n + 1] = c[n]
  OBVIOUS
<1>. QED  BY <1>2, <1>3, <1>4

LEMMA Tailed ==
    ASSUME NEW S, NEW c \in Seq(S), c # <<>>
    PROVE  /\ Tail(c) \in Seq(S) /\ Len(Tail(c)) = Len(c) - 1 /\ Len(c) \in Nat \ {0}
           /\ \A n \in 1..(Len(c) - 1): Tail(c)[n] = c[n + 1]
           /\ c[1] \in S /\ (Tail(c) = <<>> <=> Len(c) = 1)
<1>1. Len(c) \in Nat \ {0} /\ c[1] \in S
  OBVIOUS
<1>. DEFINE t == Tail(c)
<1>2. t \in Seq(S) /\ Len(t) = Len(c) - 1
  OBVIOUS
<1>3. \A n \in 1..(Len(c) - 1): t[n] = c[n + 1]
  OBVIOUS
<1>. HIDE DEF t
<1>4. t = <<>> <=> Len(t) = 0
  BY <1>2
<1>5. t = <<>> <=> Len(c) = 1
  BY <1>1, <1>2, <1>4
<1>. QED  BY <1>1, <1>2, <1>3, <1>5 DEF t

LEMMA WalkStep ==
    ASSUME RebaseInv, Walk
    PROVE  RebaseInv'
<1>. DEFINE c == <<txn.cursor>> \o txn.chain
<1>1. /\ txn # None /\ txn.stage = "walk" /\ txn.cursor \notin txn.inMain
      /\ txn.cursor.parents # <<>>
      /\ txn' = [txn EXCEPT !.chain = <<txn.cursor>> \o txn.chain,
                            !.cursor = txn.cursor.parents[1]]
      /\ UNCHANGED <<rows, main, lands>>
  BY DEF Walk
<1>2. TxnShape /\ ChainInv /\ WalkInv /\ TipInv
  BY <1>1 DEF RebaseInv, TxnInv
<1>3. TxnShape' /\ txn'.chain = c /\ txn'.cursor = txn.cursor.parents[1]
      /\ txn'.stage = txn.stage /\ txn'.head = txn.head /\ txn'.inMain = txn.inMain
      /\ txn'.tip = txn.tip /\ txn'.tipTree = txn.tipTree /\ txn'.rows = txn.rows
      /\ txn'.made = txn.made
  BY <1>1, <1>2 DEF TxnShape
<1>4. RowsOk(rows) /\ txn.cursor \in DOMAIN rows /\ txn.head \in DOMAIN rows
  BY <1>2 DEF RebaseInv, GraphInv, ChainInv
<1>5. txn.cursor \in Own
  <2>1. CASE txn.chain = <<>>
    <3>1. txn.cursor = txn.head
      BY <1>1, <1>2, <2>1 DEF WalkInv
    <3>. QED  BY <1>1, <1>4, <3>1, RowsGraph, ReachedIs DEF Own
  <2>2. CASE txn.chain # <<>>
    <3>1. /\ txn.cursor = txn.chain[1].parents[1] /\ txn.chain[1] \in Own
          /\ txn.chain[1].parents # <<>>
      BY <1>1, <1>2, <2>2, Tailed DEF WalkInv, ChainInv
    <3>2. txn.chain[1] \in Reached(rows, txn.head) /\ txn.chain[1] \in DOMAIN rows
      BY <1>4, <3>1, RowsGraph, ReachedOf DEF Own
    <3>3. txn.cursor \in Reached(rows, txn.chain[1])
      BY <1>4, <3>1, <3>2, RowsGraph, ReachedOf
    <3>. QED  BY <1>1, <1>4, <3>2, <3>3, RowsGraph, ReachedOf DEF Own
  <2>. QED  BY <2>1, <2>2
<1>6. Own' = Own
  BY <1>1, <1>3 DEF Own
<1>7. /\ c \in Seq(Own) /\ c # <<>> /\ Len(c) = Len(txn.chain) + 1 /\ Len(txn.chain) \in Nat
      /\ c[1] = txn.cursor
      /\ \A n \in 1..Len(txn.chain): c[n + 1] = txn.chain[n]
  BY <1>2, <1>5, Consed DEF ChainInv
<1>. HIDE DEF c
<1>8. ChainInv'
  <2>1. txn'.cursor \in DOMAIN rows
    BY <1>1, <1>3, <1>4, RowsGraph
  <2>2. c[Len(c)] = txn.head
    <3>1. CASE txn.chain = <<>>
      BY <1>1, <1>2, <1>7, <3>1 DEF WalkInv
    <3>2. CASE txn.chain # <<>>
      <4>1. Len(txn.chain) \in 1..Len(txn.chain)
        BY <1>2, <3>2, Tailed DEF ChainInv
      <4>. QED  BY <1>2, <1>7, <3>2, <4>1 DEF ChainInv
    <3>. QED  BY <3>1, <3>2
  <2>3. ASSUME NEW n \in 1..(Len(c) - 1)
        PROVE  c[n + 1].parents[1] = c[n]
    <3>1. n \in 1..Len(txn.chain) /\ c[n + 1] = txn.chain[n]
      BY <1>7
    <3>2. CASE n = 1
      BY <1>1, <1>2, <1>7, <3>1, <3>2 DEF WalkInv, ChainInv
    <3>3. CASE n # 1
      <4>1. n - 1 \in 1..(Len(txn.chain) - 1) /\ (n - 1) + 1 = n
        BY <1>7, <3>1, <3>3
      <4>2. txn.chain[n].parents[1] = txn.chain[n - 1] /\ c[n] = txn.chain[n - 1]
        BY <1>2, <1>7, <4>1 DEF ChainInv
      <4>. QED  BY <3>1, <4>2
    <3>. QED  BY <3>2, <3>3
  <2>4. ASSUME NEW n \in DOMAIN c
        PROVE  c[n].parents # <<>>
    <3>1. n \in 1..(Len(txn.chain) + 1)
      BY <1>7
    <3>2. CASE n = 1
      <4>1. c[1] = txn.cursor
        BY <1>7
      <4>. HIDE DEF c
      <4>. QED  BY <1>1, <3>2, <4>1
    <3>3. CASE n # 1
      <4>1. n - 1 \in 1..Len(txn.chain) /\ (n - 1) + 1 = n /\ DOMAIN txn.chain = 1..Len(txn.chain)
        BY <1>2, <1>7, <3>1, <3>3 DEF ChainInv
      <4>2. c[n] = txn.chain[n - 1]
        BY <1>7, <4>1
      <4>3. txn.chain[n - 1].parents # <<>>
        BY <1>2, <4>1 DEF ChainInv
      <4>. HIDE DEF c
      <4>. QED  BY <4>2, <4>3
    <3>. QED  BY <3>2, <3>3
  <2>5. txn'.inMain = Reached(rows, main)' /\ txn'.head \in DOMAIN rows'
    BY <1>1, <1>2, <1>3 DEF ChainInv
  <2>. HIDE DEF c
  <2>6. txn'.cursor \in DOMAIN rows' /\ txn'.chain \in Seq(Own')
    BY <1>1, <1>3, <1>6, <1>7, <2>1
  <2>7. /\ txn'.chain[Len(txn'.chain)] = txn'.head
        /\ \A n \in 1..(Len(txn'.chain) - 1): txn'.chain[n + 1].parents[1] = txn'.chain[n]
        /\ \A n \in DOMAIN txn'.chain: txn'.chain[n].parents # <<>>
    BY <1>3, <2>2, <2>3, <2>4
  <2>. QED  BY <2>5, <2>6, <2>7 DEF ChainInv
<1>9. WalkInv'
  BY <1>1, <1>2, <1>3, <1>7 DEF WalkInv
<1>10. TipInv'
  BY <1>1, <1>2, <1>3 DEF TipInv
<1>11. GraphInv' /\ LandsInv' /\ ForwardInv'
  BY <1>1, <1>3 DEF RebaseInv, GraphInv, LandsInv, ForwardInv
<1>. QED  BY <1>3, <1>8, <1>9, <1>10, <1>11 DEF RebaseInv, TxnInv

LEMMA StartStep ==
    ASSUME RebaseInv, StartRebase
    PROVE  RebaseInv' /\ txn.chain # <<>>
<1>1. /\ txn # None /\ txn.stage = "walk" /\ txn.cursor \in txn.inMain
      /\ txn.head \notin txn.inMain
      /\ txn' = [txn EXCEPT !.stage = "rebase"]
      /\ UNCHANGED <<rows, main, lands>>
  BY DEF StartRebase
<1>2. TxnShape /\ ChainInv /\ WalkInv /\ TipInv
  BY <1>1 DEF RebaseInv, TxnInv
<1>3. TxnShape' /\ txn'.chain = txn.chain /\ txn'.cursor = txn.cursor
      /\ txn'.stage = "rebase" /\ txn'.head = txn.head /\ txn'.inMain = txn.inMain
      /\ txn'.tip = txn.tip /\ txn'.tipTree = txn.tipTree /\ txn'.rows = txn.rows
      /\ txn'.made = txn.made
  BY <1>1, <1>2 DEF TxnShape
<1>4. txn.chain # <<>> /\ txn.cursor = txn.chain[1].parents[1]
  BY <1>1, <1>2 DEF WalkInv
<1>5. Own' = Own
  BY <1>1, <1>3 DEF Own
<1>6. ChainInv'
  BY <1>1, <1>2, <1>3, <1>5 DEF ChainInv
<1>7. WalkInv' /\ TipInv'
  BY <1>1, <1>2, <1>3 DEF WalkInv, TipInv
<1>8. GraphInv' /\ LandsInv'
  BY <1>1 DEF RebaseInv, GraphInv, LandsInv
<1>9. ForwardInv'
  BY <1>1, <1>2, <1>3, <1>4 DEF ForwardInv, Exact, WalkInv
<1>. QED  BY <1>3, <1>4, <1>6, <1>7, <1>8, <1>9 DEF RebaseInv, TxnInv

(* The next node: main does not have it, so it records no conflict.        *)
LEMMA NextNode ==
    ASSUME RebaseInv, Rebasing
    PROVE  /\ TxnShape /\ ChainInv /\ TipInv
           /\ Node \in Own /\ Node \in DOMAIN rows /\ Node.reps = NoReps
           /\ IdOk(rows, Node) /\ Node.parents # <<>> /\ Node.changes # NoChange
           /\ Rebased.reps = Minted(Merged)
<1>1. txn # None /\ txn.stage = "rebase" /\ txn.chain # <<>>
  BY DEF Rebasing
<1>2. TxnShape /\ ChainInv /\ TipInv
  BY <1>1 DEF RebaseInv, TxnInv
<1>3. RowsOk(rows) /\ main \in DOMAIN rows /\ RecordedOn(rows, main)
  BY DEF RebaseInv, GraphInv
<1>4. Node \in Own /\ Node.parents # <<>>
  <2>1. Len(txn.chain) \in Nat \ {0} /\ txn.chain[1] \in Own
    BY <1>1, <1>2, Tailed DEF ChainInv
  <2>2. 1 \in DOMAIN txn.chain
    BY <1>2, <2>1 DEF ChainInv
  <2>. QED  BY <1>2, <2>1, <2>2 DEF ChainInv, Node
<1>. HIDE DEF Node
<1>5. Node \in DOMAIN rows /\ Node \notin Reached(rows, main)
  BY <1>2, <1>3, <1>4, RowsGraph, ReachedOf DEF Own, ChainInv
<1>6. Node.reps = NoReps
  BY <1>3, <1>5 DEF RecordedOn
<1>7. IdOk(rows, Node) /\ Node.changes # NoChange
  BY <1>3, <1>5, <1>6 DEF RowsOk, IdOk
<1>8. Rebased.reps = Minted(Merged)
  <2>1. Rebased.reps = Carry(NoReps, Minted(Merged))
    BY <1>6 DEF Rebased
  <2>. HIDE DEF Merged
  <2>. QED  BY <2>1 DEF Carry, NoReps, Minted
<1>. QED  BY <1>2, <1>4, <1>5, <1>6, <1>7, <1>8

(* What is left when a node has been dealt with.                           *)
LEMMA ChainShrinks ==
    ASSUME RebaseInv, Rebasing, UNCHANGED <<rows, main>>, txn'.chain = Tail(txn.chain),
           txn'.head = txn.head, txn'.cursor = txn.cursor, txn'.inMain = txn.inMain
    PROVE  /\ ChainInv' /\ Own' = Own /\ (Exact' <=> Exact)
           /\ Node = IF txn'.chain = <<>> THEN txn.head ELSE txn'.chain[1].parents[1]
<1>. DEFINE c == txn.chain
            t == Tail(txn.chain)
<1>1. ChainInv /\ c # <<>>
  BY NextNode DEF Rebasing
<1>2. Own' = Own
  BY DEF Own
<1>3. /\ t \in Seq(Own) /\ Len(t) = Len(c) - 1 /\ Len(c) \in Nat \ {0}
      /\ \A n \in 1..(Len(c) - 1): t[n] = c[n + 1]
      /\ t = <<>> <=> Len(c) = 1
  BY <1>1, Tailed DEF ChainInv
<1>4. /\ c[Len(c)] = txn.head /\ DOMAIN c = 1..Len(c)
      /\ \A n \in 1..(Len(c) - 1): c[n + 1].parents[1] = c[n]
      /\ \A n \in DOMAIN c: c[n].parents # <<>>
  BY <1>1 DEF ChainInv
<1>. HIDE DEF c, t
<1>5. t # <<>> => t[Len(t)] = txn.head
  <2>. SUFFICES ASSUME t # <<>> PROVE t[Len(t)] = txn.head
    OBVIOUS
  <2>1. Len(t) \in 1..(Len(c) - 1) /\ Len(t) + 1 = Len(c)
    BY <1>3
  <2>. QED  BY <1>3, <1>4, <2>1
<1>6. \A n \in 1..(Len(t) - 1): t[n + 1].parents[1] = t[n]
  <2>. SUFFICES ASSUME NEW n \in 1..(Len(t) - 1) PROVE t[n + 1].parents[1] = t[n]
    OBVIOUS
  <2>1. n \in 1..(Len(c) - 1) /\ n + 1 \in 1..(Len(c) - 1)
    BY <1>3
  <2>. QED  BY <1>3, <1>4, <2>1
<1>7. \A n \in DOMAIN t: t[n].parents # <<>>
  <2>. SUFFICES ASSUME NEW n \in DOMAIN t PROVE t[n].parents # <<>>
    OBVIOUS
  <2>1. n \in 1..(Len(c) - 1) /\ n + 1 \in DOMAIN c
    BY <1>3, <1>4
  <2>. QED  BY <1>3, <1>4, <2>1
<1>8. c[1] = IF t = <<>> THEN txn.head ELSE t[1].parents[1]
  <2>1. t # <<>> => 1 \in 1..(Len(c) - 1) /\ t[1] = c[1 + 1] /\ c[1 + 1].parents[1] = c[1]
    BY <1>3, <1>4
  <2>. QED  BY <1>3, <1>4, <2>1
<1>9. ChainInv'
  BY <1>1, <1>2, <1>3, <1>5, <1>6, <1>7 DEF ChainInv, t
<1>10. Exact' <=> Exact
  BY <1>2 DEF Exact, ParentTree
<1>. QED  BY <1>2, <1>8, <1>9, <1>10 DEF Node, c, t

(* On a tip that is the node's own parent a node with exact changes merges *)
(* to itself.                                                              *)
LEMMA ExactIsAdopted ==
    ASSUME RebaseInv, Rebasing, Exact
    PROVE  Rebased = Node /\ Rebased.changes # NoChange
<1>1. txn # None /\ txn.stage = "rebase" /\ txn.chain # <<>>
  BY DEF Rebasing
<1>2. txn.rows = rows /\ txn.tip = Node.parents[1] /\ txn.tipTree = txn.rows[txn.tip].tree
  BY <1>1, NextNode DEF RebaseInv, ForwardInv, Node, TipInv
<1>3. /\ Len(Node.parents) = 1 /\ Node.changes = Delta(ParentTree(rows, Node), rows[Node].tree)
      /\ Node.parents # <<>> /\ Node.reps = NoReps /\ IdOk(rows, Node)
      /\ Node.changes # NoChange /\ Node \in DOMAIN rows
      /\ Rebased.reps = Minted(Merged)
  BY NextNode DEF Exact
<1>4. Node.parents = <<txn.tip>>
  BY <1>2, <1>3, RowsGraph DEF RebaseInv, GraphInv
<1>. HIDE DEF Node
<1>5. ParentTree(txn.rows, Node) = txn.tipTree /\ ParentTree(rows, Node) = txn.tipTree
  BY <1>2, <1>3 DEF ParentTree
<1>6. Merged = MergeTrees(txn.tipTree, txn.tipTree, rows[Node].tree)
  BY <1>2, <1>5 DEF Merged
<1>7. \A p \in Paths: Merged[p].file = rows[Node].tree[p] /\ Merged[p].rep = None
  BY <1>6, PathMerged DEF MergeTrees
<1>. HIDE DEF Merged
<1>8. Minted(Merged) = NoReps
  BY <1>7 DEF Minted, NoReps
<1>9. Delta(txn.tipTree, Files(Merged)) = Delta(txn.tipTree, rows[Node].tree)
  BY <1>7 DEF Delta, Files
<1>10. Rebased = [parents |-> <<txn.tip>>, stamp |-> Node.stamp, changes |-> Node.changes,
                  reps |-> Rebased.reps]
  BY <1>3, <1>5, <1>9 DEF Rebased
<1>11. Rebased = [parents |-> Node.parents, stamp |-> Node.stamp, changes |-> Node.changes,
                  reps |-> Node.reps]
  BY <1>3, <1>4, <1>8, <1>10
<1>. QED  BY <1>3, <1>11 DEF IdOk

LEMMA DropStep ==
    ASSUME RebaseInv, DropNode
    PROVE  RebaseInv'
<1>1. /\ Rebasing /\ Rebased.changes = NoChange
      /\ txn' = [txn EXCEPT !.chain = Tail(txn.chain)]
      /\ UNCHANGED <<rows, main, lands>>
  BY DEF DropNode
<1>2. TxnShape /\ ChainInv /\ TipInv /\ txn.stage = "rebase"
  BY <1>1, NextNode DEF Rebasing
<1>3. TxnShape' /\ txn'.chain = Tail(txn.chain) /\ txn'.cursor = txn.cursor
      /\ txn'.stage = "rebase" /\ txn'.head = txn.head /\ txn'.inMain = txn.inMain
      /\ txn'.tip = txn.tip /\ txn'.tipTree = txn.tipTree /\ txn'.rows = txn.rows
      /\ txn'.made = txn.made
  BY <1>1, <1>2 DEF TxnShape
<1>4. ~ Exact
  BY <1>1, ExactIsAdopted
<1>5. ChainInv' /\ ~ Exact'
  BY <1>1, <1>3, <1>4, ChainShrinks
<1>6. WalkInv' /\ TipInv'
  BY <1>1, <1>2, <1>3 DEF WalkInv, TipInv
<1>7. GraphInv' /\ LandsInv'
  BY <1>1 DEF RebaseInv, GraphInv, LandsInv
<1>. QED  BY <1>3, <1>5, <1>6, <1>7 DEF RebaseInv, TxnInv, ForwardInv

LEMMA AdoptNodeStep ==
    ASSUME RebaseInv, AdoptNode
    PROVE  RebaseInv' /\ Node.parents = <<txn.tip>>
<1>1. /\ Rebasing /\ Rebased = Node
      /\ txn' = [txn EXCEPT !.chain = Tail(txn.chain), !.tip = Node,
                            !.tipTree = txn.rows[Node].tree]
      /\ UNCHANGED <<rows, main, lands>>
  BY DEF AdoptNode
<1>2. /\ TxnShape /\ ChainInv /\ TipInv /\ txn.stage = "rebase" /\ txn # None
      /\ Node \in DOMAIN rows
  BY <1>1, NextNode DEF Rebasing
<1>3. TxnShape' /\ txn'.chain = Tail(txn.chain) /\ txn'.cursor = txn.cursor
      /\ txn'.stage = "rebase" /\ txn'.head = txn.head /\ txn'.inMain = txn.inMain
      /\ txn'.tip = Node /\ txn'.tipTree = txn.rows[Node].tree /\ txn'.rows = txn.rows
      /\ txn'.made = txn.made
  BY <1>1, <1>2 DEF TxnShape
<1>4. Node.parents = <<txn.tip>>
  BY <1>1 DEF Rebased
<1>5. /\ ChainInv' /\ (Exact' <=> Exact)
      /\ Node = IF txn'.chain = <<>> THEN txn.head ELSE txn'.chain[1].parents[1]
  BY <1>1, <1>3, ChainShrinks
<1>. HIDE DEF Node
<1>6. /\ RowsOk(txn.rows) /\ txn.tip \in DOMAIN txn.rows /\ Node \in DOMAIN txn.rows
      /\ main \in Reached(txn.rows, txn.tip) /\ RecordedOn(txn.rows, txn.tip)
      /\ txn.made \in Nat /\ txn.made <= Cardinality(Reached(txn.rows, txn.tip) \ txn.inMain)
      /\ \A i \in Reached(txn.rows, txn.tip) \ txn.inMain: Len(i.parents) = 1
  BY <1>2 DEF TipInv
<1>7. ParentsOf(Node) = {txn.tip} /\ Len(Node.parents) = 1
  BY <1>4 DEF ParentsOf
<1>8. Reached(txn.rows, Node) = {Node} \cup Reached(txn.rows, txn.tip)
  BY <1>6, <1>7, RowsGraph, ReachedIs
<1>9. txn.made <= Cardinality(Reached(txn.rows, Node) \ txn.inMain)
  <2>1. IsFiniteSet(Reached(txn.rows, Node) \ txn.inMain)
    <3>1. Reached(txn.rows, Node) \ txn.inMain \subseteq DOMAIN txn.rows
      BY <1>6, RowsGraph, ReachedIs
    <3>. QED  BY <1>6, <3>1, FS_Subset DEF RowsOk
  <2>2. Reached(txn.rows, txn.tip) \ txn.inMain \subseteq Reached(txn.rows, Node) \ txn.inMain
    BY <1>8
  <2>3. /\ Cardinality(Reached(txn.rows, txn.tip) \ txn.inMain)
             <= Cardinality(Reached(txn.rows, Node) \ txn.inMain)
        /\ Cardinality(Reached(txn.rows, txn.tip) \ txn.inMain) \in Nat
        /\ Cardinality(Reached(txn.rows, Node) \ txn.inMain) \in Nat
    BY <2>1, <2>2, FS_Subset, FS_CardinalityType
  <2>. QED  BY <1>6, <2>3
<1>10. RecordedOn(txn.rows, Node)
  BY <1>6, <1>8 DEF RecordedOn
<1>11. \A i \in Reached(txn.rows, Node) \ txn.inMain: Len(i.parents) = 1
  BY <1>6, <1>7, <1>8
<1>12. TipInv'
  BY <1>1, <1>2, <1>3, <1>6, <1>8, <1>9, <1>10, <1>11 DEF TipInv
<1>13. WalkInv' /\ GraphInv' /\ LandsInv'
  BY <1>1, <1>3 DEF WalkInv, RebaseInv, GraphInv, LandsInv
<1>14. ForwardInv'
  BY <1>1, <1>2, <1>3, <1>5 DEF RebaseInv, ForwardInv
<1>. QED  BY <1>3, <1>4, <1>5, <1>12, <1>13, <1>14 DEF RebaseInv, TxnInv

LEMMA InsertStep ==
    ASSUME RebaseInv, InsertNode
    PROVE  RebaseInv'
<1>. DEFINE row == [gen |-> txn.tipGen + 1, tree |-> Files(Merged)]
            new == Rebased
            r2 == With(txn.rows, new, row)
<1>1. /\ Rebasing /\ Rebased # Node
      /\ Rebased.changes # NoChange \/ Rebased.reps # NoReps
      /\ new \notin DOMAIN txn.rows
      /\ txn' = [txn EXCEPT !.chain = Tail(txn.chain), !.tip = new,
                            !.tipTree = Files(Merged), !.tipGen = txn.tipGen + 1,
                            !.made = txn.made + 1, !.rows = r2]
      /\ UNCHANGED <<rows, main, lands>>
  BY DEF InsertNode
<1>2. /\ TxnShape /\ ChainInv /\ TipInv /\ txn.stage = "rebase" /\ txn # None
      /\ Rebased.reps = Minted(Merged)
  BY <1>1, NextNode DEF Rebasing
<1>3. TxnShape' /\ txn'.chain = Tail(txn.chain) /\ txn'.cursor = txn.cursor
      /\ txn'.stage = "rebase" /\ txn'.head = txn.head /\ txn'.inMain = txn.inMain
      /\ txn'.tip = new /\ txn'.tipTree = Files(Merged) /\ txn'.rows = r2
      /\ txn'.made = txn.made + 1
  BY <1>1, <1>2 DEF TxnShape
<1>4. ~ Exact
  BY <1>1, ExactIsAdopted
<1>5. ChainInv' /\ ~ Exact'
  BY <1>1, <1>3, <1>4, ChainShrinks
<1>6. new.parents = <<txn.tip>> /\ new.reps = Minted(Merged)
      /\ new = [parents |-> new.parents, stamp |-> new.stamp, changes |-> new.changes,
                reps |-> new.reps]
  BY <1>2 DEF Rebased
<1>7. /\ RowsOk(txn.rows) /\ txn.tip \in DOMAIN txn.rows
      /\ DOMAIN rows \subseteq DOMAIN txn.rows /\ \A i \in DOMAIN rows: txn.rows[i] = rows[i]
      /\ main \in Reached(txn.rows, txn.tip) /\ RecordedOn(txn.rows, txn.tip)
      /\ txn.made \in Nat /\ txn.made <= Cardinality(Reached(txn.rows, txn.tip) \ txn.inMain)
      /\ \A i \in Reached(txn.rows, txn.tip) \ txn.inMain: Len(i.parents) = 1
  BY <1>2 DEF TipInv
<1>. HIDE DEF new
<1>8. DOMAIN r2 = DOMAIN txn.rows \cup {new} /\ r2[new] = row
      /\ \A j \in DOMAIN txn.rows: r2[j] = txn.rows[j]
  BY <1>1 DEF With
<1>9. RowsOk(r2)
  <2>1. NewOk(txn.rows, new)
    BY <1>1, <1>6, <1>7 DEF NewOk, new
  <2>. QED  BY <1>7, <2>1, WithOk
<1>. HIDE DEF r2, row
<1>10. ParentsOf(new) = {txn.tip} /\ Len(new.parents) = 1
  BY <1>6 DEF ParentsOf
<1>11. Reached(r2, new) = {new} \cup Reached(txn.rows, txn.tip)
  <2>1. Reached(r2, txn.tip) = Reached(txn.rows, txn.tip)
    BY <1>7, <1>8, <1>9, RowsGraph, ReachedStays
  <2>2. Reached(r2, new) = {new} \cup UNION {Reached(r2, k): k \in ParentsOf(new)}
    BY <1>8, <1>9, RowsGraph, ReachedIs
  <2>. QED  BY <1>10, <2>1, <2>2
<1>12. Marked(r2, new)
  <2>1. \A p \in Paths: new.reps[p] = Merged[p].rep /\ row.tree[p] = Merged[p].file
    BY <1>6 DEF Minted, Files, row
  <2>2. ASSUME NEW p \in Paths
        PROVE  \E b, o, t: Merged[p] = MergePath(p, b, o, t)
    BY DEF Merged, MergeTrees
  <2>. HIDE DEF Merged
  <2>3. \A p \in Paths: Merged[p].rep # None =>
          /\ Merged[p].file.blob = Marker(p, Merged[p].rep)
          /\ Merged[p].rep.base \notin Merged[p].rep.sides
    BY <2>2, PathMerged
  <2>. QED  BY <1>8, <2>1, <2>3 DEF Marked
<1>13. RecordedOn(r2, new)
  <2>1. txn.tip \in Reached(r2, new) /\ new \in Reached(r2, new)
    BY <1>7, <1>11, RowsGraph, ReachedIs
  <2>2. \A j \in DOMAIN r2 \ DOMAIN txn.rows: j = new
    BY <1>8
  <2>. QED  BY <1>7, <1>8, <1>9, <1>12, <2>1, <2>2, RecordedStays
<1>14. txn.made + 1 <= Cardinality(Reached(r2, new) \ txn.inMain)
  <2>1. txn.inMain \subseteq DOMAIN txn.rows /\ Reached(txn.rows, txn.tip) \subseteq DOMAIN txn.rows
    <3>1. txn.inMain = Reached(rows, main) /\ RowsOk(rows) /\ main \in DOMAIN rows
      BY <1>2 DEF ChainInv, RebaseInv, GraphInv
    <3>. QED  BY <1>7, <3>1, RowsGraph, ReachedIs
  <2>. DEFINE old == Reached(txn.rows, txn.tip) \ txn.inMain
  <2>2. Reached(r2, new) \ txn.inMain = old \cup {new} /\ new \notin old
    BY <1>1, <1>11, <2>1
  <2>3. IsFiniteSet(old)
    BY <1>7, <2>1, FS_Subset DEF RowsOk
  <2>. DEFINE all == Reached(r2, new) \ txn.inMain
  <2>5. txn.made <= Cardinality(old) /\ all = old \cup {new} /\ txn.made \in Nat
    BY <1>7, <2>2
  <2>. HIDE DEF old
  <2>4. Cardinality(old \cup {new}) = Cardinality(old) + 1 /\ Cardinality(old) \in Nat
    BY <2>2, <2>3, FS_AddElement, FS_CardinalityType
  <2>. QED
    <3>. HIDE DEF all
    <3>1. txn.made + 1 <= Cardinality(all)
      BY <2>4, <2>5
    <3>. QED  BY <3>1 DEF all
<1>15. \A i \in Reached(r2, new) \ txn.inMain: Len(i.parents) = 1
  BY <1>7, <1>10, <1>11
<1>16. TipInv'
  <2>1. \A i \in DOMAIN rows: r2[i] = rows[i]
    BY <1>7, <1>8
  <2>2. r2[new].tree = Files(Merged)
    BY <1>8 DEF row
  <2>3. DOMAIN rows \subseteq DOMAIN r2 /\ new \in DOMAIN r2
    BY <1>7, <1>8
  <2>4. main \in Reached(r2, new) /\ txn.made + 1 \in Nat
    BY <1>7, <1>11
  <2>. QED
    BY <1>1, <1>3, <1>9, <1>13, <1>14, <1>15, <2>1, <2>2, <2>3, <2>4 DEF TipInv
<1>17. WalkInv' /\ GraphInv' /\ LandsInv'
  BY <1>1, <1>3 DEF WalkInv, RebaseInv, GraphInv, LandsInv
<1>. QED  BY <1>3, <1>5, <1>16, <1>17 DEF RebaseInv, TxnInv, ForwardInv

(* What main moves to has what main had, in a line.                        *)
LEMMA LandSettles ==
    ASSUME RebaseInv, Settle
    PROVE  /\ RebaseInv' /\ ChainInv /\ RowsOk(rows) /\ main \in DOMAIN rows
           /\ RowsOk(rows') /\ main' \in DOMAIN rows' /\ main \in Reached(rows', main')
           /\ \A i \in Reached(rows', main') \ Reached(rows, main): Len(i.parents) = 1
           /\ rows' = txn.rows /\ main' = txn.tip /\ rows'[main'].tree = txn.tipTree
<1>. DEFINE land == Settlement(txn.head, main, txn.tip, txn.made)
<1>1. /\ txn # None /\ txn.stage = "rebase" /\ txn.chain = <<>>
      /\ rows' = txn.rows /\ main' = txn.tip /\ lands' = Append(lands, land) /\ txn' = None
  BY DEF Settle
<1>2. /\ ChainInv /\ TipInv /\ LandsInv
      /\ RowsOk(rows) /\ main \in DOMAIN rows
  BY <1>1 DEF RebaseInv, TxnInv, GraphInv
<1>3. /\ RowsOk(rows') /\ main' \in DOMAIN rows' /\ RecordedOn(rows', main')
      /\ DOMAIN rows \subseteq DOMAIN rows' /\ main \in Reached(rows', main')
      /\ txn.inMain = Reached(rows, main) /\ txn.made \in Nat
      /\ txn.made <= Cardinality(Reached(rows', main') \ txn.inMain)
      /\ \A i \in Reached(rows', main') \ txn.inMain: Len(i.parents) = 1
  BY <1>1, <1>2 DEF TipInv, ChainInv
<1>4. Reached(rows', main) = Reached(rows, main)
  BY <1>2, <1>3, RowsGraph, ReachedStays
<1>5. main' \in Reached(rows', main')
  BY <1>3, RowsGraph, ReachedIs
<1>6. land.landed = main' /\ land.base = main /\ land.made = txn.made
      /\ (land.state = "conflicted" <=> land.landed.reps # NoReps)
  BY <1>1 DEF Settlement
<1>. HIDE DEF land
<1>7. LandOk(rows', main', land)
  BY <1>3, <1>4, <1>5, <1>6 DEF LandOk
<1>8. \A n \in DOMAIN lands: LandOk(rows', main', lands[n])
  BY <1>2, <1>3, LandStays DEF LandsInv
<1>9. LandsInv'
  BY <1>1, <1>2, <1>7, <1>8, LandSettled
<1>10. RebaseInv'
  BY <1>1, <1>3, <1>9 DEF RebaseInv, GraphInv, TxnInv, ForwardInv
<1>. QED  BY <1>1, <1>2, <1>3, <1>10 DEF TipInv

LEMMA RebaseNext ==
    ASSUME RebaseInv, [Next]_vars
    PROVE  RebaseInv'
<1>1. CASE UNCHANGED vars
  BY <1>1, RebaseStands DEF vars
<1>2. ASSUME NEW parents \in {<<>>} \cup {<<i>> : i \in DOMAIN rows}, NEW stamp, NEW changes,
             Create(parents, stamp, changes)
      PROVE  RebaseInv'
  BY <1>2, CreateStep
<1>3. ASSUME NEW t, Redact(t)
      PROVE  RebaseInv'
  BY <1>3, RebaseStands DEF Redact
<1>4. ASSUME NEW h \in DOMAIN rows, NEW record \in BOOLEAN, Begin(h, record)
      PROVE  RebaseInv'
  BY <1>4, RebaseBegins
<1>5. CASE Rollback
  BY <1>5, RebaseStands DEF Rollback
<1>. QED
  BY <1>1, <1>2, <1>3, <1>4, <1>5, ContainedStep, WalkStep, StartStep, DropStep, AdoptNodeStep,
     InsertStep, LandSettles DEF Next

(* The invariant in the words of the properties.                           *)
LEMMA RebaseHolds ==
    ASSUME RebaseInv
    PROVE  ConflictsAreRecorded /\ LandsStand
<1>1. RowsOk(rows) /\ main \in DOMAIN rows /\ RecordedOn(rows, main)
  BY DEF RebaseInv, GraphInv
<1>2. \A i \in DOMAIN rows: Ancestors(rows, i) = Reached(rows, i)
  BY <1>1, RowsGraph, AncestorsAre
<1>3. ConflictsAreRecorded
  BY <1>1, <1>2 DEF ConflictsAreRecorded, RecordedOn, Marked
<1>4. ASSUME NEW n \in DOMAIN lands
      PROVE  /\ lands[n].landed \in Ancestors(rows, main)
             /\ lands[n].base \in Ancestors(rows, lands[n].landed)
             /\ lands[n].made <= Cardinality(Ancestors(rows, lands[n].landed)
                                               \ Ancestors(rows, lands[n].base))
             /\ lands[n].state = "conflicted" <=> lands[n].landed.reps # NoReps
  <2>1. LandOk(rows, main, lands[n])
    BY DEF RebaseInv, LandsInv
  <2>2. lands[n].landed \in DOMAIN rows /\ lands[n].base \in DOMAIN rows
    BY <1>1, <2>1, RowsGraph, ReachedOf DEF LandOk
  <2>. QED  BY <1>1, <1>2, <2>1, <2>2 DEF LandOk
<1>. QED  BY <1>3, <1>4 DEF LandsStand

(* What main is left with: the three-way merge of one path, on a node's    *)
(* own parent.                                                             *)
LEMMA MergedAt ==
    ASSUME RebaseInv, Rebasing, NEW p \in Paths
    PROVE  /\ txn.tipTree[p] = BaseTree[p] => Merged[p].file = rows[Node].tree[p]
           /\ rows[Node].tree[p] = BaseTree[p] => Merged[p].file = txn.tipTree[p]
           /\ BaseTree = ParentTree(rows, Node)
           /\ Node \in Own
<1>1. /\ txn.chain # <<>> /\ Node \in DOMAIN rows /\ Node.parents # <<>> /\ Node \in Own
      /\ \A i \in DOMAIN rows: txn.rows[i] = rows[i]
  BY NextNode DEF Rebasing, TipInv
<1>2. BaseTree = ParentTree(rows, Node)
  BY <1>1 DEF BaseTree, Node
<1>. HIDE DEF Node
<1>3. Node.parents[1] \in DOMAIN rows
  BY <1>1, RowsGraph DEF RebaseInv, GraphInv
<1>4. ParentTree(txn.rows, Node) = ParentTree(rows, Node)
  BY <1>1, <1>3 DEF ParentTree
<1>5. Merged[p] = MergePath(p, BaseTree[p], txn.tipTree[p], rows[Node].tree[p])
  BY <1>1, <1>2, <1>4 DEF Merged, MergeTrees
<1>. QED  BY <1>1, <1>2, <1>5, PathMerged

(* A node was dealt with: the base of the next is its tree.                *)
LEMMA SidesShrink ==
    ASSUME RebaseInv, SidesInv, Rebasing, UNCHANGED <<rows, main>>,
           txn'.chain = Tail(txn.chain), txn'.head = txn.head, txn'.cursor = txn.cursor,
           txn'.inMain = txn.inMain,
           \/ \A p \in Paths: txn'.tipTree[p] = Merged[p].file
           \/ txn'.tipTree = rows[Node].tree /\ Node.parents = <<txn.tip>>
    PROVE  SidesInv'
<1>1. /\ ChainInv' /\ Own' = Own
      /\ Node = IF txn'.chain = <<>> THEN txn.head ELSE txn'.chain[1].parents[1]
  BY ChainShrinks
<1>2. txn # None /\ txn.stage = "rebase" /\ txn.chain # <<>>
  BY DEF Rebasing
<1>3. TipInv /\ Node \in DOMAIN rows
  BY <1>2, NextNode
<1>. HIDE DEF Node
<1>4. BaseTree' = rows[Node].tree
  <2>1. CASE txn'.chain = <<>>
    BY <1>1, <2>1 DEF BaseTree
  <2>2. CASE txn'.chain # <<>>
    <3>1. txn'.chain[1].parents # <<>>
      <4>1. txn'.chain \in Seq(Own')
        BY <1>1 DEF ChainInv
      <4>2. 1 \in DOMAIN txn'.chain
        BY <2>2, <4>1
      <4>. QED  BY <1>1, <4>2 DEF ChainInv
    <3>. QED  BY <1>1, <2>2, <3>1 DEF BaseTree, ParentTree
  <2>. QED  BY <2>1, <2>2
<1>5. ASSUME NEW p \in Paths
      PROVE  /\ rows[main].tree[p] = rows[txn.cursor].tree[p] => txn'.tipTree[p] = rows[Node].tree[p]
             /\ Untouched(p) => txn'.tipTree[p] = rows[main].tree[p]
  <2>1. /\ rows[main].tree[p] = rows[txn.cursor].tree[p] => txn.tipTree[p] = BaseTree[p]
        /\ Untouched(p) => txn.tipTree[p] = rows[main].tree[p]
    BY <1>2 DEF SidesInv
  <2>2. /\ txn.tipTree[p] = BaseTree[p] => Merged[p].file = rows[Node].tree[p]
        /\ rows[Node].tree[p] = BaseTree[p] => Merged[p].file = txn.tipTree[p]
        /\ BaseTree = ParentTree(rows, Node) /\ Node \in Own
    BY MergedAt
  <2>3. Untouched(p) => rows[Node].tree[p] = BaseTree[p]
    BY <2>2 DEF Untouched
  <2>4. CASE \A q \in Paths: txn'.tipTree[q] = Merged[q].file
    BY <2>1, <2>2, <2>3, <2>4
  <2>5. CASE txn'.tipTree = rows[Node].tree /\ Node.parents = <<txn.tip>>
    <3>1. Node.parents # <<>> /\ Node.parents[1] = txn.tip
      BY <2>5
    <3>2. txn.tip \in DOMAIN rows
      BY <1>3, <3>1, RowsGraph DEF RebaseInv, GraphInv
    <3>3. BaseTree[p] = txn.tipTree[p]
      BY <1>3, <2>2, <3>1, <3>2 DEF ParentTree, TipInv
    <3>. QED  BY <2>1, <2>3, <2>5, <3>3
  <2>. QED  BY <2>4, <2>5
<1>6. \A p \in Paths: Untouched(p)' <=> Untouched(p)
  BY <1>1 DEF Untouched, ParentTree
<1>. QED  BY <1>4, <1>5, <1>6 DEF SidesInv

(* None is not a change: it stands for a path without one.                 *)
NoneIsNoChange == \A op, g: Change(op, g) # None

LEMMA SidesNext ==
    ASSUME NoneIsNoChange, RebaseInv, SidesInv, [Next]_vars
    PROVE  SidesInv'
<1>1. CASE UNCHANGED vars
  BY <1>1 DEF vars, SidesInv, BaseTree, Untouched, Own, ParentTree
<1>2. CASE txn' = None
  BY <1>2 DEF SidesInv
<1>3. ASSUME NEW h, NEW record, Begin(h, record)
      PROVE  SidesInv'
  BY <1>3 DEF Begin, SidesInv
<1>4. CASE Walk
  <2>1. txn # None /\ txn.stage = "walk" /\ TxnShape
    BY <1>4 DEF Walk, RebaseInv, TxnInv
  <2>2. txn'.stage = "walk"
    BY <1>4, <2>1 DEF Walk, TxnShape
  <2>. QED  BY <2>2 DEF SidesInv
<1>5. CASE StartRebase
  <2>1. /\ txn # None /\ txn.stage = "walk" /\ txn' = [txn EXCEPT !.stage = "rebase"]
        /\ UNCHANGED <<rows, main>> /\ txn.chain # <<>>
    BY <1>5, StartStep DEF StartRebase
  <2>2. TxnShape /\ ChainInv /\ WalkInv /\ TipInv
    BY <2>1 DEF RebaseInv, TxnInv
  <2>3. /\ txn'.chain = txn.chain /\ txn'.cursor = txn.cursor /\ txn'.head = txn.head
        /\ txn'.inMain = txn.inMain /\ txn'.tipTree = txn.tipTree
    BY <2>1, <2>2 DEF TxnShape
  <2>4. txn.tipTree = rows[main].tree /\ txn.cursor = txn.chain[1].parents[1]
    BY <2>1, <2>2 DEF WalkInv, TipInv
  <2>5. txn.chain[1].parents # <<>>
    <3>1. 1 \in DOMAIN txn.chain
      BY <2>1, <2>2 DEF ChainInv
    <3>. QED  BY <2>2, <3>1 DEF ChainInv
  <2>6. BaseTree' = rows[txn.cursor].tree
    BY <2>1, <2>3, <2>4, <2>5 DEF BaseTree, ParentTree
  <2>. QED  BY <2>1, <2>3, <2>4, <2>6 DEF SidesInv
<1>6. CASE DropNode
  <2>1. /\ Rebasing /\ Rebased.changes = NoChange /\ UNCHANGED <<rows, main>>
        /\ txn' = [txn EXCEPT !.chain = Tail(txn.chain)]
    BY <1>6 DEF DropNode
  <2>2. TxnShape
    BY <2>1, NextNode
  <2>3. /\ txn'.chain = Tail(txn.chain) /\ txn'.cursor = txn.cursor /\ txn'.head = txn.head
        /\ txn'.inMain = txn.inMain /\ txn'.tipTree = txn.tipTree
    BY <2>1, <2>2 DEF TxnShape
  <2>4. ASSUME NEW p \in Paths
        PROVE  txn.tipTree[p] = Merged[p].file
    <3>1. Delta(txn.tipTree, Files(Merged)) = NoChange
      BY <2>1 DEF Rebased
    <3>. HIDE DEF Merged
    <3>2. Delta(txn.tipTree, Files(Merged))[p] = None
      BY <3>1 DEF NoChange
    <3>3. txn.tipTree[p] = Files(Merged)[p]
      BY <3>2 DEF Delta, NoneIsNoChange
    <3>. QED  BY <3>3 DEF Files
  <2>. QED  BY <2>1, <2>3, <2>4, SidesShrink
<1>7. CASE AdoptNode
  <2>1. /\ Rebasing /\ UNCHANGED <<rows, main>>
        /\ txn' = [txn EXCEPT !.chain = Tail(txn.chain), !.tip = Node,
                              !.tipTree = txn.rows[Node].tree]
    BY <1>7 DEF AdoptNode
  <2>2. TxnShape /\ TipInv /\ Node \in DOMAIN rows /\ Node.parents = <<txn.tip>>
    BY <1>7, <2>1, NextNode, AdoptNodeStep
  <2>3. /\ txn'.chain = Tail(txn.chain) /\ txn'.cursor = txn.cursor /\ txn'.head = txn.head
        /\ txn'.inMain = txn.inMain /\ txn'.tipTree = txn.rows[Node].tree
    BY <2>1, <2>2 DEF TxnShape
  <2>4. txn'.tipTree = rows[Node].tree
    BY <2>2, <2>3 DEF TipInv
  <2>. QED  BY <2>1, <2>2, <2>3, <2>4, SidesShrink
<1>8. CASE InsertNode
  <2>1. /\ Rebasing /\ UNCHANGED <<rows, main>>
        /\ txn' = [txn EXCEPT !.chain = Tail(txn.chain),
                              !.tip = Rebased,
                              !.tipTree = Files(Merged),
                              !.tipGen = txn.tipGen + 1,
                              !.made = txn.made + 1,
                              !.rows = With(txn.rows, Rebased,
                                            [gen  |-> txn.tipGen + 1,
                                             tree |-> Files(Merged)])]
    BY <1>8 DEF InsertNode
  <2>2. TxnShape
    BY <2>1, NextNode
  <2>3. /\ txn'.chain = Tail(txn.chain) /\ txn'.cursor = txn.cursor /\ txn'.head = txn.head
        /\ txn'.inMain = txn.inMain /\ txn'.tipTree = Files(Merged)
    BY <2>1, <2>2 DEF TxnShape
  <2>4. \A p \in Paths: txn'.tipTree[p] = Merged[p].file
    BY <2>3 DEF Files
  <2>. QED  BY <2>1, <2>3, <2>4, SidesShrink
<1>9. ASSUME NEW parents, NEW stamp, NEW changes, Create(parents, stamp, changes)
      PROVE  SidesInv'
  BY <1>9 DEF Create, SidesInv
<1>10. ASSUME NEW t, Redact(t)
       PROVE  SidesInv'
  BY <1>10 DEF Redact, SidesInv
<1>11. SettleContained \/ Settle \/ Rollback => txn' = None
  BY DEF SettleContained, Settle, Rollback
<1>. QED
  BY <1>1, <1>2, <1>3, <1>4, <1>5, <1>6, <1>7, <1>8, <1>9, <1>10, <1>11 DEF Next

(* A move of main is a settlement.                                         *)
LEMMA MainMoves ==
    ASSUME [Next]_vars, main' # main
    PROVE  Settle
BY DEF Next, vars, Create, Redact, Begin, SettleContained, Walk, StartRebase, DropNode, AdoptNode,
       InsertNode, Rollback

LEMMA MovesInLine ==
    ASSUME RebaseInv, [Next]_vars, main' # main
    PROVE  /\ main \in Ancestors(rows', main')
           /\ \A i \in Ancestors(rows', main') \ Ancestors(rows, main): Len(i.parents) = 1
<1>1. /\ RowsOk(rows) /\ main \in DOMAIN rows /\ RowsOk(rows') /\ main' \in DOMAIN rows'
      /\ main \in Reached(rows', main')
      /\ \A i \in Reached(rows', main') \ Reached(rows, main): Len(i.parents) = 1
  BY MainMoves, LandSettles
<1>2. Ancestors(rows, main) = Reached(rows, main)
  BY <1>1, RowsGraph, AncestorsAre
<1>3. Ancestors(rows', main') = Reached(rows', main')
  BY <1>1, RowsGraph, AncestorsAre
<1>. QED  BY <1>1, <1>2, <1>3

LEMMA OwnIs ==
    ASSUME RebaseInv, txn # None
    PROVE  Ancestors(rows, txn.head) \ txn.inMain = Own
<1>1. RowsOk(rows) /\ txn.head \in DOMAIN rows
  BY DEF RebaseInv, GraphInv, TxnInv, ChainInv
<1>. QED  BY <1>1, RowsGraph, AncestorsAre DEF Own

LEMMA AdoptsForward ==
    ASSUME RebaseInv, Settle, txn.cursor = main,
           \A i \in Ancestors(rows, txn.head) \ txn.inMain:
              /\ Len(i.parents) = 1
              /\ i.changes = Delta(ParentTree(rows, i), rows[i].tree)
    PROVE  main' = txn.head /\ rows' = rows
<1>1. /\ txn # None /\ txn.stage = "rebase" /\ txn.chain = <<>>
      /\ rows' = txn.rows /\ main' = txn.tip
  BY DEF Settle
<1>2. Exact
  BY <1>1, OwnIs DEF Exact
<1>. QED  BY <1>1, <1>2 DEF RebaseInv, ForwardInv

LEMMA KeepsSides ==
    ASSUME RebaseInv, SidesInv, Settle, NEW p \in Paths
    PROVE  /\ rows[main].tree[p] = rows[txn.cursor].tree[p] =>
                rows'[main'].tree[p] = rows[txn.head].tree[p]
           /\ (\A i \in Ancestors(rows, txn.head) \ txn.inMain:
                  rows[i].tree[p] = ParentTree(rows, i)[p])
                => rows'[main'].tree[p] = rows[main].tree[p]
<1>1. txn # None /\ txn.stage = "rebase" /\ txn.chain = <<>>
  BY DEF Settle
<1>2. rows'[main'].tree = txn.tipTree
  BY LandSettles
<1>3. BaseTree = rows[txn.head].tree
  BY <1>1 DEF BaseTree
<1>4. (\A i \in Ancestors(rows, txn.head) \ txn.inMain: rows[i].tree[p] = ParentTree(rows, i)[p])
        <=> Untouched(p)
  BY <1>1, OwnIs DEF Untouched
<1>. QED  BY <1>1, <1>2, <1>3, <1>4 DEF SidesInv

(* Every file has a blob that some changeset names, and what the open land *)
(* brings is clear of tombstones: none is set while it is open.            *)
FileNamed(rs, g) == g = None \/ g.blob \in Named(rs)
TreesNamed(rs) == \A i \in DOMAIN rs: \A p \in Paths: FileNamed(rs, rs[i].tree[p])
Brought(r2, rs) ==
    /\ \A i \in DOMAIN r2 \ DOMAIN rs: ({i} \cup Names(i)) \cap redacted = {}
    /\ \A b \in Named(r2) \ Named(rs): SourcesOf(b) \cap redacted = {}
ClearInv ==
    /\ TreesNamed(rows)
    /\ txn # None => TreesNamed(txn.rows) /\ Brought(txn.rows, rows)

LEMMA NamedWith ==
    ASSUME NEW rs, NEW i, NEW row
    PROVE  Named(With(rs, i, row)) = Named(rs) \cup BlobsIn(i.changes)
<1>1. DOMAIN With(rs, i, row) = DOMAIN rs \cup {i}
  BY DEF With
<1>. QED  BY <1>1 DEF Named

(* A merged file is a side, has a side's blob, or a new one whose sources  *)
(* the merge reports.                                                      *)
LEMMA MergedFrom ==
    ASSUME NEW p, NEW b, NEW o, NEW t
    PROVE  LET m == MergePath(p, b, o, t)
           IN  \/ m.file = o \/ m.file = t
               \/ o # None /\ m.file.blob = o.blob
               \/ t # None /\ m.file.blob = t.blob
               \/ SourcesOf(m.file.blob) \subseteq m.inputs
<1>. DEFINE lines == MergeLines(b.blob, o.blob, t.blob)
            take(g) == [file |-> g, rep |-> None, inputs |-> {}]
            merged == [file   |-> File(lines, ResolveExec(b, o, t)),
                       rep    |-> None,
                       inputs |-> {b.blob, o.blob, t.blob}]
            conflict == [file   |-> MarkerFile(p, b, o, t),
                         rep    |-> ContentRep(b, o, t),
                         inputs |-> RepBlobs(ContentRep(b, o, t))]
<1>1. \/ MergePath(p, b, o, t) = take(o) \/ MergePath(p, b, o, t) = take(t)
      \/ /\ b # None /\ o # None /\ t # None /\ lines # None
         /\ MergePath(p, b, o, t) = merged
      \/ MergePath(p, b, o, t) = conflict
  BY DEF MergePath
<1>2. take(o).file = o /\ take(t).file = t
  OBVIOUS
<1>3. lines # None =>
        lines = t.blob \/ lines = o.blob \/ lines = [base |-> b.blob, of |-> {o.blob, t.blob}]
  BY DEF MergeLines
<1>4. SourcesOf([base |-> b.blob, of |-> {o.blob, t.blob}]) \subseteq {b.blob, o.blob, t.blob}
  <2>. DEFINE r == [base |-> b.blob, of |-> {o.blob, t.blob}]
  <2>1. "rep" \notin DOMAIN r /\ r.base = b.blob /\ r.of = {o.blob, t.blob}
    OBVIOUS
  <2>. HIDE DEF r
  <2>2. SourcesOf(r) \subseteq {b.blob, o.blob, t.blob}
    BY <2>1 DEF SourcesOf
  <2>. QED  BY <2>2 DEF r
<1>5. merged.file.blob = lines /\ merged.inputs = {b.blob, o.blob, t.blob}
  BY DEF File
<1>6. SourcesOf(conflict.file.blob) \subseteq conflict.inputs
  <2>. DEFINE k == Marker(p, ContentRep(b, o, t))
  <2>1. conflict.file.blob = k /\ conflict.inputs = RepBlobs(ContentRep(b, o, t))
    BY DEF MarkerFile, File
  <2>2. "rep" \in DOMAIN k /\ k.rep = ContentRep(b, o, t)
    BY DEF Marker
  <2>. HIDE DEF k, conflict
  <2>3. SourcesOf(k) \subseteq RepBlobs(k.rep)
    BY <2>2 DEF SourcesOf
  <2>. QED  BY <2>1, <2>2, <2>3
<1>. HIDE DEF take, merged, conflict, lines
<1>7. CASE MergePath(p, b, o, t) = merged /\ o # None /\ t # None /\ lines # None
  <2>1. MergePath(p, b, o, t).file.blob = lines
        /\ MergePath(p, b, o, t).inputs = {b.blob, o.blob, t.blob}
    BY <1>5, <1>7
  <2>. QED  BY <1>3, <1>4, <1>7, <2>1
<1>8. CASE MergePath(p, b, o, t) = conflict
  BY <1>6, <1>8
<1>. QED  BY <1>1, <1>2, <1>7, <1>8

(* What a difference says of a file: it is named, if it is new.            *)
LEMMA DeltaNames ==
    ASSUME NoneIsNoChange, NEW from, NEW to, NEW p \in Paths
    PROVE  /\ from[p] # to[p] /\ to[p] # None => to[p].blob \in BlobsIn(Delta(from, to))
           /\ \A b \in BlobsIn(Delta(from, to)): \E q \in Paths: to[q] # None /\ b = to[q].blob
<1>. DEFINE d(q) == Delta(from, to)[q]
<1>1. ASSUME NEW q \in Paths
      PROVE  /\ \/ d(q) = None
                \/ d(q) = Change("add", to[q])
                \/ d(q) = Change("mod", to[q])
                \/ d(q) = Change("del", None) /\ to[q] = None
             /\ from[q] # to[q] /\ to[q] # None =>
                   d(q) = Change("add", to[q]) \/ d(q) = Change("mod", to[q])
  <2>1. d(q) = CASE from[q] = to[q] -> None
                 [] from[q] = None  -> Change("add", to[q])
                 [] to[q] = None    -> Change("del", None)
                 [] OTHER           -> Change("mod", to[q])
    BY DEF Delta
  <2>. HIDE DEF d
  <2>. QED  BY <2>1
<1>2. \A op, g: Change(op, g).file = g
  BY DEF Change
<1>. HIDE DEF d
<1>3. ASSUME from[p] # to[p], to[p] # None
      PROVE  to[p].blob \in BlobsIn(Delta(from, to))
  <2>1. d(p) # None /\ d(p).file = to[p]
    BY <1>1, <1>2, <1>3 DEF NoneIsNoChange
  <2>. QED  BY <1>3, <2>1 DEF BlobsIn, d
<1>4. ASSUME NEW b \in BlobsIn(Delta(from, to))
      PROVE  \E q \in Paths: to[q] # None /\ b = to[q].blob
  <2>1. PICK q \in Paths: d(q) # None /\ d(q).file # None /\ b = d(q).file.blob
    BY DEF BlobsIn, d
  <2>2. d(q).file = to[q]
    BY <1>1, <1>2, <2>1
  <2>. QED  BY <2>1, <2>2
<1>. QED  BY <1>3, <1>4

LEMMA ClearInit ==
    ASSUME Init
    PROVE  ClearInv
<1>1. PICK s \in Seeds: rows = s.rows
  BY DEF Init
<1>2. \A i \in DOMAIN rows: \A p \in Paths: rows[i].tree[p] = None \/ rows[i].tree[p].blob \in Named(rows)
  BY <1>1, InputAssumption
<1>. QED  BY <1>2 DEF Init, ClearInv, TreesNamed, FileNamed


LEMMA CreateClear ==
    ASSUME RebaseInv, ClearInv, NEW parents \in {<<>>} \cup {<<i>> : i \in DOMAIN rows},
           NEW stamp, NEW changes \in Edits, Create(parents, stamp, changes)
    PROVE  TreesNamed(rows') /\ Brought(rows', rows)
<1>. DEFINE id == [parents |-> parents, stamp |-> stamp, changes |-> changes, reps |-> NoReps]
            tree == Apply(ParentTree(rows, id), changes)
<1>1. PICK gen: rows' = With(rows, id, [gen |-> gen, tree |-> tree])
  BY DEF Create
<1>2. /\ id \notin DOMAIN rows /\ id \notin redacted /\ BlobsIn(changes) \cap redacted = {}
      /\ id.changes = changes /\ id.reps = NoReps /\ id.parents = parents
  BY DEF Create
<1>3. ASSUME NEW p \in Paths
      PROVE  ParentTree(rows, id)[p] = None \/ ParentTree(rows, id)[p].blob \in Named(rows)
  <2>1. CASE parents = <<>>
    BY <1>2, <2>1 DEF ParentTree, EmptyTree
  <2>2. CASE parents # <<>>
    <3>1. PICK k \in DOMAIN rows: parents = <<k>>
      BY <2>2
    <3>2. ParentTree(rows, id) = rows[k].tree
      BY <1>2, <2>2, <3>1 DEF ParentTree
    <3>. QED  BY <3>2 DEF ClearInv, TreesNamed, FileNamed
  <2>. QED  BY <2>1, <2>2
<1>4. ASSUME NEW p \in Paths
      PROVE  tree[p] = None \/ tree[p].blob \in Named(rows) \cup BlobsIn(changes)
  <2>. HIDE DEF id
  <2>1. \/ tree[p] = ParentTree(rows, id)[p]
        \/ tree[p] = None
        \/ changes[p] # None /\ tree[p] = changes[p].file
    BY DEF Apply
  <2>2. changes[p] # None /\ changes[p].file # None => changes[p].file.blob \in BlobsIn(changes)
    BY DEF BlobsIn
  <2>. QED  BY <1>3, <2>1, <2>2
<1>. HIDE DEF id, tree
<1>5. Named(rows') = Named(rows) \cup BlobsIn(changes)
  BY <1>1, <1>2, NamedWith
<1>6. /\ DOMAIN rows' = DOMAIN rows \cup {id} /\ rows'[id].tree = tree
      /\ \A j \in DOMAIN rows: rows'[j] = rows[j]
  <2>. DEFINE row == [gen |-> gen, tree |-> tree]
  <2>1. row.tree = tree
    OBVIOUS
  <2>. HIDE DEF row
  <2>2. rows' = With(rows, id, row)
    BY <1>1 DEF row
  <2>3. DOMAIN rows' = DOMAIN rows \cup {id} /\ rows'[id] = row
        /\ \A j \in DOMAIN rows: rows'[j] = rows[j]
    BY <1>2, <2>2 DEF With
  <2>. QED  BY <2>1, <2>3
<1>7. TreesNamed(rows')
  <2>1. ASSUME NEW i \in DOMAIN rows', NEW p \in Paths
        PROVE  rows'[i].tree[p] = None \/ rows'[i].tree[p].blob \in Named(rows')
    <3>1. CASE i = id
      BY <1>4, <1>5, <1>6, <3>1
    <3>2. CASE i # id
      BY <1>5, <1>6, <3>2 DEF ClearInv, TreesNamed, FileNamed
    <3>. QED  BY <3>1, <3>2
  <2>. QED  BY <2>1 DEF TreesNamed, FileNamed
<1>8. Names(id) = BlobsIn(changes)
  <2>1. \A p \in Paths: RepBlobs(id.reps[p]) = {}
    BY <1>2 DEF RepBlobs, NoReps
  <2>. QED  BY <1>2, <2>1 DEF Names
<1>9. \A b \in BlobsIn(changes): SourcesOf(b) = {}
  BY InputAssumption DEF SourcesOf
<1>10. Brought(rows', rows)
  BY <1>2, <1>5, <1>6, <1>8, <1>9 DEF Brought
<1>. QED  BY <1>7, <1>10

LEMMA InsertClear ==
    ASSUME NoneIsNoChange, RebaseInv, ClearInv, InsertNode
    PROVE  ClearInv'
<1>. DEFINE row == [gen |-> txn.tipGen + 1, tree |-> Files(Merged)]
            new == Rebased
            r2 == With(txn.rows, new, row)
<1>1. /\ Rebasing /\ new \notin DOMAIN txn.rows /\ GateIds \cap redacted = {}
      /\ txn' = [txn EXCEPT !.chain = Tail(txn.chain), !.tip = new,
                            !.tipTree = Files(Merged), !.tipGen = txn.tipGen + 1,
                            !.made = txn.made + 1, !.rows = r2]
      /\ UNCHANGED <<rows, redacted>>
  BY DEF InsertNode
<1>2. TxnShape /\ TipInv /\ Node \in DOMAIN rows /\ txn # None
  BY <1>1, NextNode DEF Rebasing
<1>3. txn'.rows = r2
  BY <1>1, <1>2 DEF TxnShape
<1>4. new.changes = Delta(txn.tipTree, Files(Merged)) /\ row.tree = Files(Merged)
  BY DEF Rebased
<1>5. /\ TreesNamed(txn.rows) /\ Brought(txn.rows, rows) /\ TreesNamed(rows)
      /\ DOMAIN rows \subseteq DOMAIN txn.rows
  BY <1>2 DEF ClearInv, TipInv
<1>6. \A p \in Paths: Files(Merged)[p] = Merged[p].file
  BY DEF Files
<1>7. ASSUME NEW p \in Paths
      PROVE  \/ FileNamed(txn.rows, Merged[p].file)
             \/ SourcesOf(Merged[p].file.blob) \subseteq Inputs(Merged)
  <2>. DEFINE o == txn.tipTree[p]
              t == txn.rows[Node].tree[p]
              b == ParentTree(txn.rows, Node)[p]
  <2>1. FileNamed(txn.rows, o) /\ FileNamed(txn.rows, t)
    <3>1. txn.tip \in DOMAIN txn.rows /\ txn.tipTree = txn.rows[txn.tip].tree
          /\ Node \in DOMAIN txn.rows
      BY <1>2 DEF TipInv
    <3>. HIDE DEF Node
    <3>. QED  BY <1>5, <3>1 DEF TreesNamed
  <2>2. Merged[p] = MergePath(p, b, o, t)
    BY DEF Merged, MergeTrees
  <2>3. Merged[p].inputs \subseteq Inputs(Merged)
    BY DEF Inputs
  <2>. HIDE DEF Merged, o, t, b
  <2>. QED  BY <2>1, <2>2, <2>3, MergedFrom DEF FileNamed
<1>8. /\ Inputs(Merged) \cap redacted = {} /\ new \notin redacted
      /\ BlobsIn(new.changes) \cap redacted = {}
      /\ \A p \in Paths: RepBlobs(new.reps[p]) \cap redacted = {}
  BY <1>1 DEF GateIds
<1>. HIDE DEF Merged
<1>9. /\ \A p \in Paths: Files(Merged)[p] # txn.tipTree[p] /\ Files(Merged)[p] # None =>
            Files(Merged)[p].blob \in BlobsIn(new.changes)
      /\ \A b \in BlobsIn(new.changes): \E p \in Paths:
            Files(Merged)[p] # None /\ b = Files(Merged)[p].blob
  <2>1. \A b \in BlobsIn(new.changes): \E p \in Paths:
            Files(Merged)[p] # None /\ b = Files(Merged)[p].blob
    <3>. SUFFICES ASSUME NEW b \in BlobsIn(new.changes)
                  PROVE  \E p \in Paths: Files(Merged)[p] # None /\ b = Files(Merged)[p].blob
      OBVIOUS
    <3>1. \E p \in Paths: TRUE
      BY DEF BlobsIn
    <3>. QED  BY <1>4, <3>1, DeltaNames
  <2>. QED  BY <1>4, <2>1, DeltaNames
<1>. HIDE DEF new, row
<1>10. /\ DOMAIN r2 = DOMAIN txn.rows \cup {new} /\ r2[new] = row
       /\ \A j \in DOMAIN txn.rows: r2[j] = txn.rows[j]
       /\ Named(r2) = Named(txn.rows) \cup BlobsIn(new.changes)
  BY <1>1, NamedWith DEF With
<1>. HIDE DEF r2
<1>11. TreesNamed(r2)
  <2>1. ASSUME NEW p \in Paths
        PROVE  FileNamed(r2, Files(Merged)[p])
    <3>1. CASE Files(Merged)[p] = txn.tipTree[p]
      <4>1. FileNamed(txn.rows, txn.tipTree[p])
        BY <1>2, <1>5 DEF TipInv, TreesNamed
      <4>. QED  BY <1>10, <3>1, <4>1 DEF FileNamed
    <3>2. CASE Files(Merged)[p] # txn.tipTree[p]
      BY <1>9, <1>10, <3>2 DEF FileNamed
    <3>. QED  BY <3>1, <3>2
  <2>2. ASSUME NEW i \in DOMAIN r2, NEW p \in Paths
        PROVE  FileNamed(r2, r2[i].tree[p])
    <3>1. CASE i = new
      BY <1>4, <1>10, <2>1, <3>1
    <3>2. CASE i # new
      <4>1. i \in DOMAIN txn.rows /\ r2[i] = txn.rows[i] /\ FileNamed(txn.rows, txn.rows[i].tree[p])
        BY <1>5, <1>10, <3>2 DEF TreesNamed
      <4>. QED  BY <1>10, <4>1 DEF FileNamed
    <3>. QED  BY <3>1, <3>2
  <2>. QED  BY <2>2 DEF TreesNamed
<1>12. ASSUME NEW b \in Named(r2) \ Named(rows)
       PROVE  SourcesOf(b) \cap redacted = {}
  <2>1. CASE b \in Named(txn.rows)
    BY <1>5, <2>1 DEF Brought
  <2>2. CASE b \notin Named(txn.rows)
    <3>1. PICK p \in Paths: Files(Merged)[p] # None /\ b = Files(Merged)[p].blob
      BY <1>9, <1>10, <2>2
    <3>2. SourcesOf(b) \subseteq Inputs(Merged)
      BY <1>6, <1>7, <2>2, <3>1 DEF FileNamed
    <3>. QED  BY <1>8, <3>2
  <2>. QED  BY <2>1, <2>2
<1>13. ASSUME NEW i \in DOMAIN r2 \ DOMAIN rows
       PROVE  ({i} \cup Names(i)) \cap redacted = {}
  <2>1. CASE i = new
    BY <1>8, <2>1 DEF Names
  <2>2. CASE i # new
    BY <1>5, <1>10, <2>2 DEF Brought
  <2>. QED  BY <2>1, <2>2
<1>14. Brought(r2, rows)
  BY <1>12, <1>13 DEF Brought
<1>. QED  BY <1>1, <1>3, <1>5, <1>11, <1>14 DEF ClearInv, TreesNamed, Brought

LEMMA ClearNext ==
    ASSUME NoneIsNoChange, RebaseInv, ClearInv, [Next]_vars
    PROVE  ClearInv' /\ [Brought(rows', rows)]_vars
<1>. DEFINE Good == ClearInv' /\ [Brought(rows', rows)]_vars
<1>0. \A rs: Brought(rs, rs)
  BY DEF Brought
<1>1. ASSUME UNCHANGED <<rows, redacted>>,
             txn' # None => TreesNamed(txn'.rows) /\ Brought(txn'.rows, rows)
      PROVE  Good
  BY <1>0, <1>1 DEF ClearInv, TreesNamed, Brought
<1>2. ASSUME UNCHANGED <<rows, redacted>>, txn # None, txn'.rows = txn.rows
      PROVE  Good
  BY <1>1, <1>2 DEF ClearInv
<1>3. CASE UNCHANGED vars
  BY <1>3 DEF vars, ClearInv, TreesNamed, Brought
<1>4. ASSUME NEW parents \in {<<>>} \cup {<<i>> : i \in DOMAIN rows}, NEW stamp,
             NEW changes \in Edits, Create(parents, stamp, changes)
      PROVE  Good
  <2>1. txn' = None
    BY <1>4 DEF Create
  <2>. QED  BY <1>4, <2>1, CreateClear DEF ClearInv, TreesNamed
<1>5. ASSUME NEW t, Redact(t)
      PROVE  Good
  <2>1. txn' = None /\ rows' = rows
    BY <1>5 DEF Redact
  <2>. QED  BY <1>0, <2>1 DEF ClearInv, TreesNamed
<1>6. ASSUME NEW h, NEW record, Begin(h, record)
      PROVE  Good
  <2>1. UNCHANGED <<rows, redacted>> /\ txn'.rows = rows
    BY <1>6 DEF Begin
  <2>. QED  BY <1>0, <1>1, <2>1 DEF ClearInv
<1>7. CASE SettleContained \/ Rollback
  <2>1. txn' = None /\ UNCHANGED <<rows, redacted>>
    BY <1>7 DEF SettleContained, Rollback
  <2>. QED  BY <1>1, <2>1
<1>8. CASE Walk \/ StartRebase \/ DropNode \/ AdoptNode
  <2>1. txn # None /\ UNCHANGED <<rows, redacted>>
    BY <1>8 DEF Walk, StartRebase, DropNode, AdoptNode, Rebasing
  <2>2. TxnShape
    BY <2>1 DEF RebaseInv, TxnInv
  <2>3. txn'.rows = txn.rows
    BY <1>8, <2>2 DEF Walk, StartRebase, DropNode, AdoptNode, TxnShape
  <2>. QED  BY <1>2, <2>1, <2>3
<1>9. CASE InsertNode
  BY <1>0, <1>9, InsertClear DEF InsertNode
<1>10. CASE Settle
  <2>1. txn # None /\ txn' = None /\ rows' = txn.rows
    BY <1>10 DEF Settle
  <2>. QED  BY <2>1 DEF ClearInv, TreesNamed
<1>. QED
  BY <1>3, <1>4, <1>5, <1>6, <1>7, <1>8, <1>9, <1>10 DEF Next

LEMMA BroughtIsClear ==
    ASSUME Brought(rows', rows), NEW i \in DOMAIN rows' \ DOMAIN rows
    PROVE  LET made == BlobsIn(i.changes) \ Named(rows)
           IN  ({i} \cup Names(i) \cup UNION {SourcesOf(b) : b \in made}) \cap redacted = {}
<1>1. BlobsIn(i.changes) \subseteq Named(rows')
  BY DEF Named
<1>. QED  BY <1>1 DEF Brought

-----------------------------------------------------------------------------
(* The trees of the changesets are trees.                                  *)
RowIsTyped(row) == row.gen \in Nat /\ DOMAIN row.tree = Paths /\ Consistent(row.tree)
RowsAreTyped(rs) == \A i \in DOMAIN rs: RowIsTyped(rs[i])

TreesInv ==
    /\ RowsAreTyped(rows)
    /\ txn # None => RowsAreTyped(txn.rows) /\ txn.tipGen \in Nat

LEMMA TypedWith ==
    ASSUME NEW rs, RowsAreTyped(rs), NEW i, NEW row, RowIsTyped(row)
    PROVE  RowsAreTyped(With(rs, i, row))
  BY DEF RowsAreTyped, With

(* A change list that applies to a tree makes a tree.                      *)
LEMMA AppliedTree ==
    ASSUME NEW t, Consistent(t), NEW c \in Edits, Applicable(t, c)
    PROVE  Consistent(Apply(t, c))
<1>. SUFFICES ASSUME NEW a \in Paths, NEW p \in Paths, <<a, p>> \in Under
              PROVE  Apply(t, c)[a] = None \/ Apply(t, c)[p] = None
  BY RebaseAssumption DEF Consistent
<1>1. t[a] = None \/ t[p] = None
  BY DEF Consistent
<1>2. /\ Apply(t, c)[a] = None \/ Apply(t, c)[a] = After(t, c, a)
      /\ Apply(t, c)[p] = None \/ Apply(t, c)[p] = After(t, c, p)
  BY DEF Apply, After
<1>3. CASE c[p] # None
  BY <1>2, <1>3 DEF Applicable
<1>4. CASE c[p] = None /\ c[a] = None
  BY <1>1, <1>2, <1>4 DEF After
<1>5. CASE c[p] = None /\ c[a] # None
  <2>1. CASE c[a].op = "add"
    BY <1>5, <2>1 DEF Apply
  <2>2. CASE c[a].op = "mod"
    BY <1>1, <1>2, <1>5, <2>2 DEF After, Applicable
  <2>3. CASE c[a].op = "del" /\ c[a].file = None
    BY <1>2, <1>5, <2>3 DEF After
  <2>. QED  BY <1>5, <2>1, <2>2, <2>3, InputAssumption
<1>. QED  BY <1>3, <1>4, <1>5

LEMMA TreesInit ==
    ASSUME Init
    PROVE  TreesInv
  BY InputAssumption DEF Init, TreesInv, RowsAreTyped, RowIsTyped

LEMMA CreateTrees ==
    ASSUME RebaseInv, TreesInv, NEW ps \in {<<>>} \cup {<<i>>: i \in DOMAIN rows},
           NEW s \in Stamps, NEW c \in Edits, Create(ps, s, c)
    PROVE  TreesInv'
<1>. DEFINE id == [parents |-> ps, stamp |-> s, changes |-> c, reps |-> NoReps]
            gen == IF ps = <<>> THEN 0 ELSE rows[ps[1]].gen + 1
            tree == Apply(ParentTree(rows, id), c)
<1>1. /\ Applicable(ParentTree(rows, id), c)
      /\ rows' = With(rows, id, [gen |-> gen, tree |-> tree])
      /\ txn = None /\ txn' = None
  BY DEF Create
<1>2. ps = <<>> \/ (ps # <<>> /\ ps[1] \in DOMAIN rows)
  OBVIOUS
<1>3. Consistent(ParentTree(rows, id))
  <2>1. CASE ps = <<>>
    BY <2>1, RebaseAssumption DEF ParentTree, EmptyTree, Consistent
  <2>2. CASE ps # <<>> /\ ps[1] \in DOMAIN rows
    BY <2>2 DEF ParentTree, TreesInv, RowsAreTyped, RowIsTyped
  <2>. QED  BY <1>2, <2>1, <2>2
<1>4. gen \in Nat
  BY <1>2 DEF TreesInv, RowsAreTyped, RowIsTyped
<1>5. Consistent(tree) /\ DOMAIN tree = Paths
  <2>. HIDE DEF id
  <2>. QED  BY <1>1, <1>3, AppliedTree DEF Apply
<1>6. RowIsTyped([gen |-> gen, tree |-> tree])
  <2>. HIDE DEF gen, tree
  <2>. QED  BY <1>4, <1>5 DEF RowIsTyped
<1>7. RowsAreTyped(rows')
  <2>. HIDE DEF gen, tree, id
  <2>. QED  BY <1>1, <1>6, TypedWith DEF TreesInv
<1>. QED  BY <1>1, <1>7 DEF TreesInv

LEMMA InsertTrees ==
    ASSUME RebaseInv, TreesInv, InsertNode
    PROVE  TreesInv'
<1>1. txn # None /\ rows' = rows /\ MergeStands
  BY DEF InsertNode, Rebasing
<1>2. TxnShape
  BY <1>1 DEF RebaseInv, TxnInv
<1>3. /\ txn'.rows = With(txn.rows, Rebased, [gen |-> txn.tipGen + 1, tree |-> Files(Merged)])
      /\ txn'.tipGen = txn.tipGen + 1
  <2>. HIDE DEF Rebased, Merged
  <2>. QED  BY <1>2 DEF InsertNode, TxnShape
<1>4. RowIsTyped([gen |-> txn.tipGen + 1, tree |-> Files(Merged)])
  <2>1. DOMAIN Files(Merged) = Paths
    BY DEF Files
  <2>2. Consistent(Files(Merged))
    BY <1>1 DEF MergeStands
  <2>. HIDE DEF Files, Merged
  <2>. QED  BY <1>1, <2>1, <2>2 DEF RowIsTyped, TreesInv
<1>5. RowsAreTyped(txn'.rows)
  BY <1>1, <1>3, <1>4, TypedWith DEF TreesInv
<1>. QED  BY <1>1, <1>3, <1>5 DEF TreesInv

LEMMA TreesNext ==
    ASSUME RebaseInv, TreesInv, [Next]_vars
    PROVE  TreesInv'
<1>1. CASE UNCHANGED vars
  BY <1>1 DEF vars, TreesInv
<1>2. CASE \E ps \in {<<>>} \cup {<<i>>: i \in DOMAIN rows}, s \in Stamps, c \in Edits:
             Create(ps, s, c)
  BY <1>2, CreateTrees
<1>3. CASE \E x \in Redactable: Redact(x)
  BY <1>3 DEF Redact, TreesInv
<1>4. CASE \E h \in DOMAIN rows, record \in BOOLEAN: Begin(h, record)
  <2>1. rows' = rows /\ txn'.rows = rows /\ txn'.tipGen = rows[main].gen
    BY <1>4 DEF Begin
  <2>2. main \in DOMAIN rows
    BY DEF RebaseInv, GraphInv
  <2>. QED  BY <2>1, <2>2 DEF TreesInv, RowsAreTyped, RowIsTyped
<1>5. CASE SettleContained \/ Rollback
  BY <1>5 DEF SettleContained, Rollback, TreesInv
<1>6. CASE Walk \/ StartRebase \/ DropNode \/ AdoptNode
  <2>1. txn # None /\ rows' = rows
    BY <1>6 DEF Walk, StartRebase, DropNode, AdoptNode, Rebasing
  <2>2. TxnShape
    BY <2>1 DEF RebaseInv, TxnInv
  <2>3. txn'.rows = txn.rows /\ txn'.tipGen = txn.tipGen
    BY <1>6, <2>2 DEF Walk, StartRebase, DropNode, AdoptNode, TxnShape
  <2>. QED  BY <2>1, <2>3 DEF TreesInv
<1>7. CASE InsertNode
  BY <1>7, InsertTrees
<1>8. CASE Settle
  <2>1. txn # None /\ txn' = None /\ rows' = txn.rows
    BY <1>8 DEF Settle
  <2>. QED  BY <2>1 DEF TreesInv
<1>. QED
  BY <1>1, <1>2, <1>3, <1>4, <1>5, <1>6, <1>7, <1>8 DEF Next

LEMMA RebaseTypes ==
    ASSUME RebaseInv, TreesInv
    PROVE  TypeOK
<1>1. main \in DOMAIN rows
  BY DEF RebaseInv, GraphInv
<1>2. \A i \in DOMAIN rows: /\ rows[i].gen \in Nat /\ DOMAIN rows[i].tree = Paths
                            /\ Consistent(rows[i].tree)
                            /\ ParentsOf(i) \subseteq DOMAIN rows
  BY RowsGraph DEF RebaseInv, GraphInv, TreesInv, RowsAreTyped, RowIsTyped
<1>3. ASSUME txn # None
      PROVE  /\ DOMAIN rows \subseteq DOMAIN txn.rows /\ txn.tip \in DOMAIN txn.rows
             /\ txn.cursor \in DOMAIN rows
             /\ \A n \in DOMAIN txn.chain: txn.chain[n] \in DOMAIN rows
  <2>1. ChainInv /\ TipInv
    BY <1>3 DEF RebaseInv, TxnInv
  <2>2. PICK chain \in Seq(Own): chain = txn.chain
    BY <2>1 DEF ChainInv
  <2>3. \A n \in DOMAIN chain: chain[n] \in Own
    OBVIOUS
  <2>4. Own \subseteq DOMAIN rows
    BY DEF Own, Reached
  <2>. QED  BY <2>1, <2>2, <2>3, <2>4 DEF ChainInv, TipInv
<1>. QED  BY <1>1, <1>2, <1>3 DEF TypeOK

-----------------------------------------------------------------------------
(* The import, whose steps are dealt with in a module of their own: what   *)
(* this proves of its module it proves of the instance here.               *)
ImpP == INSTANCE ImportProofs WITH
    Paths <- GitPaths, Blobs <- GitBlobs, MaxMarks <- MaxTombs,
    head <- gitHead, objects <- importObjects, rows <- importRows, main <- importMain,
    runs <- importRuns

LEMMA ImportIsIt ==
    /\ Imp!ImportAssumption <=> ImpP!ImportAssumption
    /\ Imp!Init <=> ImpP!Init
    /\ [Imp!Next]_(Imp!vars) <=> [ImpP!Next]_(ImpP!vars)
    /\ Imp!TypeOK <=> ImpP!TypeOK
    /\ Imp!HistoryKept <=> ImpP!HistoryKept
    /\ Imp!RunsComplete <=> ImpP!RunsComplete
    /\ Imp!GraftMain <=> ImpP!GraftMain
    /\ Imp!Descent = ImpP!Descent
    /\ Imp!vars = ImpP!vars
<1>1. Imp!ImportAssumption <=> ImpP!ImportAssumption
  BY DEF Imp!Link, ImpP!Link, Imp!ImportAssumption, ImpP!ImportAssumption, Imp!ToSet, ImpP!ToSet
<1>2. Imp!Init <=> ImpP!Init
  BY DEF Imp!Init, ImpP!Init
<1>3. Imp!Commit <=> ImpP!Commit
  BY DEF Imp!Link, ImpP!Link, Imp!store, ImpP!store, Imp!Trees, ImpP!Trees, Imp!Commits,
         ImpP!Commits, Imp!Commit, ImpP!Commit, Imp!IsInjective, ImpP!IsInjective
<1>4. Imp!Reset <=> ImpP!Reset
  BY DEF Imp!store, ImpP!store, Imp!Commits, ImpP!Commits, Imp!Reset, ImpP!Reset
<1>5. Imp!Mark <=> ImpP!Mark
  BY DEF Imp!Mapped, ImpP!Mapped, Imp!Mark, ImpP!Mark, Imp!Cardinality, ImpP!Cardinality
<1>6. Imp!Land <=> ImpP!Land
  BY DEF Imp!Land, ImpP!Land
<1>7. Imp!ImportBegin <=> ImpP!ImportBegin
  BY DEF Imp!Link, ImpP!Link, Imp!store, ImpP!store, Imp!Commits, ImpP!Commits, Imp!Mapped,
         ImpP!Mapped, Imp!Reach, ImpP!Reach, Imp!collect_ancestors, ImpP!collect_ancestors,
         Imp!Ancestors, ImpP!Ancestors, Imp!is_ancestor, ImpP!is_ancestor, Imp!Change, ImpP!Change,
         Imp!tree_diff, ImpP!tree_diff, Imp!EmptyTree, ImpP!EmptyTree, Imp!FirstParentTree,
         ImpP!FirstParentTree, Imp!ChangesOf, ImpP!ChangesOf, Imp!validate_entry,
         ImpP!validate_entry, Imp!Unsupported, ImpP!Unsupported, Imp!Ready, ImpP!Ready, Imp!Ended,
         ImpP!Ended, Imp!ImportBegin, ImpP!ImportBegin, Imp!IsInjective, ImpP!IsInjective,
         Imp!ToSet, ImpP!ToSet
<1>8. Imp!ImportBlobs <=> ImpP!ImportBlobs
  BY DEF Imp!Link, ImpP!Link, Imp!Change, ImpP!Change, Imp!tree_diff, ImpP!tree_diff,
         Imp!EmptyTree, ImpP!EmptyTree, Imp!FirstParentTree, ImpP!FirstParentTree, Imp!ChangesOf,
         ImpP!ChangesOf, Imp!Ended, ImpP!Ended, Imp!Files, ImpP!Files, Imp!ChangedFiles,
         ImpP!ChangedFiles, Imp!ImportBlobs, ImpP!ImportBlobs, Imp!Min, ImpP!Min
<1>9. Imp!ImportRows <=> ImpP!ImportRows
  BY DEF Imp!Commits, ImpP!Commits, Imp!Mapped, ImpP!Mapped, Imp!Change, ImpP!Change,
         Imp!tree_diff, ImpP!tree_diff, Imp!EmptyTree, ImpP!EmptyTree, Imp!FirstParentTree,
         ImpP!FirstParentTree, Imp!ChangesOf, ImpP!ChangesOf, Imp!Gen, ImpP!Gen, Imp!Offender,
         ImpP!Offender, Imp!Backslash, ImpP!Backslash, Imp!offends_text_rule,
         ImpP!offends_text_rule, Imp!escape_text_lossless, ImpP!escape_text_lossless,
         Imp!sanitize_pair, ImpP!sanitize_pair, Imp!Prepared, ImpP!Prepared, Imp!ImportRows,
         ImpP!ImportRows, Imp!FlattenSeq, ImpP!FlattenSeq, Imp!Max, ImpP!Max, Imp!Min, ImpP!Min,
         Imp!ToSet, ImpP!ToSet
<1>10. Imp!GraftMain <=> ImpP!GraftMain
  BY DEF Imp!Mapped, ImpP!Mapped, Imp!Ended, ImpP!Ended, Imp!Best, ImpP!Best,
         Imp!longest_chain_head, ImpP!longest_chain_head, Imp!Descent, ImpP!Descent,
         Imp!Descending, ImpP!Descending, Imp!chain_descending_from, ImpP!chain_descending_from,
         Imp!ref_move, ImpP!ref_move, Imp!GraftMain, ImpP!GraftMain, Imp!Max, ImpP!Max, Imp!ToSet,
         ImpP!ToSet
<1>11. Imp!ImportCrash <=> ImpP!ImportCrash
  BY DEF Imp!store, ImpP!store, Imp!Ended, ImpP!Ended, Imp!ImportCrash, ImpP!ImportCrash
<1>12. Imp!Next <=> ImpP!Next
  BY <1>3, <1>4, <1>5, <1>6, <1>7, <1>8, <1>9, <1>10, <1>11 DEF Imp!Next, ImpP!Next
<1>13. Imp!TypeOK <=> ImpP!TypeOK
  BY DEF Imp!Link, ImpP!Link, Imp!Trees, ImpP!Trees, Imp!Commits, ImpP!Commits, Imp!Mapped,
         ImpP!Mapped, Imp!TypeOK, ImpP!TypeOK, Imp!ToSet, ImpP!ToSet
<1>14. Imp!HistoryKept <=> ImpP!HistoryKept
  BY DEF Imp!Mapped, ImpP!Mapped, Imp!Offender, ImpP!Offender, Imp!Backslash, ImpP!Backslash,
         Imp!offends_text_rule, ImpP!offends_text_rule, Imp!unescape_text_lossless,
         ImpP!unescape_text_lossless, Imp!HistoryKept, ImpP!HistoryKept, Imp!ToSet, ImpP!ToSet
<1>15. Imp!RunsComplete <=> ImpP!RunsComplete
  BY DEF Imp!Mapped, ImpP!Mapped, Imp!RunsComplete, ImpP!RunsComplete
<1>16. Imp!Descent = ImpP!Descent
  BY DEF Imp!Mapped, ImpP!Mapped, Imp!Descent, ImpP!Descent, Imp!ToSet, ImpP!ToSet
<1>17. Imp!vars = ImpP!vars
  BY DEF Imp!vars, ImpP!vars
<1>. QED
  BY <1>1, <1>2, <1>10, <1>12, <1>13, <1>14, <1>15, <1>16, <1>17
  DEF Imp!vars, ImpP!vars

-----------------------------------------------------------------------------
(* The tools.                                                              *)

(* A step is one of the component at work.                                 *)
LEMMA PartSteps ==
    ASSUME [ToolsNext]_toolVars
    PROVE  /\ part' = part
           /\ part = "backup" => [Bak!Next]_Bak!vars
           /\ part = "adopt" => [Ado!Next]_Ado!vars
           /\ part = "copy" => [Copy!Next]_Copy!vars
           /\ part = "rebase" => [Next]_vars
           /\ part = "import" => [Imp!Next]_(Imp!vars)
           /\ part # "import" => UNCHANGED Imp!vars
           /\ part # "copy" => UNCHANGED Copy!vars
           /\ part # "rebase" => UNCHANGED vars
<1>1. CASE UNCHANGED toolVars
  <2>1. /\ part' = part /\ UNCHANGED copyVars /\ UNCHANGED backupVars /\ UNCHANGED adoptVars
        /\ UNCHANGED vars /\ UNCHANGED importVars
    BY <1>1 DEF toolVars
  <2>2. UNCHANGED Bak!vars /\ UNCHANGED Ado!vars
    BY <2>1 DEF backupVars, adoptVars, Bak!vars, Ado!vars
  <2>3. UNCHANGED Copy!vars
    BY <2>1 DEF copyVars, Copy!vars, Copy!server, Copy!local, Copy!ghosts, Copy!counts
  <2>4. UNCHANGED Imp!vars
    BY <2>1 DEF importVars, Imp!vars, Imp!store
  <2>. QED  BY <2>1, <2>2, <2>3, <2>4
<1>2. CASE ToolsNext
  <2>1. UNCHANGED copyVars => UNCHANGED Copy!vars
    BY DEF copyVars, Copy!vars, Copy!server, Copy!local, Copy!ghosts, Copy!counts
  <2>2. UNCHANGED importVars => UNCHANGED Imp!vars
    BY DEF importVars, Imp!vars, Imp!store
  <2>. QED  BY <1>2, <2>1, <2>2 DEF ToolsNext
<1>. QED  BY <1>1, <1>2

(* backup.rs and adopt.rs, for any stores, targets, repos and rows, any    *)
(* number of commands that overlap, of deaths and of artifacts that rot: a *)
(* restore that ended well left the backup's database and every object it  *)
(* names, but for what a purge removed or the waiver names, and nothing    *)
(* that rotted got in; whatever the adoptions, their failures and the      *)
(* operator did, a server that is up serves every row that was             *)
(* acknowledged, and no row is lost.                                       *)
THEOREM MovedStoresAreWhole ==
    ASSUME Bak!BackupAssumption, Ado!AdoptAssumption
    PROVE  ToolsSpec => []StoresWhole
<1>. DEFINE I == /\ part = "backup" => BackupInv
                 /\ part = "adopt" => AdoptInv
<1>1. ToolsInit => I
  BY BackupInit, AdoptInit DEF ToolsInit
<1>2. I /\ [ToolsNext]_toolVars => I'
  BY BackupNext, AdoptNext, PartSteps
<1>3. I => StoresWhole
  BY BackupHolds, AdoptHolds DEF StoresWhole
<1>. QED  BY <1>1, <1>2, <1>3, PTL DEF ToolsSpec

(* sync.rs, land.rs, sparse.rs, restore.rs and commit.rs, for any paths    *)
(* and contents, whatever the editor writes between the steps of a verb,   *)
(* whatever main does meanwhile and wherever a verb dies: what the user    *)
(* wrote while no verb ran is still there, unless a verb was forced or     *)
(* sparse remove dropped a tracked file.                                   *)
THEOREM VerbsKeepWork ==
    ASSUME Copy!CopyAssumption
    PROVE  ToolsSpec => WorkKept
<1>. DEFINE I == part = "copy" => CopyInv
            Kept == \A p \in mine: disk'[p] # disk[p] =>
                      \/ edits' # edits
                      \/ verb.force
                      \/ verb.op = "remove" /\ index[p] # None
<1>1. ToolsInit => I
  BY CopyInit DEF ToolsInit
<1>2. I /\ [ToolsNext]_toolVars => I'
  BY CopyNext, PartSteps
<1>3. I /\ [ToolsNext]_toolVars => [Kept]_(Copy!vars)
  BY KeepStep, PartSteps
<1>. QED
  BY <1>1, <1>2, <1>3, PTL DEF ToolsSpec, WorkKept, Copy!WorkKept

(* status.rs, for any paths, contents, prefixes and edits, whatever main    *)
(* does and wherever a verb dies: between verbs, until a restore or doctor *)
(* rebuilds the index from something else than the head, what status says  *)
(* of a path that is not blind is true.  A path of the cone it calls clean *)
(* is on the disk as the head has it; a path it calls dirty was written by *)
(* the user or by a verb that did not finish; and a clean path that is     *)
(* still marked conflicted has a marker on the disk.                       *)
THEOREM StatusIsTruthful ==
    ASSUME Copy!CopyAssumption
    PROVE  ToolsSpec => []StatusTruthful
<1>. DEFINE I == part = "copy" => CopyInv /\ StatusInv
<1>1. ToolsInit => I
  BY CopyInit, StatusInit DEF ToolsInit
<1>2. I /\ [ToolsNext]_toolVars => I'
  BY CopyNext, StatusNext, PartSteps
<1>3. I => StatusTruthful
  BY TruthfulStatus DEF StatusTruthful
<1>. QED  BY <1>1, <1>2, <1>3, PTL DEF ToolsSpec

(* land.rs, for any repo an import leaves, any uploads, merges and change  *)
(* lists, any number of lands, creates and redactions and wherever a land  *)
(* is rolled back: a conflicted changeset is on main, with the marker of   *)
(* the sides that it names at the path in its tree, and what a land        *)
(* answered stays true of main.                                            *)
THEOREM LandingsStand == ToolsSpec => []LandsRecorded
<1>. DEFINE I == part = "rebase" => RebaseInv
<1>1. ToolsInit => I
  BY RebaseInit DEF ToolsInit
<1>2. I /\ [ToolsNext]_toolVars => I'
  BY RebaseNext, PartSteps
<1>3. I => LandsRecorded
  BY RebaseHolds DEF LandsRecorded
<1>. QED  BY <1>1, <1>2, <1>3, PTL DEF ToolsSpec

(* When main moves, it moves to a changeset that has the old main below it *)
(* and every changeset it gained has one parent, merges of the chain       *)
(* included; a chain on main whose changes are what they should be is      *)
(* adopted, not rewritten.                                                 *)
THEOREM LandsAdvanceMain == ToolsSpec => MainAdvances
<1>. DEFINE I == part = "rebase" => RebaseInv
            Line == main' # main =>
                      /\ main \in Ancestors(rows', main')
                      /\ \A i \in Ancestors(rows', main') \ Ancestors(rows, main):
                            Len(i.parents) = 1
            Forward == (/\ Settle
                        /\ txn.cursor = main
                        /\ \A i \in Ancestors(rows, txn.head) \ txn.inMain:
                              /\ Len(i.parents) = 1
                              /\ i.changes = Delta(ParentTree(rows, i), rows[i].tree))
                       => main' = txn.head /\ rows' = rows
<1>1. ToolsInit => I
  BY RebaseInit DEF ToolsInit
<1>2. I /\ [ToolsNext]_toolVars => I'
  BY RebaseNext, PartSteps
<1>3. I /\ [ToolsNext]_toolVars => [Line]_vars
  BY MovesInLine, PartSteps
<1>4. I /\ [ToolsNext]_toolVars => [Forward]_vars
  BY AdoptsForward, PartSteps
<1>. QED
  BY <1>1, <1>2, <1>3, <1>4, PTL DEF ToolsSpec, MainAdvances, MainAdvancesLinearly, FastForwardAdopts

(* import.rs, for any paths and contents, any texts, any history of the    *)
(* source that grows, forks, merges and is reset between runs, whatever is *)
(* redacted, whatever clients land and wherever a run dies: a changeset's  *)
(* parents are there, its generation is above theirs, its tree is in the   *)
(* CAS with nothing unsupported in it, its escaped text reads back; a run  *)
(* that was refused left nothing and one that ended well left main at the  *)
(* source's head; main moves only to a descendant, never from a client's.  *)
THEOREM ImportIsSound ==
    ASSUME Imp!ImportAssumption
    PROVE  ToolsSpec => ImportSound
<1>. DEFINE I == part = "import" => ImpP!ImportInv
            Forward == Imp!GraftMain /\ importMain # None /\ importMain' # importMain =>
                         importMain # Native /\ importMain \in Imp!Descent'[importMain']
            Sound == part = "import" => Imp!HistoryKept /\ Imp!RunsComplete
<1>1. ToolsInit => I
  BY ImportIsIt, ImpP!ImportInit DEF ToolsInit
<1>2. I /\ [ToolsNext]_toolVars => I'
  BY ImportIsIt, ImpP!ImportNext, PartSteps
<1>3. I => Sound
  BY ImportIsIt, ImpP!ImportHolds
<1>4. I /\ [ToolsNext]_toolVars => [Forward]_(Imp!vars)
  <2>1. ASSUME ImpP!ImportInv, [Imp!Next]_(Imp!vars)
        PROVE  [Forward]_(Imp!vars)
    <3>1. [ImpP!GraftMain /\ importMain # None /\ importMain' # importMain =>
             importMain # Native /\ importMain \in ImpP!Descent'[importMain']]_(ImpP!vars)
      BY <2>1, ImportIsIt, ImpP!MainForward
    <3>2. Imp!Descent' = ImpP!Descent'
      BY DEF Imp!Descent, ImpP!Descent, Imp!Mapped, ImpP!Mapped, Imp!ToSet, ImpP!ToSet
    <3>3. UNCHANGED ImpP!vars <=> UNCHANGED Imp!vars
      BY DEF Imp!vars, ImpP!vars
    <3>. QED  BY <3>1, <3>2, <3>3, ImportIsIt
  <2>. HIDE DEF Forward
  <2>. QED  BY <2>1, PartSteps
<1>. QED
  BY <1>1, <1>2, <1>3, <1>4, PTL DEF ToolsSpec, ImportSound, Imp!MainFastForwards

(* A land loses neither side of any path: what main left as the chain      *)
(* found it becomes the head's, what the chain left alone stays main's.    *)
THEOREM LandsKeepBothSides ==
    ASSUME NoneIsNoChange
    PROVE  ToolsSpec => LandKeepsBothSides
<1>. DEFINE I == part = "rebase" => RebaseInv /\ SidesInv
            Sides == Settle =>
                       LET fork  == rows[txn.cursor].tree
                           ours  == rows[main].tree
                           theirs == rows[txn.head].tree
                           now   == rows'[main'].tree
                           chain == Ancestors(rows, txn.head) \ txn.inMain
                       IN  \A p \in Paths:
                             /\ ours[p] = fork[p] => now[p] = theirs[p]
                             /\ (\A i \in chain: rows[i].tree[p] = ParentTree(rows, i)[p])
                                  => now[p] = ours[p]
<1>1. ToolsInit => I
  BY RebaseInit DEF ToolsInit, Init, SidesInv
<1>2. I /\ [ToolsNext]_toolVars => I'
  BY RebaseNext, SidesNext, PartSteps
<1>3. I /\ [ToolsNext]_toolVars => [Sides]_vars
  <2>1. ASSUME RebaseInv, SidesInv, Settle PROVE Sides
    BY <2>1, KeepsSides
  <2>. HIDE DEF Sides
  <2>. QED  BY <2>1, PartSteps DEF Sides
<1>. QED
  BY <1>1, <1>2, <1>3, PTL DEF ToolsSpec, LandKeepsBothSides

(* No create, rebase or recorded conflict brings in a changeset that is    *)
(* redacted, that names redacted content or whose new blobs embed it,      *)
(* however redactions fall between lands.                                  *)
THEOREM RedactedContentStaysOut ==
    ASSUME NoneIsNoChange
    PROVE  ToolsSpec => RedactedStaysOut
<1>. DEFINE I == part = "rebase" => RebaseInv /\ ClearInv
            Clear == \A i \in DOMAIN rows' \ DOMAIN rows:
                       LET made == BlobsIn(i.changes) \ Named(rows)
                       IN  ({i} \cup Names(i) \cup UNION {SourcesOf(b) : b \in made})
                             \cap redacted = {}
<1>1. ToolsInit => I
  BY RebaseInit, ClearInit DEF ToolsInit
<1>2. I /\ [ToolsNext]_toolVars => I'
  BY RebaseNext, ClearNext, PartSteps
<1>3. I /\ [ToolsNext]_toolVars => [Clear]_vars
  <2>1. Brought(rows', rows) => Clear
    BY BroughtIsClear
  <2>. HIDE DEF Clear
  <2>. QED  BY <2>1, ClearNext, PartSteps
<1>. QED
  BY <1>1, <1>2, <1>3, PTL DEF ToolsSpec, RedactedStaysOut

(* Every component's invariant, for the one at work.                       *)
ToolsAssumption ==
    /\ Copy!CopyAssumption /\ Imp!ImportAssumption
    /\ Bak!BackupAssumption /\ Ado!AdoptAssumption

ToolsInv ==
    /\ part = "rebase" => RebaseInv /\ TreesInv
    /\ part = "copy" => CopyInv
    /\ part = "import" => ImpP!ImportInv
    /\ part = "backup" => BackupInv
    /\ part = "adopt" => AdoptInv

LEMMA CopyTypes ==
    ASSUME CopyInv
    PROVE  Copy!TypeOK
<1>. USE DEF CopyInv
<1>1. \A i \in DOMAIN hist: hist[i].tree \in Copy!Trees /\ hist[i].parent \in 0..(i - 1)
  <2>. DEFINE T == [tree: Copy!Trees, parent: Nat]
  <2>1. PICK h \in Seq(T): h = hist
    BY DEF ServerTypes
  <2>2. \A i \in DOMAIN h: i \in Nat \ {0} /\ h[i].tree \in Copy!Trees /\ h[i].parent \in Nat
    <3>1. \A e \in T: e.tree \in Copy!Trees /\ e.parent \in Nat
      OBVIOUS
    <3>2. DOMAIN h = 1..Len(h) /\ Len(h) \in Nat /\ \A i \in 1..Len(h): h[i] \in T
      <4>. HIDE DEF T
      <4>. QED  OBVIOUS
    <3>. HIDE DEF T
    <3>. QED  BY <3>1, <3>2
  <2>3. \A i \in DOMAIN h: h[i].parent < i
    BY <2>1 DEF ServerTypes
  <2>. QED  BY <2>1, <2>2, <2>3
<1>2. state = None \/ (state.head \in DOMAIN hist /\ state.conflicted \subseteq CheckoutPaths)
  BY DEF LocalTypes, CopyStates
<1>3. \A p \in CheckoutPaths: index[p] = None \/ index[p].blob \in CheckoutBlobs
  BY DEF LocalTypes, IndexRows, Copy!Rows
<1>. QED  BY <1>1, <1>2, <1>3 DEF Copy!TypeOK, ServerTypes, LocalTypes

(* The types of every component: no changeset's tree has a file where it   *)
(* has a directory, whatever was merged; what is locked is locked by who   *)
(* is at work; what is mapped and what main names is there.                *)
THEOREM ToolsTypesAreKept ==
    ASSUME ToolsAssumption
    PROVE  ToolsSpec => []ToolsTypeOK
<1>. USE DEF ToolsAssumption
<1>1. ToolsInit => ToolsInv
  BY RebaseInit, TreesInit, CopyInit, ImportIsIt, ImpP!ImportInit, BackupInit, AdoptInit
  DEF ToolsInit, ToolsInv
<1>2. ToolsInv /\ [ToolsNext]_toolVars => ToolsInv'
  BY RebaseNext, TreesNext, CopyNext, ImportIsIt, ImpP!ImportNext, BackupNext, AdoptNext,
     PartSteps
  DEF ToolsInv
<1>3. ToolsInv => ToolsTypeOK
  <2>1. BackupInv => Bak!TypeOK
    BY DEF BackupInv
  <2>2. AdoptInv => Ado!TypeOK
    BY DEF AdoptInv
  <2>3. ImpP!ImportInv => Imp!TypeOK
    BY ImportIsIt, ImpP!ImportHolds
  <2>. QED  BY <2>1, <2>2, <2>3, RebaseTypes, CopyTypes DEF ToolsInv, ToolsTypeOK
<1>. QED  BY <1>1, <1>2, <1>3, PTL DEF ToolsSpec
=============================================================================
