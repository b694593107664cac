------------------------------- MODULE Tools -------------------------------
(***************************************************************************)
(* What moves a repo's history in and out, side by side: the land's rebase *)
(* (this module extends it), the working copy and its verbs, the import    *)
(* from git, backup and restore, and the adoption of the split layout.  A  *)
(* behaviour is one of them at work.                                       *)
(***************************************************************************)
EXTENDS Rebase, Integers

CONSTANTS
    Parts,                      \* the components that may be at work
    CheckoutPaths, CheckoutBlobs, CheckoutMarkers,              \* the working copy
    CheckoutStart, CheckoutPlans,
    Native, GitPaths, GitBlobs, TextOf, Options, MaxCommits,    \* the import
    MaxTombs, MaxRuns,
    Repos, Objects, Configs, Targets, MaxCrashes, MaxRot,       \* backup and restore
    Commands, MaxAdoptRows                                      \* the adoption

VARIABLES
    part,
    hist, head, tombstones, snap, state, index, disk, verb, plan, edits, verbCrashes, verbRuns,
    mine, blind, torn, rebuilt,
    git, gitHead, tombs, csTombs, importObjects, importRows, importMain, run, last, importRuns,
    cfg, refs, objects, locked, purged, session, dest, target, restore, waiver, lastDone,
    crashes, rots,
    mode, db, hot, catalog, files, lock, server, adopt, acked, overtaken, adoptRuns,
    adoptCrashes

Copy == INSTANCE WorkingCopy WITH
    Paths <- CheckoutPaths, Contents <- CheckoutBlobs, Markers <- CheckoutMarkers,
    Start <- CheckoutStart, Plans <- CheckoutPlans, main <- head, redacted <- tombstones,
    crashes <- verbCrashes, runs <- verbRuns
Imp == INSTANCE Import WITH
    Paths <- GitPaths, Blobs <- GitBlobs, MaxMarks <- MaxTombs,
    head <- gitHead, objects <- importObjects, rows <- importRows, main <- importMain,
    runs <- importRuns
Bak == INSTANCE Backup
Ado == INSTANCE Adopt WITH
    MaxRows <- MaxAdoptRows, runs <- adoptRuns, crashes <- adoptCrashes

-----------------------------------------------------------------------------
copyVars == <<hist, head, tombstones, snap, state, index, disk, verb, plan, edits, verbCrashes,
             verbRuns, mine, blind, torn, rebuilt>>
importVars == <<git, gitHead, tombs, csTombs, importObjects, importRows, importMain, run, last,
               importRuns>>
backupVars == <<cfg, refs, objects, locked, purged, session, dest, target, restore, waiver,
               lastDone, crashes, rots>>
adoptVars == <<mode, db, hot, catalog, files, lock, server, adopt, acked, overtaken, adoptRuns,
              adoptCrashes>>
toolVars == <<part, vars, copyVars, importVars, backupVars, adoptVars>>

(* A component that is not at work has no state.                           *)
NoRebase == rows = <<>> /\ main = None /\ lands = <<>> /\ redacted = {} /\ txn = None
NoCopy ==
    /\ hist = None /\ head = None /\ tombstones = None /\ snap = None /\ state = None
    /\ index = None /\ disk = None /\ verb = None /\ plan = None /\ edits = None
    /\ verbCrashes = None /\ verbRuns = None
    /\ mine = {} /\ blind = {} /\ torn = {} /\ rebuilt = FALSE
NoImport ==
    /\ git = None /\ gitHead = None /\ tombs = None /\ csTombs = None
    /\ importObjects = None /\ importRows = None /\ importMain = None
    /\ run = None /\ last = None /\ importRuns = None
NoBackup ==
    /\ cfg = None /\ refs = None /\ objects = None /\ locked = None /\ purged = None
    /\ session = None /\ dest = None /\ target = None /\ restore = None /\ waiver = None
    /\ lastDone = None /\ crashes = None /\ rots = None
NoAdopt ==
    /\ mode = None /\ db = None /\ hot = None /\ catalog = None /\ files = None
    /\ lock = None /\ server = None /\ adopt = None /\ acked = None /\ overtaken = None
    /\ adoptRuns = None /\ adoptCrashes = None

ToolsInit ==
    /\ part \in Parts
    /\ IF part = "rebase" THEN Init ELSE NoRebase
    /\ IF part = "copy" THEN Copy!Init ELSE NoCopy
    /\ IF part = "import" THEN Imp!Init ELSE NoImport
    /\ IF part = "backup" THEN Bak!Init ELSE NoBackup
    /\ IF part = "adopt" THEN Ado!Init ELSE NoAdopt

ToolsNext ==
    \/ /\ part = "rebase" /\ Next
       /\ UNCHANGED <<part, copyVars, importVars, backupVars, adoptVars>>
    \/ /\ part = "copy" /\ Copy!Next
       /\ UNCHANGED <<part, vars, importVars, backupVars, adoptVars>>
    \/ /\ part = "import" /\ Imp!Next
       /\ UNCHANGED <<part, vars, copyVars, backupVars, adoptVars>>
    \/ /\ part = "backup" /\ Bak!Next
       /\ UNCHANGED <<part, vars, copyVars, importVars, adoptVars>>
    \/ /\ part = "adopt" /\ Ado!Next
       /\ UNCHANGED <<part, vars, copyVars, importVars, backupVars>>

ToolsSpec == ToolsInit /\ [][ToolsNext]_toolVars

-----------------------------------------------------------------------------
(* The types of every component's state.                                   *)
ToolsTypeOK ==
    /\ part = "rebase" => TypeOK
    /\ part = "copy" => Copy!TypeOK
    /\ part = "import" => Imp!TypeOK
    /\ part = "backup" => Bak!TypeOK
    /\ part = "adopt" => Ado!TypeOK

(* The components' properties, stated and explained in their modules.  A   *)
(* land records the conflicts it let through, and what it settled stands.  *)
LandsRecorded == part = "rebase" => ConflictsAreRecorded /\ LandsStand

(* A land moves main forward along first parents, by adoption where it can.*)
MainAdvances == MainAdvancesLinearly /\ FastForwardAdopts

(* No verb changes what the user worked on, unless forced.                 *)
WorkKept == Copy!WorkKept

(* What status does not list is the head's, whatever verb died.            *)
StatusTruthful == part = "copy" => Copy!StatusTruthful

(* An import keeps the source's history, its runs say what they did, and   *)
(* it moves main only to a descendant, never from a client's changeset.    *)
ImportSound ==
    /\ [](part = "import" => Imp!HistoryKept /\ Imp!RunsComplete)
    /\ Imp!MainFastForwards

(* A store that was moved is whole: a restore that ended well left a       *)
(* target that opens on the snapshot and has what it names (but for the    *)
(* log of a split target's catalog.db, SnapshotOpens), and an adoption,    *)
(* however it ended, leaves every row in a store that can be served, and   *)
(* none that is partial is.                                                *)
StoresWhole ==
    /\ part = "backup" => Bak!StoresWhole
    /\ part = "adopt" => Ado!StoresWhole

(* What the docs promise and the code does not keep: a clone holds the     *)
(* whole tree,                                                             *)
WholeTree == part = "copy" => Copy!WholeTree
(* a run of the import that failed is resumable,                           *)
ImportResumes == part = "import" => Imp!ImportResumes
(* an adoption keeps the grants that make a repo private,                  *)
GrantsServed == part = "adopt" => Ado!GrantsServed
(* and no leftover log is replayed over what a restore put there.          *)
SnapshotOpens == part = "backup" => Bak!SnapshotOpens
=============================================================================
