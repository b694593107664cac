----------------------------- MODULE Redaction -----------------------------
(***************************************************************************)
(* Tombstones and their purge (routes/redactions.rs, db.rs redaction_mark  *)
(* and its gates, gc.rs redaction_purge_pass) over repos that share blobs. *)
(*                                                                         *)
(* A mark probes its target, then takes the repo's slot and stops every    *)
(* write gate of the repo for that id.  The purge pass reclaims what a     *)
(* tombstone covers, in coordinated batches that hold every slot:          *)
(* changeset rows repo by repo, then the bytes of blobs nothing references *)
(* any more, then membership rows and stamps repo by repo, then the        *)
(* catalog rows.  Each is a commit of its own and the process may die      *)
(* between two.  An upload writes its bytes outside the slots.  A page     *)
(* holds every tombstoned changeset here, and BatchBlobs of the blobs.     *)
(***************************************************************************)
EXTENDS Naturals, FiniteSets

CONSTANTS Repos, Blobs, Changesets, None,
          Owner,        \* Owner[c]: the repo whose id c hashes
          Parent,       \* Parent[c]: the first parent of c, or None
          Changes,      \* Changes[c]: the blobs c's Add and Mod entries name
          Refs,         \* Refs[c]: the blobs of c's tree, the inherited ones too
          BatchBlobs,   \* GC_BATCH_BLOBS
          MaxMarks,     \* bound on marks and re-marks
          MaxCrashes    \* bound on crashes

(* The ids of blobs and changesets are hashes of differently tagged bytes. *)
RedactionAssumption ==
    /\ Owner \in [Changesets -> Repos]
    /\ Parent \in [Changesets -> Changesets \cup {None}]
    /\ Changes \in [Changesets -> SUBSET Blobs]
    /\ Refs \in [Changesets -> SUBSET Blobs]
    /\ \A c \in Changesets:
         /\ Changes[c] \subseteq Refs[c]
         /\ IF Parent[c] = None THEN Refs[c] = Changes[c]
            ELSE /\ Owner[Parent[c]] = Owner[c]
                 /\ Refs[c] \subseteq Changes[c] \cup Refs[Parent[c]]
    /\ Blobs \cap Changesets = {} /\ None \notin Changesets
    /\ BatchBlobs \in Nat \ {0}
    /\ MaxMarks \in Nat /\ MaxCrashes \in Nat

Ids == Blobs \cup Changesets
Stages == {"idle", "cs", "rows", "bytes", "stamp", "catalog", "blobs"}

VARIABLES
    tomb,       \* tomb[r][i]: "none", "active" or "purged"
    marked,     \* marked[r][b]: which mark of the run the tombstone's is
    marking,    \* the mark that has probed its target, or None
    rows,       \* changesets that have their row
    trees,      \* changesets whose root tree has its rows
    pinned,     \* changesets under a ref, a land or a git mapping
    member,     \* member[r]: blobs with a repo_blobs row
    objects,    \* blobs with an objects row
    touched,    \* blobs whose objects row was touched within the grace
    bytes,      \* blobs in the blob store
    upload,     \* the upload in flight, or None
    purge,      \* the purge pass: its stage, batch and the repos left
    marks, crashes

vars == <<tomb, marked, marking, rows, trees, pinned, member, objects, touched, bytes,
          upload, purge, marks, crashes>>

(* The types of the state; a row's tree has its rows.                      *)
TypeOK ==
    /\ tomb \in [Repos -> [Ids -> {"none", "active", "purged"}]]
    /\ marked \in [Repos -> [Blobs -> 0..MaxMarks]]
    /\ marking \in [repo: Repos, id: Ids] \cup {None}
    /\ rows \subseteq trees /\ trees \subseteq Changesets
    /\ pinned \subseteq Changesets
    /\ member \in [Repos -> SUBSET Blobs]
    /\ touched \subseteq objects /\ objects \subseteq Blobs
    /\ bytes \subseteq Blobs
    /\ upload \in [repo: Repos, blob: Blobs, step: {"put", "record"}] \cup {None}
    /\ purge \in [stage: Stages, batch: SUBSET Ids, left: SUBSET Repos, phase: {1, 2}]
    /\ marks \in 0..MaxMarks
    /\ crashes \in 0..MaxCrashes

Idle == [stage |-> "idle", batch |-> {}, left |-> {}, phase |-> 1]

Init ==
    /\ tomb = [r \in Repos |-> [i \in Ids |-> "none"]]
    /\ marked = [r \in Repos |-> [b \in Blobs |-> 0]]
    /\ marking = None
    /\ rows = {} /\ trees = {} /\ pinned = {}
    /\ member = [r \in Repos |-> {}]
    /\ objects = {} /\ touched = {} /\ bytes = {}
    /\ upload = None
    /\ purge = Idle
    /\ marks = 0 /\ crashes = 0

(* A coordinated batch holds every slot from its selection to its end *)
SlotsFree == purge.stage \in {"idle", "cs", "blobs"}

-----------------------------------------------------------------------------
(* The mark.                                                               *)

RedactionActive(r, i) == tomb[r][i] # "none"

(* redaction_target_present_repo, and the catalog's objects row of a blob *)
TargetPresent(r, i) ==
    \/ RedactionActive(r, i)
    \/ i \in member[r] \cup objects
    \/ \E c \in rows: Owner[c] = r /\ i \in {c} \cup Changes[c]
    \/ \E c \in trees: i \in Refs[c]

(* redaction_mark_classify: a purged blob is re-queued, a purged changeset *)
(* only while its row is there                                             *)
Classify(r, i) ==
    IF tomb[r][i] = "purged" /\ i \in Blobs \cup rows THEN "active" ELSE tomb[r][i]

(* The probe reads outside the slot ...                                    *)
MarkProbe(r, i) ==
    /\ marking = None
    /\ marks < MaxMarks
    /\ TargetPresent(r, i)
    /\ marking' = [repo |-> r, id |-> i]
    /\ UNCHANGED <<tomb, marked, rows, trees, pinned, member, objects, touched, bytes,
                   upload, purge, marks, crashes>>

(* ... and the mark is written in it, whatever has gone since.  A mark     *)
(* that stands keeps its time.                                             *)
RedactionMark ==
    LET r == marking.repo  i == marking.id
        to == IF tomb[r][i] = "none" THEN "active" ELSE Classify(r, i)
    IN  /\ marking # None
        /\ SlotsFree
        /\ tomb' = [tomb EXCEPT ![r][i] = to]
        /\ marks' = marks + 1
        /\ marked' = IF i \in Blobs /\ to # tomb[r][i]
                       THEN [marked EXCEPT ![r][i] = marks'] ELSE marked
        /\ marking' = None
        /\ UNCHANGED <<rows, trees, pinned, member, objects, touched, bytes, upload, purge,
                       crashes>>

-----------------------------------------------------------------------------
(* The writes a tombstone gates.                                           *)

UploadProbe(r, b) ==
    /\ upload = None
    /\ ~RedactionActive(r, b)
    /\ upload' = [repo |-> r, blob |-> b, step |-> "put"]
    /\ UNCHANGED <<tomb, marked, marking, rows, trees, pinned, member, objects, touched,
                   bytes, purge, marks, crashes>>

UploadPut ==
    /\ upload # None /\ upload.step = "put"
    /\ bytes' = bytes \cup {upload.blob}
    /\ upload' = [upload EXCEPT !.step = "record"]
    /\ UNCHANGED <<tomb, marked, marking, rows, trees, pinned, member, objects, touched,
                   purge, marks, crashes>>

(* In the slot: the tombstone again (410), the bytes again (blob_swept) *)
UploadRecord ==
    /\ upload # None /\ upload.step = "record"
    /\ SlotsFree
    /\ IF RedactionActive(upload.repo, upload.blob) \/ upload.blob \notin bytes
         THEN UNCHANGED <<objects, touched, member>>
         ELSE /\ objects' = objects \cup {upload.blob}
              /\ touched' = touched \cup {upload.blob}
              /\ member' = [member EXCEPT ![upload.repo] = @ \cup {upload.blob}]
    /\ upload' = None
    /\ UNCHANGED <<tomb, marked, marking, rows, trees, pinned, bytes, purge, marks, crashes>>

(* A create in the repo's slot: no tombstone on the changeset or on a blob *)
(* its entries name (GateIds), each of those recorded and in the store.    *)
(* What the tree inherits is not looked at.  The parent was read before    *)
(* the slot: its row may have gone, its tree must load.  The row makes the *)
(* named blobs members.                                                    *)
GateChangeset(c) == {c}
GateIds(c) == {c} \cup Changes[c]

CreateChangeset(c) ==
    /\ SlotsFree
    /\ c \notin rows
    /\ Parent[c] \in trees \cup {None}
    /\ \A i \in GateIds(c): ~RedactionActive(Owner[c], i)
    /\ Changes[c] \subseteq objects \cap bytes
    /\ rows' = rows \cup {c}
    /\ trees' = trees \cup {c}
    /\ member' = [member EXCEPT ![Owner[c]] = @ \cup Changes[c]]
    /\ UNCHANGED <<tomb, marked, marking, pinned, objects, touched, bytes, upload, purge,
                   marks, crashes>>

(* A ref moves onto an untombstoned changeset, or off one *)
MoveRef(c) ==
    /\ SlotsFree
    /\ \/ c \in pinned /\ pinned' = pinned \ {c}
       \/ /\ c \in rows \ pinned
          /\ ~RedactionActive(Owner[c], c)
          /\ pinned' = pinned \cup {c}
    /\ UNCHANGED <<tomb, marked, marking, rows, trees, member, objects, touched, bytes,
                   upload, purge, marks, crashes>>

GraceEnds ==
    /\ touched # {}
    /\ touched' = {}
    /\ UNCHANGED <<tomb, marked, marking, rows, trees, pinned, member, objects, bytes,
                   upload, purge, marks, crashes>>

(* The reachability sweep takes the trees no row holds any more *)
SweepTrees ==
    /\ SlotsFree
    /\ trees # rows
    /\ trees' = rows
    /\ UNCHANGED <<tomb, marked, marking, rows, pinned, member, objects, touched, bytes,
                   upload, purge, marks, crashes>>

-----------------------------------------------------------------------------
(* The purge pass.                                                         *)

ReferencedByOwn(b) ==
    \E c \in rows: b \in Refs[c] /\ RedactionActive(Owner[c], b)
BlobReferenced(b) == \E c \in rows \cup trees: b \in Refs[c]
ExclusivelyUnreferenced(blobs) == {b \in blobs: b \notin touched /\ ~BlobReferenced(b)}

(* redact_purgeable_cs_repo: no ref, land or mapping, and no child *)
PurgeableCs ==
    {c \in rows \ pinned: /\ tomb[Owner[c]][c] = "active"
                          /\ \A d \in rows: Parent[d] # c}

(* redact_blob_tombstones_repo of every repo, merged oldest mark first and *)
(* truncated: one blob may take the place of several                       *)
ActiveMarks == {m \in Repos \X Blobs: tomb[m[1]][m[2]] = "active"}
Older(m) == {n \in ActiveMarks: marked[n[1]][n[2]] < marked[m[1]][m[2]]}
BlobPage == {m[2]: m \in {n \in ActiveMarks: Cardinality(Older(n)) < BatchBlobs}}

Enter(stage, batch, left, phase) ==
    purge' = [stage |-> stage, batch |-> batch, left |-> left, phase |-> phase]

(* The quiet probe: without an active tombstone no slot is taken *)
PurgeStart ==
    /\ purge.stage = "idle"
    /\ \E r \in Repos, i \in Ids: tomb[r][i] = "active"
    /\ Enter("cs", {}, {}, 1)
    /\ UNCHANGED <<tomb, marked, marking, rows, trees, pinned, member, objects, touched,
                   bytes, upload, marks, crashes>>

(* Phase 1, the selection inside the batch *)
SelectCs ==
    /\ purge.stage = "cs"
    /\ IF PurgeableCs = {} THEN Enter("blobs", {}, {}, 2)
       ELSE Enter("rows", PurgeableCs, {Owner[c]: c \in PurgeableCs}, 1)
    /\ UNCHANGED <<tomb, marked, marking, rows, trees, pinned, member, objects, touched,
                   bytes, upload, marks, crashes>>

(* One repo's rows and the stamps of their tombstones, in one transaction *)
CollectCsRepo(r) ==
    LET mine == {c \in purge.batch \cap Changesets: Owner[c] = r} IN
    /\ purge.stage = "rows" /\ r \in purge.left
    /\ rows' = rows \ mine
    /\ tomb' = [tomb EXCEPT ![r] = [i \in Ids |-> IF i \in mine THEN "purged" ELSE @[i]]]
    /\ IF purge.left = {r}
         THEN Enter("bytes", UNION {Changes[c]: c \in purge.batch}, {}, 1)
         ELSE Enter("rows", purge.batch, purge.left \ {r}, 1)
    /\ UNCHANGED <<marked, marking, trees, pinned, member, objects, touched, bytes, upload,
                   marks, crashes>>

(* The bytes of what nothing references any more, before any row; phase 2  *)
(* ends on a page of which nothing could go                                *)
DeleteBytes ==
    LET gone == ExclusivelyUnreferenced(purge.batch) IN
    /\ purge.stage = "bytes"
    /\ bytes' = bytes \ gone
    /\ IF gone # {} THEN Enter("stamp", gone, Repos, purge.phase)
       ELSE IF purge.phase = 1 THEN Enter("blobs", {}, {}, 2) ELSE purge' = Idle
    /\ UNCHANGED <<tomb, marked, marking, rows, trees, pinned, member, objects, touched,
                   upload, marks, crashes>>

(* Membership rows and stamps, in every repo *)
CollectBlobsOfMember(r) ==
    /\ purge.stage = "stamp" /\ r \in purge.left
    /\ member' = [member EXCEPT ![r] = @ \ purge.batch]
    /\ tomb' = [tomb EXCEPT ![r] =
                  [i \in Ids |-> IF i \in purge.batch \cap member[r] /\ @[i] = "active"
                                   THEN "purged" ELSE @[i]]]
    /\ Enter(IF purge.left = {r} THEN "catalog" ELSE "stamp", purge.batch,
             purge.left \ {r}, purge.phase)
    /\ UNCHANGED <<marked, marking, rows, trees, pinned, objects, touched, bytes, upload,
                   marks, crashes>>

CollectBlobsRepo(r) ==
    /\ purge.stage = "stamp" /\ r \in purge.left
    /\ member' = [member EXCEPT ![r] = @ \ purge.batch]
    /\ tomb' = [tomb EXCEPT ![r] =
                  [i \in Ids |-> IF i \in purge.batch /\ @[i] = "active" THEN "purged" ELSE @[i]]]
    /\ Enter(IF purge.left = {r} THEN "catalog" ELSE "stamp", purge.batch,
             purge.left \ {r}, purge.phase)
    /\ UNCHANGED <<marked, marking, rows, trees, pinned, objects, touched, bytes, upload,
                   marks, crashes>>

(* Phase 2 asks for another page only after one that went as a whole *)
CollectBlobsCatalog ==
    /\ purge.stage = "catalog"
    /\ objects' = objects \ purge.batch
    /\ touched' = touched \ purge.batch
    /\ IF purge.phase = 1 \/ Cardinality(purge.batch) = BatchBlobs
         THEN Enter("blobs", {}, {}, 2) ELSE purge' = Idle
    /\ UNCHANGED <<tomb, marked, marking, rows, trees, pinned, member, bytes, upload, marks,
                   crashes>>

(* Phase 2: a page of the work list, cut before it is looked at *)
SelectBlobs ==
    /\ purge.stage = "blobs"
    /\ Enter("bytes", BlobPage, {}, 2)
    /\ UNCHANGED <<tomb, marked, marking, rows, trees, pinned, member, objects, touched,
                   bytes, upload, marks, crashes>>

Crash ==
    /\ crashes < MaxCrashes
    /\ crashes' = crashes + 1
    /\ purge' = Idle
    /\ upload' = None
    /\ marking' = None
    /\ UNCHANGED <<tomb, marked, rows, trees, pinned, member, objects, touched, bytes, marks>>

Purging ==
    \/ PurgeStart \/ SelectCs \/ DeleteBytes \/ CollectBlobsCatalog \/ SelectBlobs
    \/ \E r \in Repos: CollectCsRepo(r) \/ CollectBlobsRepo(r)

Next ==
    \/ \E r \in Repos, i \in Ids: MarkProbe(r, i)
    \/ RedactionMark
    \/ \E r \in Repos, b \in Blobs: UploadProbe(r, b)
    \/ UploadPut \/ UploadRecord
    \/ \E c \in Changesets: CreateChangeset(c) \/ MoveRef(c)
    \/ GraceEnds \/ SweepTrees \/ Crash
    \/ Purging

Spec == Init /\ [][Next]_vars
FairSpec == Spec /\ WF_vars(Purging) /\ SF_vars(SweepTrees)
                 /\ WF_vars(GraceEnds)

-----------------------------------------------------------------------------
(* A purge in one repo takes nothing another repo's row still needs, also  *)
(* when it is cut after the bytes and before the rows, and an upload of    *)
(* the same content races it.                                              *)
PurgeNeverDangles == \A c \in rows: Refs[c] \subseteq bytes \cap objects

(* What fsck calls drift of a changeset: a tombstone stamped purged while  *)
(* the row is there, or back.                                              *)
PurgedIsGone ==
    \A c \in Changesets: tomb[Owner[c]][c] = "purged" => c \notin rows

(* The purge leaves no changeset without its bytes, and what it stamps     *)
(* purged is gone, though it may be cut anywhere.                          *)
PurgeSound == PurgeNeverDangles /\ PurgedIsGone

(* What a repo tombstoned, active or purged, comes back only by            *)
(* inheritance: no new row is it or names it, the blob gains no membership *)
(* row, and no tree of the repo holds it unless one did before.  A mark, a *)
(* purge, uploads and creates interleave.                                  *)
InTrees(T, r, i) == \E c \in T: Owner[c] = r /\ i \in Refs[c]
GainsNothing(r, i) ==
    /\ \A c \in rows' \ rows: Owner[c] = r => i \notin {c} \cup Changes[c]
    /\ i \in member'[r] => i \in member[r]
    /\ InTrees(trees', r, i) => InTrees(trees, r, i)
TombstonedGainsNothing ==
    [][ \A r \in Repos, i \in Ids: RedactionActive(r, i) => GainsNothing(r, i) ]_vars

(* A changeset's tree names the blob, or an upload has just touched it.    *)
Held(b) == (\E c \in rows: b \in Refs[c]) \/ b \in touched

(* The page is full of older marks whose blobs are held.                   *)
Stalled(r, b) == Cardinality({m \in Older(<<r, b>>): Held(m[2])}) >= BatchBlobs

(* Erasure ends: an active blob tombstone is stamped, or again and again   *)
(* the blob is held, or older ones that are fill the page.                 *)
ErasureCompletes ==
    \A r \in Repos, b \in Blobs: []<>(tomb[r][b] # "active" \/ Held(b) \/ Stalled(r, b))

(* The README's promise has no such exception: "the purge deletes the CAS  *)
(* bytes once no repo references remain".                                  *)
ErasurePromised == \A r \in Repos, b \in Blobs: []<>(tomb[r][b] # "active" \/ Held(b))

(* An active changeset tombstone that no ref pins is stamped in the end,   *)
(* unless a child keeps the row.                                           *)
TombstonesConverge ==
    \A c \in Changesets:
        []<>(tomb[Owner[c]][c] # "active" \/ c \in pinned \/ \E d \in rows: Parent[d] = c)
=============================================================================
