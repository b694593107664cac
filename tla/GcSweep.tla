------------------------------- MODULE GcSweep -------------------------------
(***************************************************************************)
(* The reachability GC pass against uploads and changeset creation         *)
(* (gc.rs `gc_pass`, routes/objects.rs, routes/changesets.rs, db.rs).      *)
(*                                                                         *)
(* An upload writes its bytes to the blob store outside every lock and     *)
(* records the `objects` row in a write slot; a create reads its parent,   *)
(* then inserts in a write slot.  A pass marks, updates the ledger of      *)
(* unreachable data, and then collects in batches.  Each batch holds every *)
(* write slot, re-verifies its candidates, and deletes in an order that a  *)
(* crash or an error may cut in the middle.                                *)
(*                                                                         *)
(* Ids are content addresses, so what a changeset names is a constant, and *)
(* a root tree is the set of blobs it lists.  Time stamps matter only      *)
(* relative to the cut of a pass, `now - grace`: a stamp is recent until   *)
(* some pass starts with a cut at or past it.  Redaction tombstones are    *)
(* not modelled here.                                                      *)
(***************************************************************************)
EXTENDS Naturals, FiniteSets

CONSTANTS Blobs, Changesets, None,
          Parent,     \* Parent[c]: the parent of changeset c, or None
          Changes,    \* Changes[c]: the blobs its file changes add
          Tree,       \* Tree[c]: the blobs its root tree lists
          MaxUploads, \* bounds on the requests in flight
          MaxCreates

(* Deriving a root tree applies the changes to the parent's (MemNode) *)
ASSUME ContentAssumption ==
    /\ None \notin Changesets
    /\ Parent \in [Changesets -> Changesets \cup {None}]
    /\ Changes \in [Changesets -> SUBSET Blobs]
    /\ Tree \in [Changesets -> SUBSET Blobs]
    /\ \A c \in Changesets:
         Tree[c] \subseteq Changes[c] \cup (IF Parent[c] = None THEN {} ELSE Tree[Parent[c]])

Trees == SUBSET Blobs
Ages  == {"none", "recent", "past"}
Batches == {None} \cup SUBSET (Blobs \cup Changesets \cup Trees)

VARIABLES
    bytes,       \* the blobs the blob store holds
    row,         \* row[b]: the objects row of b, by the age of its touch
    ledger,      \* ledger[b]: its gc_pending row, by the age of first_ns
    condemned,   \* condemned[b]: its mark, set by this pass or an earlier one
    cs,          \* the changesets that have rows
    csLedger,
    trees,       \* the trees that have rows
    treeLedger,
    refs,        \* the changesets a ref or a land row names
    mark,        \* what the running pass found reachable
    pc,          \* where the pass is
    batch,       \* the ids of the batch whose slots are held, or None
    put,         \* uploads between the blob store and the record step
    reading,     \* creates between the parent read and the insert
    acked        \* blobs whose upload was acknowledged within the grace window

catalog == <<row, ledger, condemned, csLedger, treeLedger>>
repo    == <<cs, trees, refs>>
clients == <<put, reading, acked>>
vars == <<bytes, row, ledger, condemned, cs, csLedger, trees, treeLedger, refs,
          mark, pc, batch, put, reading, acked>>

(* The types of the state; the slots are held in a deleting phase only *)
TypeOK ==
    /\ bytes \subseteq Blobs
    /\ row \in [Blobs -> Ages]
    /\ ledger \in [Blobs -> Ages]
    /\ condemned \in [Blobs -> {"no", "now", "earlier"}]
    /\ cs \subseteq Changesets
    /\ csLedger \in [Changesets -> Ages]
    /\ trees \subseteq Trees
    /\ treeLedger \in [Trees -> Ages]
    /\ refs \subseteq Changesets
    /\ mark \in [cs: SUBSET Changesets, blobs: SUBSET Blobs, trees: SUBSET Trees]
    /\ pc \in {"idle", "ledger", "cs", "condemn", "delete", "trees"}
    /\ batch \in Batches
    /\ batch # None => pc \in {"cs", "delete", "trees"}
    /\ put \subseteq Blobs
    /\ reading \subseteq Changesets
    /\ acked \subseteq Blobs

NoMark == [cs |-> {}, blobs |-> {}, trees |-> {}]

Init ==
    /\ bytes = {}
    /\ row = [b \in Blobs |-> "none"]
    /\ ledger = [b \in Blobs |-> "none"]
    /\ condemned = [b \in Blobs |-> "no"]
    /\ cs = {}
    /\ csLedger = [c \in Changesets |-> "none"]
    /\ trees = {}
    /\ treeLedger = [t \in Trees |-> "none"]
    /\ refs = {}
    /\ mark = NoMark
    /\ pc = "idle"
    /\ batch = None
    /\ put = {}
    /\ reading = {}
    /\ acked = {}

-----------------------------------------------------------------------------
(* Uploads (routes/objects.rs).                                            *)

(* put_raw up to the blob store: a blob that is there is not written again *)
PutBytes(b) ==
    /\ b \notin put
    /\ Cardinality(put) < MaxUploads
    /\ put' = put \cup {b}
    /\ bytes' = bytes \cup {b}
    /\ UNCHANGED <<catalog, repo, mark, pc, batch, reading, acked>>

(* Mutant: the row is written without looking for the bytes *)
RecordBlindly(b) ==
    /\ b \in put
    /\ batch = None
    /\ put' = put \ {b}
    /\ row' = [row EXCEPT ![b] = "recent"]
    /\ condemned' = [condemned EXCEPT ![b] = "no"]
    /\ acked' = acked \cup {b}
    /\ UNCHANGED <<bytes, ledger, csLedger, treeLedger, repo, mark, pc, batch, reading>>

(* record_object in the write slot: bytes that a batch has swept meanwhile *)
(* are answered blob_swept; else the row is touched and the mark cleared   *)
Record(b) ==
    /\ b \in put
    /\ batch = None
    /\ put' = put \ {b}
    /\ IF b \in bytes
         THEN /\ row' = [row EXCEPT ![b] = "recent"]
              /\ condemned' = [condemned EXCEPT ![b] = "no"]
              /\ acked' = acked \cup {b}
         ELSE UNCHANGED <<row, condemned, acked>>
    /\ UNCHANGED <<bytes, ledger, csLedger, treeLedger, repo, mark, pc, batch, reading>>

(* object_row_upsert is two statements, each its own commit: a crash or an *)
(* error between them leaves the row touched and the mark set              *)
RecordHalf(b) ==
    /\ b \in put
    /\ batch = None
    /\ b \in bytes
    /\ put' = put \ {b}
    /\ row' = [row EXCEPT ![b] = "recent"]
    /\ UNCHANGED <<bytes, ledger, condemned, csLedger, treeLedger, repo, mark, pc,
                   batch, reading, acked>>

-----------------------------------------------------------------------------
(* Creates and references (routes/changesets.rs, refs.rs, land.rs).        *)

(* create_inner resolves the parent through the read pool *)
ReadParent(c) ==
    /\ c \notin reading
    /\ Cardinality(reading) < MaxCreates
    /\ Parent[c] \in cs \cup {None}
    /\ reading' = reading \cup {c}
    /\ UNCHANGED <<bytes, catalog, repo, mark, pc, batch, put, acked>>

Recorded(b) == b \in bytes /\ row[b] # "none"

(* Mutant: the blobs were looked up before the slot was taken *)
PersistUnchecked(c) ==
    /\ c \in reading
    /\ batch = None
    /\ reading' = reading \ {c}
    /\ IF c \notin cs /\ (Parent[c] = None \/ Tree[Parent[c]] \in trees)
         THEN /\ cs' = cs \cup {c}
              /\ trees' = trees \cup {Tree[c]}
         ELSE UNCHANGED <<cs, trees>>
    /\ UNCHANGED <<bytes, catalog, refs, mark, pc, batch, put, acked>>

(* persist in the write slot: the blobs must be there and recorded and the *)
(* parent's tree must load; the parent itself is not looked at again.  A   *)
(* changeset that exists is a failed insert.                               *)
Persist(c) ==
    /\ c \in reading
    /\ batch = None
    /\ reading' = reading \ {c}
    /\ IF /\ c \notin cs
          /\ \A b \in Changes[c]: Recorded(b)
          /\ Parent[c] # None => Tree[Parent[c]] \in trees
         THEN /\ cs' = cs \cup {c}
              /\ trees' = trees \cup {Tree[c]}
         ELSE UNCHANGED <<cs, trees>>
    /\ UNCHANGED <<bytes, catalog, refs, mark, pc, batch, put, acked>>

(* A ref or a land row names c.  A new ref does not check that c exists.   *)
(* A ref only moves to a descendant and neither it nor a land row is ever  *)
(* deleted, so what is named once stays reachable.  A land that writes a   *)
(* rebased changeset is Persist and Refer at once.                         *)
Refer(c) ==
    /\ batch = None
    /\ refs' = refs \cup {c}
    /\ UNCHANGED <<bytes, catalog, cs, trees, mark, pc, batch, clients>>

-----------------------------------------------------------------------------
(* The pass.                                                               *)

(* Reachable changesets: the least set that holds what the refs name and   *)
(* the parents of its members that have rows                               *)
ParentClosed(S) == \A c \in S \cap cs: Parent[c] # None => Parent[c] \in S
Reachable == {c \in Changesets:
                \A S \in SUBSET Changesets: refs \subseteq S /\ ParentClosed(S) => c \in S}

(* A blob with a file_changes or a tree_entries row *)
Referenced(b) == (\E c \in cs: b \in Changes[c]) \/ (\E t \in trees: b \in t)

(* Time passes: recent stamps fall behind the cut of a new pass *)
Aged(f, over) == [x \in DOMAIN f |-> IF over /\ f[x] = "recent" THEN "past" ELSE f[x]]

(* mark_repo over the primary tables, with the cut of this pass *)
Mark ==
    LET live == Reachable
        liveTrees == {Tree[c]: c \in live \cap cs} \cap trees
    IN  /\ pc = "idle"
        /\ \E touches, ledgers \in BOOLEAN:
             /\ row' = Aged(row, touches)
             /\ acked' = IF touches THEN {} ELSE acked
             /\ ledger' = Aged(ledger, ledgers)
             /\ csLedger' = Aged(csLedger, ledgers)
             /\ treeLedger' = Aged(treeLedger, ledgers)
        /\ condemned' = [b \in Blobs |-> IF condemned[b] = "now" THEN "earlier"
                                                                 ELSE condemned[b]]
        /\ mark' = [cs |-> live,
                    blobs |-> UNION ({Changes[c]: c \in live \cap cs} \cup liveTrees),
                    trees |-> liveTrees]
        /\ pc' = "ledger"
        /\ UNCHANGED <<bytes, repo, batch, put, reading>>

(* INSERT OR IGNORE of what is not marked, DELETE of what is *)
Repaired(f, all, marked) ==
    [x \in DOMAIN f |-> IF x \in marked THEN "none"
                        ELSE IF x \in all /\ f[x] = "none" THEN "recent" ELSE f[x]]

(* The ledger update, against what exists now and what the mark saw then *)
UpdateLedger ==
    /\ pc = "ledger"
    /\ ledger' = Repaired(ledger, bytes \cup {b \in Blobs: row[b] # "none"}, mark.blobs)
    /\ condemned' = [b \in Blobs |-> IF b \in mark.blobs THEN "no" ELSE condemned[b]]
    /\ csLedger' = Repaired(csLedger, cs, mark.cs)
    /\ treeLedger' = Repaired(treeLedger, trees, mark.trees)
    /\ mark' = NoMark
    /\ pc' = "cs"
    /\ UNCHANGED <<bytes, row, repo, batch, clients>>

(* Mutant: the child rows are not probed *)
CollectibleAnyway == {c \in cs: csLedger[c] = "past" /\ c \notin refs}

(* gc_cs_collectible_probe: past grace, no ref, no land row, no child row *)
Collectible == {c \in cs: /\ csLedger[c] = "past"
                          /\ c \notin refs
                          /\ \A d \in cs: Parent[d] # c}

(* A changeset batch: phantom ledger rows are reaped, then the repo rows go *)
CollectCs ==
    /\ pc = "cs"
    /\ batch = None
    /\ \E S \in SUBSET Collectible:
         /\ batch' = S
         /\ cs' = cs \ S
         /\ csLedger' = [c \in Changesets |->
                IF c \notin cs /\ csLedger[c] = "past" THEN "none" ELSE csLedger[c]]
    /\ UNCHANGED <<bytes, row, ledger, condemned, trees, treeLedger, refs, mark, pc, clients>>

(* ... then the ledger rows *)
FinishCs ==
    /\ pc = "cs"
    /\ batch # None
    /\ csLedger' = [c \in Changesets |-> IF c \in batch THEN "none" ELSE csLedger[c]]
    /\ batch' = None
    /\ pc' \in {"cs", "condemn"}
    /\ UNCHANGED <<bytes, row, ledger, condemned, treeLedger, repo, mark, clients>>

(* Mutant: the touch is not looked at *)
CondemnTouched ==
    /\ pc = "condemn"
    /\ condemned' = [b \in Blobs |->
          IF /\ ledger[b] = "past" /\ condemned[b] = "no"
             /\ ~Referenced(b)
            THEN "now" ELSE condemned[b]]
    /\ pc' = "delete"
    /\ UNCHANGED <<bytes, row, ledger, csLedger, treeLedger, repo, mark, batch, clients>>

(* Phase A: past grace, no touch inside it, no reference: condemned, kept *)
Condemn ==
    /\ pc = "condemn"
    /\ condemned' = [b \in Blobs |->
          IF /\ ledger[b] = "past" /\ condemned[b] = "no"
             /\ row[b] # "recent"
             /\ ~Referenced(b)
            THEN "now" ELSE condemned[b]]
    /\ pc' = "delete"
    /\ UNCHANGED <<bytes, row, ledger, csLedger, treeLedger, repo, mark, batch, clients>>

(* Phase B's candidates, re-verified inside the batch *)
Deletable == {b \in Blobs: /\ ledger[b] = "past"
                           /\ condemned[b] = "earlier"
                           /\ ~Referenced(b)}

(* Phase B: the bytes go first ... *)
DeleteBytes ==
    /\ pc = "delete"
    /\ batch = None
    /\ \E S \in SUBSET Deletable:
         /\ batch' = S
         /\ bytes' = bytes \ S
    /\ UNCHANGED <<catalog, repo, mark, pc, clients>>

(* ... then the rows *)
DeleteRows ==
    /\ pc = "delete"
    /\ batch # None
    /\ row' = [b \in Blobs |-> IF b \in batch THEN "none" ELSE row[b]]
    /\ ledger' = [b \in Blobs |-> IF b \in batch THEN "none" ELSE ledger[b]]
    /\ condemned' = [b \in Blobs |-> IF b \in batch THEN "no" ELSE condemned[b]]
    /\ batch' = None
    /\ pc' \in {"delete", "trees"}
    /\ UNCHANGED <<bytes, csLedger, treeLedger, repo, mark, clients>>

(* The tree sweep: what no surviving changeset's root reaches *)
SweepTrees ==
    /\ pc = "trees"
    /\ batch = None
    /\ \E S \in SUBSET {t \in trees: treeLedger[t] = "past" /\ \A c \in cs: Tree[c] # t}:
         /\ batch' = S
         /\ trees' = trees \ S
    /\ UNCHANGED <<bytes, catalog, cs, refs, mark, pc, clients>>

FinishTrees ==
    /\ pc = "trees"
    /\ batch # None
    /\ treeLedger' = [t \in Trees |-> IF t \in batch THEN "none" ELSE treeLedger[t]]
    /\ batch' = None
    /\ pc' \in {"trees", "idle"}
    /\ UNCHANGED <<bytes, row, ledger, condemned, csLedger, repo, mark, clients>>

(* Mutant: an error leaves the slots locked *)
AbortLocked ==
    /\ pc # "idle"
    /\ pc' = "idle"
    /\ mark' = NoMark
    /\ UNCHANGED <<bytes, catalog, repo, clients, batch>>

(* An error ends the pass wherever it is (a busy slot, a failed statement) *)
Abort ==
    /\ pc # "idle"
    /\ pc' = "idle"
    /\ batch' = None
    /\ mark' = NoMark
    /\ UNCHANGED <<bytes, catalog, repo, clients>>

(* The process dies: requests and the pass are gone *)
Crash ==
    /\ pc' = "idle"
    /\ batch' = None
    /\ mark' = NoMark
    /\ put' = {}
    /\ reading' = {}
    /\ UNCHANGED <<bytes, catalog, repo, acked>>

Client == \/ \E b \in Blobs: PutBytes(b) \/ Record(b) \/ RecordHalf(b)
          \/ \E c \in Changesets: ReadParent(c) \/ Persist(c) \/ Refer(c)
Pass == \/ Mark \/ UpdateLedger
        \/ CollectCs \/ FinishCs
        \/ Condemn \/ DeleteBytes \/ DeleteRows
        \/ SweepTrees \/ FinishTrees
        \/ Abort

Next == Client \/ Pass \/ Crash

Spec == Init /\ [][Next]_vars
-----------------------------------------------------------------------------
(* Never dangling: whatever a pass collects, and wherever it is cut, each  *)
(* blob that a changeset's file changes or a tree's entries name has its   *)
(* bytes and its objects row, and each changeset has its root tree         *)
(* (db.rs fsck_danglings_repo, fsck.rs).                                   *)
NeverDangling ==
    /\ \A b \in Blobs: Referenced(b) => Recorded(b)
    /\ \A c \in cs: Tree[c] \in trees

(* The bytes of an acknowledged upload stay for the whole grace window, so *)
(* a client between its PUT and the create that names the blob is never    *)
(* overtaken by a pass (gc.rs, routes/objects.rs record_object).           *)
UploadsKept == \A b \in acked: Recorded(b)

(* The orphan direction: an objects row whose bytes are gone is always one *)
(* that the cut-off batch condemned, so that a later pass deletes it       *)
(* (gc.rs phase B, bytes first).                                           *)
LostBytesCondemned ==
    \A b \in Blobs: row[b] # "none" /\ b \notin bytes => condemned[b] = "earlier"

(* A pass deletes nothing that a ref or a land reaches through the parent  *)
(* rows, whatever was created or named after its mark was taken (gc.rs,    *)
(* changeset batches).                                                     *)
ReachableKept == [][\A c \in Reachable \cap cs: c \in cs']_vars

(* Stated by routes/changesets.rs create_inner and by fsck's check         *)
(* changeset_parent_missing: the parent of a changeset is a changeset.     *)
ParentsResolve == \A c \in cs: Parent[c] \in cs \cup {None}
=============================================================================
