---------------------------- MODULE GcSweepProofs ----------------------------
(***************************************************************************)
(* GcSweep for every set of blobs and changesets, and every history they   *)
(* can form: nothing that is referenced, and no acknowledged upload, loses *)
(* its bytes or its row, and no reachable changeset is collected.          *)
(***************************************************************************)
EXTENDS GcSweep, TLAPS

(* A touch that was acknowledged cleared the mark, and a recent touch      *)
(* keeps phase A from setting it again.                                    *)
AckedSafe ==
    \A b \in acked: row[b] = "recent" /\ b \in bytes /\ condemned[b] = "no"

(* While a blob batch is under way, every slot is held: what it selected   *)
(* stays condemned and unreferenced until its rows are gone.               *)
BatchSafe ==
    pc = "delete" /\ batch # None =>
        \A b \in Blobs: b \in batch => condemned[b] = "earlier" /\ ~Referenced(b)

(* Only the ledger update uses the mark, before this pass deletes a thing. *)
MarkPresent ==
    /\ mark.blobs \subseteq bytes
    /\ pc # "ledger" => mark = NoMark

Inv == /\ TypeOK
       /\ NeverDangling
       /\ LostBytesCondemned
       /\ AckedSafe
       /\ BatchSafe
       /\ MarkPresent

LEMMA BatchTypes ==
    /\ None \in Batches
    /\ \A S \in SUBSET Blobs: S \in Batches
    /\ \A S \in SUBSET Changesets: S \in Batches
    /\ \A S \in SUBSET Trees: S \in Batches
<1>1. None \in Batches
  BY DEF Batches
<1>2. \A S \in SUBSET Blobs: S \in Batches
  BY DEF Batches
<1>3. \A S \in SUBSET Changesets: S \in Batches
  BY DEF Batches
<1>4. \A S \in SUBSET Trees: S \in Batches
  BY DEF Batches
<1>. QED  BY <1>1, <1>2, <1>3, <1>4

LEMMA InitInv == Init => Inv
BY ContentAssumption, BatchTypes
   DEF Init, Inv, TypeOK, Ages, Trees, NoMark, NeverDangling, LostBytesCondemned,
       AckedSafe, BatchSafe, MarkPresent, Referenced

(* Uploads: bytes appear first, and the row only where they are.           *)
LEMMA UploadStep ==
    ASSUME Inv, NEW b \in Blobs, PutBytes(b) \/ Record(b) \/ RecordHalf(b)
    PROVE  Inv'
<1>. USE DEF Inv, PutBytes, Record, RecordHalf, catalog, repo
<1>1. TypeOK'
  BY DEF TypeOK, Ages
<1>2. NeverDangling' /\ LostBytesCondemned'
  BY DEF TypeOK, NeverDangling, LostBytesCondemned, Referenced, Recorded
<1>3. AckedSafe'
  BY DEF TypeOK, AckedSafe
<1>4. BatchSafe' /\ MarkPresent'
  BY DEF TypeOK, BatchSafe, MarkPresent, Referenced, NoMark
<1>. QED  BY <1>1, <1>2, <1>3, <1>4

(* Creates: the insert brings references only to blobs it found recorded,  *)
(* and through the parent's tree to blobs already referenced.              *)
LEMMA CreateStep ==
    ASSUME Inv, NEW c \in Changesets, ReadParent(c) \/ Persist(c) \/ Refer(c)
    PROVE  Inv'
<1>. USE ContentAssumption DEF Inv, ReadParent, Persist, Refer, catalog, repo, clients
<1>1. TypeOK'
  BY DEF TypeOK, Trees
<1>2. NeverDangling'
  <2>1. CASE UNCHANGED <<cs, trees>>
    BY <2>1 DEF NeverDangling, Referenced, Recorded
  <2>2. CASE /\ Persist(c)
             /\ \A b \in Changes[c]: Recorded(b)
             /\ Parent[c] # None => Tree[Parent[c]] \in trees
             /\ cs' = cs \cup {c}
             /\ trees' = trees \cup {Tree[c]}
    <3>1. \A b \in Changes[c] \cup Tree[c]: Recorded(b)
      BY <2>2 DEF NeverDangling, Referenced
    <3>2. ASSUME NEW b \in Blobs, Referenced(b)'
          PROVE  Recorded(b)'
      BY <2>2, <3>1, <3>2 DEF NeverDangling, Referenced, Recorded
    <3>. QED  BY <2>2, <3>2 DEF NeverDangling
  <2>. QED  BY <2>1, <2>2
<1>3. LostBytesCondemned' /\ AckedSafe' /\ MarkPresent'
  BY DEF LostBytesCondemned, AckedSafe, MarkPresent
<1>4. BatchSafe'
  BY DEF BatchSafe, Referenced
<1>. QED  BY <1>1, <1>2, <1>3, <1>4

(* The mark and the ledger.  What the mark holds was referenced, so it had *)
(* its bytes, and repairing its ledger row frees no row of lost bytes.     *)
LEMMA MarkStep ==
    ASSUME Inv, Mark
    PROVE  Inv'
<1>. USE ContentAssumption DEF Inv, Mark, repo
<1>1. PICK touches \in BOOLEAN, ledgers \in BOOLEAN:
         /\ row' = Aged(row, touches)
         /\ acked' = IF touches THEN {} ELSE acked
         /\ ledger' = Aged(ledger, ledgers)
         /\ csLedger' = Aged(csLedger, ledgers)
         /\ treeLedger' = Aged(treeLedger, ledgers)
  OBVIOUS
<1>2. mark'.blobs \subseteq bytes /\ mark' \in
         [cs: SUBSET Changesets, blobs: SUBSET Blobs, trees: SUBSET Trees]
  <2>1. \A t \in trees: t \subseteq bytes
    BY DEF TypeOK, Trees, NeverDangling, Referenced, Recorded
  <2>2. \A c \in cs: Changes[c] \subseteq bytes
    BY DEF TypeOK, NeverDangling, Referenced, Recorded
  <2>3. Reachable \subseteq Changesets
    BY DEF Reachable
  <2>. QED  BY <2>1, <2>2, <2>3 DEF TypeOK, Trees
<1>3. TypeOK'
  BY <1>1, <1>2 DEF TypeOK, Ages, Aged
<1>4. \A b \in Blobs: (row'[b] = "none") <=> (row[b] = "none")
  BY <1>1 DEF TypeOK, Aged
<1>5. NeverDangling' /\ LostBytesCondemned'
  BY <1>4 DEF TypeOK, NeverDangling, LostBytesCondemned, Referenced, Recorded
<1>6. AckedSafe'
  BY <1>1 DEF TypeOK, AckedSafe, Aged
<1>7. BatchSafe' /\ MarkPresent'
  BY <1>2 DEF BatchSafe, MarkPresent
<1>. QED  BY <1>3, <1>5, <1>6, <1>7

LEMMA UpdateLedgerStep ==
    ASSUME Inv, UpdateLedger
    PROVE  Inv'
<1>. USE DEF Inv, UpdateLedger, repo, clients, NoMark
<1>1. TypeOK'
  BY DEF TypeOK, Ages, Repaired
<1>2. NeverDangling' /\ LostBytesCondemned'
  BY DEF TypeOK, NeverDangling, LostBytesCondemned, MarkPresent, Referenced, Recorded
<1>3. AckedSafe'
  BY DEF TypeOK, AckedSafe
<1>4. BatchSafe' /\ MarkPresent'
  BY DEF TypeOK, BatchSafe, MarkPresent
<1>. QED  BY <1>1, <1>2, <1>3, <1>4

(* Changesets and trees: references only disappear, and a tree that goes   *)
(* is no changeset's root.                                                 *)
LEMMA CollectStep ==
    ASSUME Inv, CollectCs \/ FinishCs \/ SweepTrees \/ FinishTrees
    PROVE  Inv'
<1>. USE DEF Inv, CollectCs, FinishCs, SweepTrees, FinishTrees, catalog, repo, clients
<1>1. TypeOK'
  <2>1. CASE CollectCs
    <3>. PICK S \in SUBSET Collectible:
           batch' = S /\ cs' = cs \ S
      BY <2>1
    <3>. S \in SUBSET Changesets
      BY DEF TypeOK, Collectible
    <3>. QED  BY <2>1, BatchTypes DEF TypeOK, Ages
  <2>2. CASE FinishCs
    BY <2>2, BatchTypes DEF TypeOK, Ages
  <2>3. CASE SweepTrees
    BY <2>3, BatchTypes DEF TypeOK, Ages
  <2>4. CASE FinishTrees
    BY <2>4, BatchTypes DEF TypeOK, Ages
  <2>. QED  BY <2>1, <2>2, <2>3, <2>4
<1>2. NeverDangling'
  BY DEF NeverDangling, Referenced, Recorded
<1>3. LostBytesCondemned' /\ AckedSafe'
  BY DEF LostBytesCondemned, AckedSafe
<1>4. BatchSafe' /\ MarkPresent'
  BY DEF TypeOK, BatchSafe, MarkPresent
<1>. QED  BY <1>1, <1>2, <1>3, <1>4

(* Phase A sets marks only, on rows without a recent touch.                *)
LEMMA CondemnStep ==
    ASSUME Inv, Condemn
    PROVE  Inv'
<1>. USE DEF Inv, Condemn, repo, clients
<1>1. TypeOK'
  BY DEF TypeOK
<1>2. NeverDangling' /\ LostBytesCondemned'
  BY DEF TypeOK, NeverDangling, LostBytesCondemned, Referenced, Recorded
<1>3. AckedSafe'
  BY DEF TypeOK, AckedSafe
<1>4. BatchSafe' /\ MarkPresent'
  BY DEF TypeOK, BatchSafe, MarkPresent
<1>. QED  BY <1>1, <1>2, <1>3, <1>4

(* Phase B: the bytes, then the rows, of condemned unreferenced blobs.     *)
LEMMA DeleteBytesStep ==
    ASSUME Inv, DeleteBytes
    PROVE  Inv'
<1>. USE DEF Inv, DeleteBytes, catalog, repo, clients
<1>1. PICK S \in SUBSET Deletable: batch' = S /\ bytes' = bytes \ S
  OBVIOUS
<1>2. \A b \in S: b \in Blobs /\ condemned[b] = "earlier" /\ ~Referenced(b)
  BY DEF Deletable
<1>3. TypeOK'
  BY <1>1, <1>2, BatchTypes DEF TypeOK
<1>4. NeverDangling' /\ LostBytesCondemned'
  BY <1>1, <1>2 DEF TypeOK, NeverDangling, LostBytesCondemned, Referenced, Recorded
<1>5. AckedSafe'
  BY <1>1, <1>2 DEF AckedSafe
<1>6. BatchSafe' /\ MarkPresent'
  BY <1>1, <1>2 DEF BatchSafe, MarkPresent, NoMark, Referenced
<1>. QED  BY <1>3, <1>4, <1>5, <1>6

LEMMA DeleteRowsStep ==
    ASSUME Inv, DeleteRows
    PROVE  Inv'
<1>. USE DEF Inv, DeleteRows, repo, clients
<1>1. TypeOK'
  BY BatchTypes DEF TypeOK, Ages
<1>2. NeverDangling' /\ LostBytesCondemned'
  BY DEF TypeOK, NeverDangling, LostBytesCondemned, BatchSafe, Referenced, Recorded
<1>3. AckedSafe'
  BY DEF TypeOK, AckedSafe, BatchSafe
<1>4. BatchSafe' /\ MarkPresent'
  BY DEF TypeOK, BatchSafe, MarkPresent
<1>. QED  BY <1>1, <1>2, <1>3, <1>4

(* Wherever the pass is cut, the tables stand as they are.                 *)
LEMMA CutStep ==
    ASSUME Inv, Abort \/ Crash \/ UNCHANGED vars
    PROVE  Inv'
<1>. USE DEF Inv, Abort, Crash, vars, catalog, repo, clients, NoMark
<1>1. TypeOK'
  BY BatchTypes DEF TypeOK
<1>2. NeverDangling' /\ LostBytesCondemned' /\ AckedSafe'
  BY DEF NeverDangling, LostBytesCondemned, AckedSafe, Referenced, Recorded
<1>3. BatchSafe' /\ MarkPresent'
  BY DEF BatchSafe, MarkPresent, Referenced
<1>. QED  BY <1>1, <1>2, <1>3

LEMMA NextStep == Inv /\ [Next]_vars => Inv'
<1>. SUFFICES ASSUME Inv, [Next]_vars PROVE Inv'
  OBVIOUS
<1>1. CASE Client
  BY <1>1, UploadStep, CreateStep DEF Client
<1>2. CASE Pass
  BY <1>2, MarkStep, UpdateLedgerStep, CollectStep, CondemnStep, DeleteBytesStep,
     DeleteRowsStep, CutStep DEF Pass
<1>3. CASE Crash \/ UNCHANGED vars
  BY <1>3, CutStep
<1>. QED  BY <1>1, <1>2, <1>3 DEF Next

LEMMA Invariance == Spec => []Inv
<1>1. Inv /\ [Next]_vars => Inv'
  BY NextStep
<1>. QED  BY <1>1, InitInv, PTL DEF Spec

(* The state has its types.                                                *)
THEOREM TypeCorrect == Spec => []TypeOK
<1>1. Inv => TypeOK
  BY DEF Inv
<1>. QED  BY <1>1, Invariance, PTL

(* Never dangling, for every history and every interleaving of uploads,    *)
(* creates, passes, errors and crashes.                                    *)
THEOREM NothingDangles == Spec => []NeverDangling
<1>1. Inv => NeverDangling
  BY DEF Inv
<1>. QED  BY <1>1, Invariance, PTL

(* An acknowledged upload outlives its grace window.                       *)
THEOREM UploadsAreKept == Spec => []UploadsKept
<1>1. Inv => UploadsKept
  BY DEF Inv, UploadsKept, AckedSafe, Recorded
<1>. QED  BY <1>1, Invariance, PTL

(* A row that lost its bytes is condemned, and a later pass removes it.    *)
THEOREM LostBytesAreCondemned == Spec => []LostBytesCondemned
<1>1. Inv => LostBytesCondemned
  BY DEF Inv
<1>. QED  BY <1>1, Invariance, PTL

(* The probes of a changeset batch are local: no ref, no land row, no      *)
(* child row.  A changeset that passes them is outside the whole closure,  *)
(* since everything but it is closed under parents.                        *)
LEMMA CollectibleUnreachable == TypeOK => Collectible \cap Reachable = {}
<1>. SUFFICES ASSUME TypeOK, NEW c \in Collectible, c \in Reachable PROVE FALSE
  OBVIOUS
<1>1. refs \subseteq Changesets \ {c}
  BY DEF TypeOK, Collectible
<1>2. ParentClosed(Changesets \ {c})
  BY ContentAssumption DEF TypeOK, Collectible, ParentClosed
<1>. QED  BY <1>1, <1>2 DEF Reachable

(* No step of the system deletes a changeset that a ref or a land reaches. *)
THEOREM ReachableIsKept == Spec => ReachableKept
<1>1. TypeOK /\ [Next]_vars => [\A c \in Reachable \cap cs: c \in cs']_vars
  <2>. SUFFICES ASSUME TypeOK, Next, NEW c \in Reachable \cap cs PROVE c \in cs'
    BY DEF vars
  <2>1. CASE CollectCs
    BY <2>1, CollectibleUnreachable DEF CollectCs
  <2>2. CASE Client
    BY <2>2 DEF Client, PutBytes, Record, RecordHalf, ReadParent, Persist, Refer, repo
  <2>3. CASE Pass /\ ~CollectCs
    BY <2>3 DEF Pass, Mark, UpdateLedger, FinishCs, Condemn, DeleteBytes, DeleteRows,
                SweepTrees, FinishTrees, Abort, repo
  <2>4. CASE Crash
    BY <2>4 DEF Crash, repo
  <2>. QED  BY <2>1, <2>2, <2>3, <2>4 DEF Next
<1>. QED  BY <1>1, TypeCorrect, PTL DEF Spec, ReachableKept
=============================================================================
