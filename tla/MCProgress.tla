----------------------------- MODULE MCProgress -----------------------------
(***************************************************************************)
(* What must eventually happen, in the components that promise it: the GC's *)
(* paging (this module extends it), the land join, the redaction purge and *)
(* the derive queue.  A behaviour is one of them at work, the others at     *)
(* rest; fairness is asked of the one at work.                             *)
(***************************************************************************)
EXTENDS GcPaging, TLC

CONSTANTS
    Parts,      \* the components that may be at work
    None, Other, r1, r2, h1, ra, ca, cb, x, y

VARIABLES
    part,
    lands, main, split, audit, registry, chan, slot, task, out, landPc, joined, landCrashes,
    ask, answer,
    tomb, marked, marking, rows, trees, pinned, member, objects, touched, bytes, upload,
    purge, marks, purgeCrashes,
    up, eager, imports, changesets, row, marker, inflight, unqueued, backfill, cursor, queue,
    csMarks, strikes, faults

Land == INSTANCE LandJoin WITH
    Requests <- {r1, r2}, Keys <- {ca}, Heads <- {h1}, MaxCrashes <- 1,
    pc <- landPc, crashes <- landCrashes
Red == INSTANCE Redaction WITH
    Repos <- {ra}, Blobs <- {x, y}, Changesets <- {ca}, Owner <- (ca :> ra),
    Parent <- (ca :> None), Changes <- (ca :> {x}), Refs <- (ca :> {x}),
    BatchBlobs <- 1, MaxMarks <- 2, MaxCrashes <- 1, crashes <- purgeCrashes
Queue == INSTANCE DeriveQueue WITH
    Changesets <- {ca, cb}, Parents <- (ca :> {}) @@ (cb :> {ca}),
    Generation <- (ca :> 0) @@ (cb :> 1), Eagers <- {FALSE},
    MaxAttempts <- 2, MaxFaults <- 1, MaxMarks <- 0, marks <- csMarks

BranchedParent == [c \in Changesets |-> IF c = 3 THEN 2 ELSE IF c = 1 THEN 4 ELSE 0]

landVars  == <<lands, main, split, audit, registry, chan, slot, task, out, landPc, joined,
               landCrashes, ask, answer>>
purgeVars == <<tomb, marked, marking, rows, trees, pinned, member, objects, touched, bytes,
               upload, purge, marks, purgeCrashes>>
queueVars == <<up, eager, imports, changesets, row, marker, inflight, unqueued, backfill,
               cursor, queue, csMarks, strikes, faults>>
allVars   == <<part, vars, landVars, purgeVars, queueVars>>

(* Where the land is at rest its layout is fixed.                          *)
ProgressInit ==
    /\ part \in Parts
    /\ Init /\ Land!Init /\ Red!Init /\ Queue!Init
    /\ part # "land" => ~split

ProgressNext ==
    \/ /\ part = "paging" /\ Next
       /\ UNCHANGED <<part, landVars, purgeVars, queueVars>>
    \/ /\ part = "land" /\ Land!Next
       /\ UNCHANGED <<part, vars, purgeVars, queueVars>>
    \/ /\ part = "purge" /\ Red!Next
       /\ UNCHANGED <<part, vars, landVars, queueVars>>
    \/ /\ part = "queue" /\ Queue!Next
       /\ UNCHANGED <<part, vars, landVars, purgeVars>>

(* Each component's own fairness (its FairSpec), while it is at work.  As   *)
(* one of them works at a time, the strong fairness of two may be asked of *)
(* the disjunction.                                                        *)
Paging(A) == part = "paging" /\ A /\ UNCHANGED <<purgeVars, queueVars>>
Purge(A)  == part = "purge" /\ A /\ UNCHANGED <<vars, queueVars>>
Derive(A) == part = "queue" /\ A /\ UNCHANGED <<vars, purgeVars>>
some == <<vars, purgeVars, queueVars>>

Fairness ==
    /\ WF_vars(part = "paging" /\ (UpdateLedger \/ CollectPage \/ FinishBatch))
    /\ \A r \in {r1, r2}:
         /\ WF_landVars(part = "land" /\ Land!Write(r))
         /\ WF_landVars(part = "land" /\ Land!Lead(r))
         /\ WF_landVars(part = "land" /\ Land!Join(r))
    /\ WF_purgeVars(part = "purge" /\ Red!Purging)
    /\ WF_purgeVars(part = "purge" /\ Red!GraceEnds)
    /\ WF_queueVars(part = "queue" /\ Queue!Boot)
    /\ WF_queueVars(part = "queue" /\ Queue!EnqueueChangeset)
    /\ WF_queueVars(part = "queue" /\ (Queue!BackfillBatch \/ Queue!BackfillEnds))
    /\ WF_queueVars(part = "queue" /\ Queue!BackfillProbe)
    /\ WF_queueVars(part = "queue" /\ Queue!BackfillMark)
    /\ WF_queueVars(part = "queue" /\ Queue!Pick)
    /\ WF_queueVars(part = "queue" /\ Queue!ReleaseAfterBusy)
    /\ SF_some(Paging(StartLate) \/ Purge(Red!SweepTrees) \/ Derive(Queue!SweepExpired))
    /\ SF_queueVars(part = "queue" /\ Queue!Lease)
    /\ SF_queueVars(part = "queue" /\ Queue!Derive)
    /\ SF_queueVars(part = "queue" /\ (Queue!RecordFailure \/ Queue!RecordOutput))

ProgressSpec == ProgressInit /\ [][ProgressNext]_allVars /\ Fairness

-----------------------------------------------------------------------------
(* The GC's paging: garbage that no stalled page hides is collected and    *)
(* stranded ledger rows are reaped, whatever passes are cut.               *)
CollectorProgresses == GarbageCollectedUnlessStalled /\ PhantomsReaped

(* A joiner of a land is answered without a timer: the leader publishes or *)
(* its guard fails the joiners.                                            *)
JoinersAnswered == Land!JoinersAnswered

(* An erasure completes: an active tombstone is stamped purged, unless the *)
(* blob stays in use or older ones that do fill the page, or a ref or a    *)
(* child pins the changeset.                                               *)
ErasureCompletes == Red!ErasureCompletes /\ Red!TombstonesConverge

(* The derive queue drains: every changeset is derived or quarantined.     *)
QueueDrains == Queue!QueueDrains

(* What the source promises without the exception of the page: the erasure *)
(* of a blob nothing references.                                           *)
ErasurePromised == Red!ErasurePromised
=============================================================================
