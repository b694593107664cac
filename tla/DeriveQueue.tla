---------------------------- MODULE DeriveQueue ----------------------------
(***************************************************************************)
(* The derive queue of one kind in one repo (derive.rs and its statements  *)
(* in db.rs): enqueue on create, the boot backfill, the queue's pass with  *)
(* its leases, quarantine and taint, against creates, redaction marks,     *)
(* the collector, a busy write slot, statements that fail and crashes.     *)
(*                                                                         *)
(* A row's `exact' is a history variable: no parent that was settled when  *)
(* the output was computed had a hole.  The clock is abstracted: a lease   *)
(* no pass holds any more may be past its expiry at any time (a live pass  *)
(* never loses its lease, the sweep runs in the same task).                *)
(***************************************************************************)
EXTENDS Naturals, FiniteSets

CONSTANTS Changesets, None,
          Parents,      \* Parents[c]: the parents of c
          Generation,   \* Generation[c]: one above the parents'
          Eagers,       \* the natures of the kind: the production kinds are deferred
          MaxAttempts,  \* DERIVE_MAX_ATTEMPTS
          MaxFaults,    \* bound on crashes, panics, failed and given-up steps
          MaxMarks      \* bound on redaction marks

VARIABLES
    up,         \* the server runs
    eager,      \* the kind derives in the create
    imports,    \* the offline import of a stopped server is still to come
    changesets, \* changesets with their row
    row,        \* row[c]: the derive_state row of c, or None
    marker,     \* derive_backfill_done
    inflight,   \* the create that has inserted its row and not enqueued yet
    unqueued,   \* history: creates of this boot whose enqueue failed
    backfill,   \* "off", "batch", "probe", "mark", "done"
    cursor,     \* the generation its batches have scanned up to
    queue,      \* the pass: pc, the node, the lease it took, the outcome
    marks,      \* changesets with a redaction mark
    strikes,    \* history: strikes[c]: failures, crashes and given-up releases
    faults

vars == <<up, eager, imports, changesets, row, marker, inflight, unqueued, backfill,
          cursor, queue, marks, strikes, faults>>

Outcomes == {"ok", "oversize", "budget", "deadline", "fail"}
Row == [state: {"pending", "deriving", "done", "poison"}, attempts: 0..MaxAttempts,
        tainted: BOOLEAN, exact: BOOLEAN]

DeriveAssumption ==
    /\ Parents \in [Changesets -> SUBSET Changesets]
    /\ Generation \in [Changesets -> Nat]
    /\ \A c \in Changesets: \A p \in Parents[c]: Generation[p] < Generation[c]
    /\ Eagers \subseteq BOOLEAN
    /\ MaxAttempts \in Nat \ {0} /\ MaxFaults \in Nat
    /\ None \notin Changesets /\ None \notin Row

Idle == [pc |-> "idle", cs |-> None, outcome |-> None, tainted |-> FALSE, exact |-> FALSE]

(* The types of the state; the pass has a node except when it is idle.     *)
TypeOK ==
    /\ up \in BOOLEAN /\ eager \in BOOLEAN /\ imports \in BOOLEAN /\ marker \in BOOLEAN
    /\ changesets \subseteq Changesets
    /\ row \in [Changesets -> Row \cup {None}]
    /\ inflight \in Changesets \cup {None}
    /\ unqueued \subseteq Changesets
    /\ backfill \in {"off", "batch", "probe", "mark", "done"}
    /\ cursor \in Nat
    /\ queue.pc \in {"idle", "pick", "picked", "leased", "derived", "release"}
    /\ queue.pc \in {"picked", "leased", "derived", "release"} => queue.cs \in Changesets
    /\ queue.outcome \in Outcomes \cup {None}
    /\ marks \subseteq Changesets
    /\ strikes \in [Changesets -> Nat]
    /\ faults \in 0..MaxFaults

Init ==
    /\ up = FALSE
    /\ eager = FALSE
    /\ imports = TRUE
    /\ changesets = {}
    /\ row = [c \in Changesets |-> None]
    /\ marker = FALSE
    /\ inflight = None
    /\ unqueued = {}
    /\ backfill = "off"
    /\ cursor = 0
    /\ queue = Idle
    /\ marks = {}
    /\ strikes = [c \in Changesets |-> 0]
    /\ faults = 0

-----------------------------------------------------------------------------
(* The statements.                                                         *)

Fresh(state) == [state |-> state, attempts |-> 0, tainted |-> FALSE, exact |-> FALSE]
Waiting(r) == r # None /\ r.state \in {"pending", "deriving"}

(* derive_parent_outputs and collapse_taint: a poisoned parent taints, one *)
(* without a row or still waiting hands down the empty marker untainted    *)
CollapseTaint(c) ==
    \E p \in Parents[c]: row[p] # None /\
        (row[p].state = "poison" \/ (row[p].state = "done" /\ row[p].tainted))
ParentOutputsExact(c) ==
    \A p \in Parents[c]:
        row[p] # None /\ ~Waiting(row[p]) => row[p].state = "done" /\ row[p].exact

(* derive_fail_attempt: nothing for a collected changeset *)
FailLate(r, c) ==
    LET n == 1 + IF r = None THEN 0 ELSE r.attempts IN
    IF c \notin changesets THEN r
    ELSE [Fresh(IF n > MaxAttempts THEN "poison" ELSE "pending") EXCEPT !.attempts = n]
FailAttempt(r, c) ==
    LET n == 1 + IF r = None THEN 0 ELSE r.attempts IN
    IF c \notin changesets THEN r
    ELSE [Fresh(IF n >= MaxAttempts THEN "poison" ELSE "pending") EXCEPT !.attempts = n]

(* derive_poison_now, which writes whether or not the changeset is there *)
PoisonNow(r) == IF r = None THEN Fresh("poison") ELSE [r EXCEPT !.state = "poison"]

(* derive_record_done: only over the lease, only while the changeset is there *)
RecordDone(r, c, tainted, exact) ==
    IF c \in changesets /\ r # None /\ r.state = "deriving"
      THEN [r EXCEPT !.state = "done", !.tainted = tainted, !.exact = exact]
      ELSE r

(* derive_pick_next: pending, and no parent waiting *)
PickBehindPoison ==
    {c \in Changesets: /\ row[c] # None /\ row[c].state = "pending"
                       /\ \A p \in Parents[c]: row[p] = None \/ row[p].state = "done"}
PickNext ==
    {c \in Changesets: /\ row[c] # None /\ row[c].state = "pending"
                       /\ \A p \in Parents[c]: ~Waiting(row[p])}

-----------------------------------------------------------------------------
(* The server and its writers.                                             *)

(* An offline import, registry-less: rows without derive rows *)
Import(c) ==
    /\ ~up /\ imports /\ c \notin changesets /\ Parents[c] \subseteq changesets
    /\ changesets' = changesets \cup {c}
    /\ imports' = FALSE
    /\ UNCHANGED <<up, eager, row, marker, inflight, unqueued, backfill, cursor, queue,
                   marks, strikes, faults>>

(* serve registers its kinds, clears the markers before it accepts, then    *)
(* spawns the backfill                                                     *)
BootKeepingMarker ==
    /\ ~up /\ up' = TRUE
    /\ eager' \in Eagers
    /\ backfill' = "batch"
    /\ cursor' = 0
    /\ unqueued' = {}
    /\ UNCHANGED <<imports, changesets, row, marker, inflight, queue, marks, strikes,
                   faults>>
Boot ==
    /\ ~up /\ up' = TRUE
    /\ eager' \in Eagers
    /\ marker' = FALSE
    /\ backfill' = "batch"
    /\ cursor' = 0
    /\ unqueued' = {}
    /\ UNCHANGED <<imports, changesets, row, inflight, queue, marks, strikes, faults>>

(* create: changeset_insert commits on its own *)
CreateInsert(c) ==
    /\ up /\ inflight = None
    /\ c \notin changesets /\ c \notin marks /\ Parents[c] \subseteq changesets
    /\ changesets' = changesets \cup {c}
    /\ inflight' = c
    /\ UNCHANGED <<up, eager, imports, row, marker, unqueued, backfill, cursor, queue,
                   marks, strikes, faults>>

(* then enqueue_changeset, in the same hold of the slot *)
EnqueueChangeset ==
    LET c == inflight IN
    /\ up /\ c # None
    /\ inflight' = None
    /\ IF ~eager
         THEN /\ row' = [row EXCEPT ![c] = IF @ = None THEN Fresh("pending") ELSE @]
              /\ UNCHANGED strikes
         ELSE \/ /\ row[c] = None
                 /\ row' = [row EXCEPT ![c] = [Fresh("done") EXCEPT
                                !.tainted = CollapseTaint(c), !.exact = ParentOutputsExact(c)]]
                 /\ UNCHANGED strikes
              \/ row' = [row EXCEPT ![c] = PoisonNow(@)] /\ UNCHANGED strikes
              \/ /\ row' = [row EXCEPT ![c] = FailAttempt(@, c)]
                 /\ strikes' = [strikes EXCEPT ![c] = @ + 1]
    /\ UNCHANGED <<up, eager, imports, changesets, marker, unqueued, backfill, cursor,
                   queue, marks, faults>>

(* ... which may fail alone: the changeset is committed, the create is     *)
(* answered with an error, and a retry of it meets its own row             *)
EnqueueFails ==
    /\ up /\ inflight # None /\ faults < MaxFaults
    /\ faults' = faults + 1
    /\ unqueued' = unqueued \cup {inflight}
    /\ inflight' = None
    /\ UNCHANGED <<up, eager, imports, changesets, row, marker, backfill, cursor, queue,
                   marks, strikes>>

(* redaction_invalidate_derived, in the mark's transaction *)
RedactionMark(c) ==
    /\ up /\ inflight = None
    /\ c \in changesets \ marks /\ Cardinality(marks) < MaxMarks
    /\ marks' = marks \cup {c}
    /\ row' = [row EXCEPT ![c] = IF @ = None THEN None ELSE [@ EXCEPT !.state = "poison"]]
    /\ UNCHANGED <<up, eager, imports, changesets, marker, inflight, unqueued, backfill,
                   cursor, queue, strikes, faults>>

(* The collector takes a childless changeset with its derive rows *)
Collect(c) ==
    /\ up /\ inflight = None
    /\ c \in marks \cap changesets
    /\ \A d \in changesets: c \notin Parents[d]
    /\ changesets' = changesets \ {c}
    /\ row' = [row EXCEPT ![c] = None]
    /\ UNCHANGED <<up, eager, imports, marker, inflight, unqueued, backfill, cursor, queue,
                   marks, strikes, faults>>

(* derive_backfill_batch of one row: by generation, from the cursor on     *)
Rowless == {c \in changesets: row[c] = None}
Ahead == {c \in Rowless: Generation[c] >= cursor}
BackfillBatch ==
    /\ up /\ backfill = "batch" /\ inflight = None
    /\ \E c \in Ahead:
         /\ \A d \in Ahead: Generation[c] <= Generation[d]
         /\ row' = [row EXCEPT ![c] = Fresh("pending")]
         /\ cursor' = Generation[c]
    /\ UNCHANGED <<up, eager, imports, changesets, marker, inflight, unqueued, backfill,
                   queue, marks, strikes, faults>>

(* The last batch inserts nothing *)
BackfillEnds ==
    /\ up /\ backfill = "batch" /\ inflight = None
    /\ Ahead = {}
    /\ backfill' = "probe"
    /\ cursor' = 0
    /\ UNCHANGED <<up, eager, imports, changesets, row, marker, inflight, unqueued,
                   queue, marks, strikes, faults>>

(* derive_backfill_rowless_exists, a read outside the slot: it sees what a *)
(* create has inserted and not enqueued yet.  A row too few ends the       *)
(* backfill until the next boot.                                           *)
BackfillProbe ==
    /\ up /\ backfill = "probe"
    /\ backfill' = IF Rowless = {} THEN "mark" ELSE "off"
    /\ UNCHANGED <<up, eager, imports, changesets, row, marker, inflight, unqueued, cursor,
                   queue, marks, strikes, faults>>

(* derive_backfill_done_set, in the catalog *)
BackfillMark ==
    /\ up /\ backfill = "mark"
    /\ backfill' = "done" /\ marker' = TRUE
    /\ UNCHANGED <<up, eager, imports, changesets, row, inflight, unqueued, cursor, queue,
                   marks, strikes, faults>>

(* A step that stays busy for its 1,000 retries, or fails: until the next boot *)
BackfillGivesUp ==
    /\ up /\ backfill \in {"batch", "probe", "mark"} /\ faults < MaxFaults
    /\ faults' = faults + 1
    /\ backfill' = "off"
    /\ cursor' = 0
    /\ UNCHANGED <<up, eager, imports, changesets, row, marker, inflight, unqueued,
                   queue, marks, strikes>>

Crash ==
    /\ up /\ faults < MaxFaults
    /\ faults' = faults + 1
    /\ up' = FALSE
    /\ inflight' = None
    /\ backfill' = "off"
    /\ queue' = Idle
    /\ cursor' = 0
    /\ UNCHANGED <<eager, imports, changesets, row, marker, unqueued, marks, strikes>>

-----------------------------------------------------------------------------
(* The pass.                                                               *)

(* derive_expired_leases, and sweep_expired: an orphaned lease costs an    *)
(* attempt                                                                 *)
ExpiredLeases == {c \in Changesets: row[c] # None /\ row[c].state = "deriving"}
SweepExpired ==
    /\ up /\ inflight = None /\ queue.pc = "idle"
    /\ \E c \in ExpiredLeases:
         /\ row' = [row EXCEPT ![c] = FailAttempt(@, c)]
         /\ strikes' = [strikes EXCEPT ![c] = @ + 1]
    /\ UNCHANGED <<up, eager, imports, changesets, marker, inflight, unqueued, backfill,
                   cursor, queue, marks, faults>>

Pick ==
    /\ up /\ queue.pc \in {"idle", "pick"}
    /\ IF PickNext = {} THEN queue.pc = "pick" /\ queue' = Idle
       ELSE \E c \in PickNext: queue' = [Idle EXCEPT !.pc = "picked", !.cs = c]
    /\ UNCHANGED <<up, eager, imports, changesets, row, marker, inflight, unqueued,
                   backfill, cursor, marks, strikes, faults>>

(* derive_lease: a stale pick falls through to the next *)
Lease ==
    LET c == queue.cs IN
    /\ up /\ inflight = None /\ queue.pc = "picked"
    /\ IF row[c] # None /\ row[c].state = "pending"
         THEN /\ row' = [row EXCEPT ![c].state = "deriving"]
              /\ queue' = [queue EXCEPT !.pc = "leased"]
         ELSE UNCHANGED row /\ queue' = [Idle EXCEPT !.pc = "pick"]
    /\ UNCHANGED <<up, eager, imports, changesets, marker, inflight, unqueued, backfill,
                   cursor, marks, strikes, faults>>

(* The deriver reads its parents and writes its own rows *)
Derive ==
    LET c == queue.cs IN
    /\ up /\ inflight = None /\ queue.pc = "leased"
    /\ \E o \in IF c \in changesets THEN Outcomes ELSE {"fail"}:
         queue' = [queue EXCEPT !.pc = "derived", !.outcome = o,
                                !.tainted = CollapseTaint(c), !.exact = ParentOutputsExact(c)]
    /\ UNCHANGED <<up, eager, imports, changesets, row, marker, inflight, unqueued,
                   backfill, cursor, marks, strikes, faults>>

(* The record of a failure, a transaction of its own: budget quarantines   *)
(* at once, the rest costs an attempt.  An overrun ends the pass unless it *)
(* quarantined the node.                                                   *)
RecordFailure ==
    LET c == queue.cs  o == queue.outcome IN
    /\ up /\ inflight = None /\ queue.pc = "derived" /\ o \in {"budget", "deadline", "fail"}
    /\ row' = [row EXCEPT ![c] = IF o = "budget" THEN PoisonNow(@) ELSE FailAttempt(@, c)]
    /\ strikes' = [strikes EXCEPT ![c] = IF o = "budget" THEN @ ELSE @ + 1]
    /\ queue' = IF o = "deadline" /\ (row'[c] = None \/ row'[c].state # "poison")
                  THEN Idle ELSE [Idle EXCEPT !.pc = "pick"]
    /\ UNCHANGED <<up, eager, imports, changesets, marker, inflight, unqueued, backfill,
                   cursor, marks, faults>>

(* The record of an output, unless it is over the size cap *)
RecordOutput ==
    LET c == queue.cs  o == queue.outcome IN
    /\ up /\ inflight = None /\ queue.pc = "derived" /\ o \in {"ok", "oversize"}
    /\ row' = [row EXCEPT ![c] = IF o = "oversize" THEN PoisonNow(@)
                                 ELSE RecordDone(@, c, queue.tainted, queue.exact)]
    /\ queue' = [Idle EXCEPT !.pc = "pick"]
    /\ UNCHANGED <<up, eager, imports, changesets, marker, inflight, unqueued, backfill,
                   cursor, marks, strikes, faults>>

(* The slot is busy: before the lease the pass just ends, after it the     *)
(* lease is given back first                                               *)
Busy ==
    /\ up /\ queue.pc \in {"picked", "leased", "derived"}
    /\ queue' = IF queue.pc = "picked" THEN Idle ELSE [queue EXCEPT !.pc = "release"]
    /\ UNCHANGED <<up, eager, imports, changesets, row, marker, inflight, unqueued,
                   backfill, cursor, marks, strikes, faults>>

ReleaseLease(r) ==
    IF r # None /\ r.state = "deriving" THEN [r EXCEPT !.state = "pending"] ELSE r

ReleaseAfterBusy ==
    /\ up /\ inflight = None /\ queue.pc = "release"
    /\ row' = [row EXCEPT ![queue.cs] = ReleaseLease(@)]
    /\ queue' = Idle
    /\ UNCHANGED <<up, eager, imports, changesets, marker, inflight, unqueued, backfill,
                   cursor, marks, strikes, faults>>

(* The release gives up, or the deriver panicked: the lease stays behind *)
LeaveLease ==
    /\ up /\ queue.pc \in {"leased", "release"} /\ faults < MaxFaults
    /\ faults' = faults + 1
    /\ queue' = Idle
    /\ UNCHANGED <<up, eager, imports, changesets, row, marker, inflight, unqueued,
                   backfill, cursor, marks, strikes>>

-----------------------------------------------------------------------------
Next ==
    \/ \E c \in Changesets:
          Import(c) \/ CreateInsert(c) \/ RedactionMark(c) \/ Collect(c)
    \/ Boot \/ EnqueueChangeset \/ EnqueueFails \/ Crash
    \/ BackfillBatch \/ BackfillEnds \/ BackfillProbe \/ BackfillMark \/ BackfillGivesUp
    \/ SweepExpired \/ Pick \/ Lease \/ Derive \/ RecordFailure \/ RecordOutput
    \/ Busy \/ ReleaseAfterBusy \/ LeaveLease

Spec == Init /\ [][Next]_vars

(* The tasks of a running server are scheduled again and again, and a busy *)
(* slot is only a transaction long: a pass that often finds its slot free  *)
(* does not lose every race for it.                                        *)
FairSpec ==
    /\ Spec
    /\ WF_vars(Boot) /\ WF_vars(EnqueueChangeset)
    /\ WF_vars(BackfillBatch \/ BackfillEnds) /\ WF_vars(BackfillProbe) /\ WF_vars(BackfillMark)
    /\ WF_vars(Pick) /\ WF_vars(ReleaseAfterBusy)
    /\ SF_vars(SweepExpired) /\ SF_vars(Lease) /\ SF_vars(Derive)
    /\ SF_vars(RecordFailure \/ RecordOutput)

-----------------------------------------------------------------------------
(* The marker the derived reads trust: while the server runs and it is     *)
(* set, only the changeset a create is just committing has no derive row,  *)
(* or one whose enqueue failed since the boot; also after an offline       *)
(* import, a backfill that failed before, a crash between insert and       *)
(* enqueue.                                                                *)
MarkerHonest == up /\ marker => Rowless \subseteq {inflight} \cup unqueued

(* What changesets.rs says of the enqueue ("inside the same transaction -- *)
(* a rolled-back create leaves no queue rows") has no such exception.      *)
MarkerComplete == up /\ marker => Rowless \subseteq {inflight}

(* The backfill outlives everything but a failure ("ordinary contention is *)
(* waited out (...) the backfill must survive it to finish").              *)
BackfillSurvives ==
    [][ up' /\ backfill # "off" /\ backfill' = "off"
          => faults' # faults \/ unqueued # {} ]_vars

(* Contention costs nothing: an attempt is a failure of the deriver or a   *)
(* lease that its holder left behind.                                      *)
AttemptsAreFailures ==
    \A c \in Changesets: row[c] # None => row[c].attempts <= strikes[c]

(* The collector's deletion is final for the queue: no waiting row comes   *)
(* back for a changeset that is gone, whatever the pass held at the time.  *)
NoWorkForTheDead == \A c \in Changesets: Waiting(row[c]) => c \in changesets

(* Nothing downstream of a quarantined changeset presents itself as exact: *)
(* the taint reaches every output made from the hole.  A parent the        *)
(* backfill has not reached leaves a hole that no taint tells.             *)
TaintSpreads ==
    \A c \in Changesets:
        row[c] # None /\ row[c].state = "done" /\ ~row[c].exact => row[c].tainted

(* The marker is honest, contention costs no attempt, nothing waits for a  *)
(* changeset that is gone, and what derives from a quarantined one is      *)
(* tainted.                                                                *)
QueueSound == MarkerHonest /\ AttemptsAreFailures /\ NoWorkForTheDead /\ TaintSpreads

(* Every changeset is derived or quarantined in the end: a poisoned parent *)
(* never blocks its children, and an abandoned lease is swept.  Only what  *)
(* was not queued and the backfill has given up on waits for a boot.       *)
QueueDrains ==
    \A c \in Changesets:
        []<>(\/ c \notin changesets
             \/ IF row[c] = None THEN backfill = "off" \/ c \in unqueued
                ELSE ~Waiting(row[c]))
=============================================================================
