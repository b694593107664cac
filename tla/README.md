# A verification project for naatre

naatre is a self-hosted version control server with a command-line client,
written in Rust. This directory holds TLA+ models of its server, its offline
tools and its client's working copy, the TLC configurations that check them on
small instances, and TLAPS proofs of every safety property for every instance.
`PROJECT.json` maps each definition to the lines it models and lists runs,
mutants, hazards, findings and theorems.

Paths below are relative to `src/crates/naatre-server/src/` unless they name
another crate.

## The system

| Component | State | Operations | Hard behaviour | What makes it correct |
|---|---|---|---|---|
| Land route, join registry (`routes/land.rs`, `land_join.rs`) | in-memory registry of in-flight lands, one outcome channel each | begin, publish, drop, join, settled replay, status | concurrent retries, a handler dropped while its write runs on, deadlines | one settlement per key, true answers, joiners always answered |
| Land transaction (`land.rs`, `merge.rs`) | `lands`, `refs`, `changesets`, `audit` rows | idempotency check, rebase, move of main, settle, audit | crash around the commit, audit after it in the split layout | main moves once per settled key; no audit row without its land; history linear |
| Write slots (`state.rs`, `router.rs`) | one mutex for the catalog, one per repo, one flag | `write`, `write_repo`, `write_all` | try-lock everywhere, two background tasks that take all slots, panics | a batch runs alone, a repo has one writer |
| Reachability GC (`gc.rs`, `db.rs`) | `gc_pending` ledger, condemnation marks | mark, ledger update, changeset batches, condemn, delete, tree sweep, redaction purge | concurrent uploads and creates, a pass cut anywhere, paging | nothing dangles, nothing reachable goes, all garbage goes eventually |
| Upload (`routes/objects.rs`) | blob store, `objects` rows | put bytes, record | the bytes are written outside the slot | an acknowledged upload stays through its grace |
| Changeset creation (`routes/changesets.rs`, `tree_derive.rs`) | `changesets`, parents, file changes, trees | resolve the parent, check blobs, derive the tree, insert | the parent is read before the slot is taken | every reference resolves |
| Refs (`routes/refs.rs`) | `refs` with versions | create, CAS | concurrent moves | fast-forward only |
| Redactions (`routes/redactions.rs`, `gc.rs`) | tombstones, membership rows | mark, re-arm, purge | a write that names redacted content while it is purged, a purge cut anywhere | redacted content is never served or recreated, an erasure completes |
| Snapshots (`routes/snapshots.rs`, `snapshots_gc.rs`) | rows with expiry, a directory per snapshot | put, save, extend, expire | collection in steps against POSTs, two passes at once | a live snapshot resolves |
| Derive queue (`derive.rs`, `derived.rs`) | a row per changeset and kind, a backfill marker | enqueue, backfill, lease, derive, record, sweep | crash with a lease, busy slot, quarantine, the collector | every changeset is derived or quarantined; a hole is told downstream |
| History reads (`routes/history.rs`, `routes/trees.rs`) | none; reads rows and derived rows | log, path history, merge base, blame, diff, file, tree | pages over a history that changes, skips over missing rows | answers equal those of a plain walk, nothing redacted is named |
| Tickets (`ticket.rs`, `host.rs`) | verify list, secret, audit row; a copy at the tier | init, rotate, drop, repair, mint, verify | a verb that dies between its writes, clock skew | access ends in time, what is minted verifies |
| Cache tier (`cache_tier.rs`) | membership snapshots, local copies | probe, walk, serve, evict | requests that replace each other's snapshot between awaits | what the origin refuses is refused |
| Auth (`auth.rs`, `routes/access.rs`, `tokens.rs`, `principals.rs`) | tokens, principals, grants, audit log, failure windows | authenticate, gate, grant, revoke, erase | commits between the steps of a request | dead tokens stay dead, no existence oracle, bounded rows |
| Import (`import.rs`) | mapped commits, main | map, validate, import a commit, move main | crash and re-run, rewritten source, redactions | the source's history is kept, main fast-forwards |
| Backup, restore (`backup.rs`) | backup directory, target data dir | dump, copy, manifest; verify, stage, swap | crashes, purges, rot, a racing init | a restore that ended well is the backup |
| Adoption (`adopt.rs`, `layout.rs`) | catalog, repo files, marker; the source | guard, lock, copy, verify, mark, clean up; cutover by the operator | failure and death at every step, a second command, guards that run before the lock | nothing partial is served, nothing is lost |
| Fsck (`fsck.rs`) | none | check | - | reports what the collector's invariants forbid |
| Working copy (`naatre-cli`: `wc/`, `verbs/`) | checkout, index, state, lock | clone, sync, commit, land, sparse, resolve, snapshot, restore, doctor | verbs that die, edits while a verb runs, other clients | no lost local change, status tells the truth |

Handlers run concurrently on an async runtime. They share the database through
read pools that take no lock, and through write slots that are only ever tried:
a busy slot is a retryable 503. Blocking closures run detached from the handler
that started them. `serve` runs snapshot GC, the derive queue and reachability
GC as three separate tasks.

## Modules

| Module | Models |
|---|---|
| `SettleOnce` | abstract: what the land endpoint promises its clients |
| `LandJoin`, `MCLandJoin` | the land route, the join registry, the write closure |
| `LandJoinProofs` | invariants of LandJoin, and that it implements SettleOnce |
| `GcSweep`, `MCGcSweep` | GC passes against uploads, creates and refs |
| `GcSweepProofs` | invariants of GcSweep |
| `GcPaging` | the changeset batches page by page, over repeated passes |
| `WriteSlots`, `MCWriteSlots` | the slots, the flag, and who takes them |
| `WriteSlotsProofs` | exclusion by the slots |
| `Redaction` | tombstones and their purge over repos that share blobs |
| `Snapshots` | snapshots and their collection |
| `DeriveQueue` | the derive queue of one kind in one repo |
| `History` | the reads over a history, what the derivers make, refs |
| `Tickets`, `CacheTier` | the key verbs and tickets; the tier before the origin |
| `Access`, `AuthFailures` | tokens, principals, grants, gates; the failure limiter |
| `Rebase`, `MCRebase` | the land transaction: walk, three-way merge, recorded conflicts, tombstone gates, move of main |
| `WorkingCopy` | the checkout, its index and state, and the verbs |
| `Import`, `Backup`, `Adopt` | git import; backup and restore; adoption of the split layout |
| `Serving`, `MCServing` | the server's components side by side |
| `Tools`, `MCTools` | rebase, working copy, import, backup and adoption side by side |
| `MCProgress` | the liveness of paging, joins, purge and queue |
| `RecursionLemmas` | induction over numbers, and what definitions by recursion compute |
| `HistoryProofs`, `ImportProofs` | invariants of the history reads and of the import |
| `ServingProofs` | invariants of the server's other components; the properties of `Serving` |
| `ToolsProofs` | invariants of rebase, working copy, backup and adoption; the properties of `Tools` |

`Serving`, `Tools` and `MCProgress` put components side by side: a
behaviour picks one (`part`) and the others have no state. The
components share no variables there, and every constant is a parameter; `MCServing` and
`MCTools` give the constants of a run their values, the proofs are about `Serving` and
`Tools` themselves. What the components owe each other is stated in both:
`WriteSlots` shows the exclusion that `GcSweep`, `Redaction` and `Snapshots`
take for granted in a coordinated batch, `Rebase` has the inside of the
transaction that `LandJoin` takes as a choice, and `History` takes the derive
rows that `DeriveQueue` makes.

### LandJoin

`registry` is `LandJoins::map`, `chan` the watch channel of an entry, `slot` the
repo's write slot, `task` the blocking closure of a request, `pc` its handler.
`lands`, `main` and `audit` are database rows; a transaction is one step, the
commit (`Commit`) and the end of the closure (`Finish`) are two, so that a crash
or a panic can come between them. `CancelLeader` and `CancelJoiner` are a
dropped handler future; the closure runs on. What the rebase computes is
abstracted to whether main moved. Refusals of all kinds are one outcome,
`failed`; 200 and the settled-409 keep their content, since clients act on it.

### GcSweep

Content addresses make what a changeset names a constant (`Parent`, `Changes`,
`Tree`). A tree is the set of blobs it lists: sub-trees and paths are left out,
and the derivation is the assumption that a root tree holds only blobs of the
parent's tree and of the changes. Stamps are `none`, `recent` or `past`,
relative to the cut of the running pass; `Mark` may age them. `batch # None`
says that a coordinated batch holds all slots, which is what `WriteSlots` shows
to be exclusive; clients that need a slot are not enabled then. A batch is two
steps, what it deletes first and what it deletes last. `Abort` and `Crash` cut a
pass anywhere. `RecordHalf` is the record step cut between its two statements,
which are not one transaction. Refs only move forward and land rows stay, so
`refs` only grows. The mark reads several statements without a lock; since
rows are immutable and only a pass deletes them, reading them at once finds the
same set.

### GcPaging

The ledger is the sequence of rows in page order, `Page` the LIMIT query,
`CollectPage` and `FinishBatch` the two halves of a batch, `full` the loop
condition. The page is cut to the oldest `BatchRows` rows before it is known which of
them may be collected, and it is smaller than the history in every run. Passes recur for
ever.

### WriteSlots

`owner` is who holds each slot, `flag` the `sweep_holding` bool. In the single
layout the catalog's slot stands for all. A panic in a batch skips the store
that lowers the flag.

### Rebase

Ids are content hashes, so a changeset's content is its id: two changesets are
the same exactly when parents, stamp, changes and conflict representations are.
That is what makes adoption by fast-forward (`Rebased = Node`) and the primary
key (`Rebased \notin DOMAIN txn.rows`) come out as in the code. A tree maps
paths to files; `Under` says which path would be below which, for the rules on
files and directories. The line diff is the constant `CleanMerges`; merged and
marker blobs are records of their inputs, so that `RedactedStaysOut` can follow
content from blob to blob. `txn` is the transaction with its own view of the
rows; one turn of the walk and one node of the chain are one step each. No other
writer of the repo runs meanwhile, since all take its slot. Every refusal is
`Rollback`, which is always possible, as a store failure or a crash is; the
actions that go on have the code's conditions as guards. The contained head is
settled by `SettleContained`. Keys are left to `LandJoin`.

`InputAssumption` says what an import leaves and a client sends: main has a row, parents
have rows and lower generations, change lists are not empty (`import.rs:1436` refuses
those) and a deletion in one has no content (`changeset.rs:234` of `naatre-core`), no
conflicts are recorded, no tree has a file where it has a directory, every file's blob is
named by some changeset.
`RedactedStaysOut` asks of each changeset that comes into being that neither it, nor what
it names, nor what its *new* blobs embed is redacted. New blobs only: TLC refutes the
property for all blobs, by a chain node that only toggles the exec bit and so names once
more a merged blob whose source was redacted after the merge was made. The gate probes
the sources of the bytes that the merge writes; a redaction erases whole objects
(`docs/design.md:78`), and the merged blob is an object of its own.

### Redaction

`tomb` is the redactions table, per repo and id, `marked` the order of the marks;
`member` the membership rows, `objects` the catalog rows and `bytes` the store. A
changeset has the blobs its add and mod entries name (`Changes`) and those of its tree
(`Refs`), which it may inherit from its parent's. A mark probes its target (`MarkProbe`)
and takes the slot later (`RedactionMark`); an upload probes, writes its bytes outside
every slot and records. A create is gated on its own id and on what its entries name,
nothing else (`GateIds`): content that was tombstoned after the parent was made passes
from the parent's tree to the child's, whose reads then answer it as redacted. The purge
is its commits in order: changeset rows repo by repo, bytes nothing references, then
membership rows and stamps, then catalog rows; `Crash` comes between any two. Its second
phase takes the `BatchBlobs` oldest marks first and asks what references them afterwards
(`BlobPage`). `GraceEnds` is the clock.

### Snapshots

`dir` is the ephemeral directory, `rows` the snapshot rows; `post` a POST between
its checks and its commit, `pass` a collection with what it has read so far:
the clock, the expired rows, the old directories, which of them have a row. Each
read and each delete is a step.

### DeriveQueue

`row` is the derive row, `marker` the backfill marker, `inflight` a create
between its insert and its enqueue, which are two commits: the enqueue may fail alone
(`EnqueueFails`). `backfill` is the boot task: batches by generation from `cursor` on, a
probe outside the slot for changesets that still have no row, then the marker; it ends
early when the probe finds one or a step stays busy for its 1,000 retries
(`BackfillGivesUp`), and starts again at the next boot. `queue` is
the pass with the lease it holds. Whether a deriver succeeds, fails, runs over
its budget or its deadline is a choice; `Busy` is the slot taken by another
writer. `exact`, `strikes` and `unqueued`, the creates whose enqueue failed since the
boot, are history variables.

### History

A changeset is its number. A behaviour has a focus, the surface it looks at
(`graph`, `blame`, `paths`, `log`, `ref`), so that each gets bounds of its own.
Skips, blame states and the path index are computed as the derivers do, from
what their parents left, and merge base, blame and the pages as the routes do.
Where a walk breaks ties by queue order the operator gives the set of nodes that
may win.

### Tickets, CacheTier

Every await is a step of a request; the tier's map is shared by the requests and
evicts. The epoch is the number of marks. `swapped` is a history variable: the snapshot
a request trusted was not of the epoch it had probed. The verbs write verify list, secret
and audit row in that order and may die between them; the tier has its own clock
and its own copy of the list.

### Access, AuthFailures

Authenticate, gate and act are three steps of a request, each a transaction;
other requests commit between. The failure limiter keeps a window per
credential and one in all; the clock may step back.

### WorkingCopy

A path is a directory and a name, a tree a function from paths to blobs; a
directory's id is its content, so two directories can have one id. An index row
is the blob it records and whether its stat is still the file's. A verb holds
the lock and is a sequence of steps: it reads and decides, writes or deletes one
file at a time, then saves state, then index; it may die between any two
(`Die`), and the user may write at any time (`Edit`). `mine`, `blind`, `torn`
and `rebuilt` are history variables that say whose content a path has. `torn` has
the paths whose row may not be about the head: a verb died on them, or saved a row
outside the cone. `blind` has those of which no status can be true: written while a
verb ran, written by a verb over what a dead one had left, left out of a walk because
of a twin directory (`LeftOut`), or recorded outside the cone (`Outside`).

### Import

A commit is its number. A run maps what it has seen, orders the rest, validates,
checks divergence, imports commit by commit and moves main; it may die between
any two. The source grows and is rewritten between runs; clients land; content
is redacted. Texts are short sequences with an offending character and a
backslash, since the escape must be undone exactly.

### Backup

The configuration is the backends and the layout. A database file is known by
where it comes from, a dump by the objects it names. Backup and restore are
their steps in order, with the flock, the guard, the waiver of missing objects,
staging and hashing; servers write and purge, commands die, artifacts rot, and
an operator initialises the target. A target has the databases of both layouts with their
write-ahead logs. `Opens` is what a server reads of it: a log beside the
database of its layout is the old store's and replays over it. The other
layout's database is not read beside a `catalog.db`; a `catalog.db` that was there
makes the servers refuse a restored single data dir, which is no wrong content.

### Adopt

`naatre.db`, `catalog.db` and `repos/` are there or not, with rows known by the
kind of table they are in. The server's start is its guard, the flock and the
open, as the code has them: the guard runs first, and so do the command's own. The
command is its steps in order; any may fail, with a cleanup that may not get
everything, or be the last before it dies. The operator waits until nothing runs,
then follows the cutover steps or the remedy a refusal names. `overtaken` marks
a server whose guard passed before a whole adoption and whose lock came after:
it serves `naatre.db` beside the finished catalog, and what it writes is lost at
the cutover. The properties exclude it; the window is between two system calls.

## Runs

| Run | Checks | Result |
|---|---|---|
| `land_join` | three requests, two keys, two heads, one crash, both layouts | types, true answers, one move of main per settlement, audit rows, registry, refinement of SettleOnce |
| `gc_sweep` | two blobs, a chain of two changesets, one upload and one create in flight at a time, any number of passes and crashes | nothing dangles, uploads kept, lost bytes condemned, reachable changesets kept |
| `gc_parents` | the same, one property | **violated**: see Findings |
| `write_slots` | two repos, two writers, a catalog writer, two batch tasks, one panic, both layouts | a batch alone, one writer per repo, the flag comes down |
| `tools` | rebase: imported repos of two commits or with a merged branch, three paths (a file, a directory and a file in it), four contents, one tombstone, two lands; working copy: two paths, two contents (one a conflict marker), one edit, one death, up to four verbs; import: three commits, two runs, one tombstone; backup: one repo, two objects, five configurations, four targets, one death, one rotten artifact; adoption: one repo, two rows, two commands, one death | main advances in a line and adopts a chain that needs no rewriting (`MainAdvances`), both sides of a merge are kept, conflicts are recorded, landings stand, redacted content stays out; local work is kept and status is truthful; imports keep the history and move main forward (`ImportSound`); restores are exact but for finding 6; an adoption serves nothing partial and loses nothing |
| `serving` | two requests at the tier and at the access tables; two keys, four ticks and skews of two; two credentials; two repos that share a blob, three changesets (one inherits the blob), two marks, a purge page of one, one crash; two snapshots; two changesets in the queue, two faults; histories of three to five changesets | the properties of each component (see their modules) |
| `progress` | paging: four changesets in two branches, pages of two; joins: two requests; queue: two changesets, one fault; purge: one repo, two blobs, a changeset that names one, two marks, a page of one, one crash | joiners answered, garbage that no page of parents hides collected, stranded rows reaped, the queue drains, an erasure completes unless the blob is in use or older marks whose blobs are fill the page |
| `rebase_generations` | rebase alone, one property | **violated**: see Findings |
| `snapshot_blobs` | snapshots alone, one property | **violated**: see Findings |
| `tier_race` | the cache tier alone, one property | **violated**: see Findings |
| `gc_page` | the paging of `progress`, one property | **violated**: see Findings |
| `restore_wal` | backup alone, one property | **violated**: see Findings |

Bounds. Three land requests are a leader, its joiner and a request that comes
after the leader is gone; the second key shares main and the slot with the
first. Requests, keys and heads are symmetric. The liveness of joins needs only
a leader and a joiner. A chain of two changesets has a parent
that may be collected and a child that keeps it; the second blob is inherited
through the tree. One upload and one create in flight suffice because neither
reads what another of its kind writes before its slot step. Two batch tasks are
the two that exist. Crash and panic counts (`MaxCrashes`, `MaxPanics`) are
bounded because each adds a generation of requests or breaks liveness for its
step. `Rebase`
has two commits on main, so that two creates make a chain that diverges from it,
or an imported branch whose second node is a merge, so that one more create
makes a chain of three; the second land meets what the first made. Of four
contents two merge cleanly and one conflicts with both. `History` has five
changesets where skips matter: the least history in which a skip spans a merge
and another node. `Tickets` has skews on both sides of `IatSkew` and lifetimes
past the cap. `Redaction` has two marks, so that a tombstone can be armed
again after its purge, or one be older than another; with a page of one (`BatchBlobs`)
the older keeps the younger out. `GcPaging` has pages of two (`BatchRows`) over two
branches of two, so that a page can be all parents, all leaves or one of each. `WorkingCopy` has four plans, because its verbs
interfere in four ways: those that follow main (clone, sync, commit, land; three
changesets), the land of a commit that must be rebased (four changesets are a
base, another client's, the user's and its rebase), those that change the cone,
and those that rebuild the index. Deadlock is checked in
`land_join`, `gc_sweep`, `gc_parents` and `write_slots`; the others stop when
their bounds (lands, runs, marks, the clock) are used up.

Fairness. `LandJoin`: closures and ready futures are run by the runtime
(weak fairness of `Write`, `Lead`, `Join`); no timer and no client is assumed.
`GcPaging`: `serve` starts a pass at every tick, a pass that is not cut goes on,
and the clock passes every stamp (strong fairness of `StartLate`, since passes
that start before the grace is over may come between). `WriteSlots`: the
background tasks keep ticking and their closures end. `Redaction`: passes recur,
the clock passes every grace, and a pass that is not cut ends (weak fairness of
the purge's steps, strong of the tree sweep, which other passes interrupt).
`DeriveQueue`: the server comes up again, tasks are scheduled (weak fairness of the
backfill's steps, which wait for the slot and give up only by a fault), and a pass that
finds the slot free again and again gets it at last (strong fairness of `Lease`,
`Derive` and the record steps): the slot is tried, and is held for one
transaction.

## Findings

1. **A create can outlive its parent** (`gc_parents`). `create_inner` reads the
   parent before it takes the slot, with the comment "Changesets are
   append-only, so the metas fetched here stay valid through the write below."
   GC deletes changesets; between the read and the insert a pass may collect an
   unreferenced parent, and fsck then reports `changeset_parent_missing`.
2. **Generations can stop growing** (`rebase_generations`). An adopted node does
   not advance `tip_gen`; a node of the same chain that is rewritten after it
   gets a generation that is not above its parent's. Merge-base, which takes
   the common ancestor of the highest generation, and the order of the path
   history rely on it; so does the fast-forward gate of refs. (`History` takes
   generations that grow, as creates and imports make them.)
3. **The collector can take a live snapshot's blobs** (`snapshot_blobs`). It asks
   which directories have no row, and deletes them later; a POST in between
   makes the row.
4. **The tier can serve what was tombstoned before the request** (`tier_race`).
   `scope_check` compares the epoch of the snapshot it read with the origin's, and then
   reads the map again; a slow walk of another request may have put an older snapshot
   there (`cache_tier.rs:325`), against "a tombstoned id never serves" at line 288 and the
   README of the repository. `HonestUnlessSwapped` is what holds: it takes exactly this.
5. **A page of parents stops the collector** (`gc_page`). When the oldest
   `GC_BATCH_ROWS` ledger rows all have children behind the page, the phase ends, and
   the next pass reads the same page, against the comment at `gc.rs:719`.
   `GarbageCollectedUnlessStalled` is what holds.
6. **A restored split catalog can open on the old store** (`restore_wal`). A forced
   restore unlinks the sidecars of `naatre.db`, and renames `catalog.db` under the
   `catalog.db-wal` of the store that was there, against the comment at `backup.rs:1279`
   and the README of the repository. `RestoredExactly` is what holds: in
   every other case the snapshot is what opens.

### Observations

Met while modelling and reproduced with TLC or read off the code; no run is kept
for them. The first six are stated in the modules and refuted by TLC when the property
is added to the run named.

- *Clone* (`WholeTree`, `tools` with `CheckoutPaths <- Twins`). The walk remembers tree
  ids, and two directories of equal content have one (`wc/fetch.rs:146`): the files of the
  second are not written, status says clean, and a sync with a change there fails for ever.
- *Import* (`ImportResumes`, `tools`). A run that dies before it moves main is not
  resumed: the next one finds every commit mapped, has nothing to do, and returns before
  `graft_main` (`import.rs:395`).
- *Adoption* (`GrantsServed`, `tools`). `repo_access` is in none of the lists of tables the
  copy goes by (`adopt.rs:65`), and the parity check covers only those: after the cutover a
  private repo has no grant, and is public.
- *Derive rows* (`MarkerComplete`, `serving`). The insert of a create has committed when
  the enqueue runs (`routes/changesets.rs:516`, against the comment above it); if that
  fails, the changeset has no derive row, and the backfill marker stands until the next boot.
- *Backfill* (`BackfillSurvives`, `serving`). Its probe reads outside the slot and may see
  a changeset between its two commits (`derive.rs:682`); the backfill then ends with an
  error, and derived reads answer 503 until the next boot.
- *Purge* (`ErasurePromised`, `progress`). The page of tombstones is cut before references
  are looked at (`gc.rs:1204`): as long as the oldest marks are of blobs that stay in use,
  younger ones are not purged.

- *Slots.* A second batch that finds the catalog busy lowers the flag of the
  first (`router.rs`). It is harmless: `BatchAlone` does not depend on the flag.
- *Land.* An `INSERT` of a rebased changeset that a client already made by hand
  fails on the primary key, and so does every retry.
- *Upload, create.* `record_object`'s comment says that presence check, row and
  mark commit in one transaction; they are separate commits (`RecordHalf`; the
  invariants hold all the same).
- *Cache tier.* The map may hold one entry more than its maximum; local copies are not
  erased.
- *Tickets.* A rotate that dies, followed by a drop, leaves the origin signing
  with a key no list has until the next rotate; the repair verb's
  missing-secret branch cannot be reached.
- *Access.* Grants outlive the principal they name. The limiter of failed
  authentications reads the clock before it takes its mutex (`state.rs:543`), so two
  threads can enter rows out of order by that little; the model takes both at once.
- *Redaction and land.* A rebased changeset may name again a merged blob whose source was
  redacted since the merge (see Rebase).
- *Redaction.* Root-tree rows outlive the purge of their changeset by a pass, so the
  blobs that only it named stay referenced and go in a later pass. A create may inherit
  tombstoned content from its parent's tree; reads of it answer redacted.
- *Snapshots.* With two passes, a re-POST after the first one's purge can lose
  its row to the second, which purges by id. In the split layout two repos with
  the same snapshot id share a directory.
- *Derive queue.* A changeset created after a restart can be derived before the
  backfill has rowed its imported parent, and is then recorded exact and
  untainted (`db.rs:1504`, against `derive.rs:614`); `TaintSpreads` is what
  holds. `derive_fail_attempt` un-poisons a node that was redacted while a pass
  held it.
- *Restore.* The target guard runs before the flock and `init` takes none: an init in
  between is overwritten without `--force`. A forced restore of a single store leaves a
  `catalog.db` that was there, and the servers then refuse the data dir.
- *Adoption.* Its guards, and the server's, run before the flock is taken (see
  Adopt). Two commands at once can end with the second removing the catalog that
  the first completed. The head comment of `adopt.rs` says that a crashed
  migration leaves a servable store; with a catalog there the single layout is
  refused until it is deleted, as the README of the repository says.
- *Create.* An add at the path of a directory is accepted (`tree_derive.rs:331`):
  the files below leave the tree without a change that names them.
- *Import.* The divergence check is skipped when the batch is empty. Two commits
  equal in author, tree, message and parents map to one id, and the second
  insert fails.
- *Working copy.* An edit between commit's upload and its stat is recorded as
  clean (`blind`). Rows compare the fraction of the timestamps only, so on a file
  system with coarse ones an edit of equal size is missed. `sparse remove` drops
  edited tracked files, and one that dies can make the next commit post
  deletions. `restore` and `doctor --rebuild` make local work look clean
  (`rebuilt`). A path resolved or committed outside the cone no longer follows the
  head. A verb that dies between state and index leaves rows of the old head; when a
  second verb dies on the same files, or a reverted edit gives a file the bytes of its
  old row, status calls clean what is not as the head has it. The proof of
  `StatusIsTruthful` showed which paths these are; `blind` and `torn` name them.

## Proofs

All are for every value of the constants, from the named assumptions of the
modules (distinct model values, natural bounds, the derivation rule of trees).

`LandJoinProofs`: the inductive invariant `Inv` adds to the checked invariants
that a closure in its transaction holds the slot (`ClosuresHold`), that a
committed closure's key is settled with its head (`CommittedRow`), that what
travels in `out` and `chan` is true of the leader's question
(`OutcomesTruthful`), and that joiner and leader share a key
(`JoinersSameKey`). Without the slot, two transactions could settle one key;
without the channel part, a joiner's answer could not be shown true when it is
given. One lemma per action; `Commit` is the only step that changes rows, and
the cardinality of the moved keys grows there by one. `StepRefines` maps every
step to a step of SettleOnce: `Begin` to `Ask`, `Commit` to `Settle`, each
answer to `Reply`, `Crash` to `LoseAll`, the rest to stuttering.

`GcSweepProofs`: `NeverDangling` is inductive together with `UploadsKept`,
`LostBytesCondemned` and what an open batch is known to hold (its members are
unreferenced while the slots are held). `ReachableIsKept` needs
`CollectibleUnreachable`: a changeset with no ref and no child is outside the
least closed set, since taking it away leaves the set closed.

`WriteSlotsProofs`: who is inside holds the slot that covers what it writes; a
batch holds the catalog from its listing on, so the listing stays the registry,
and holds every slot it listed when it runs.

### Components and their compositions

Each component's invariant is proved for the component, and lifted to `Serving` or
`Tools`: `PartSteps` says that a step is a step of the component at work and leaves the
others alone, so `part = "..." => Inv` is inductive. `HistoryProofs` and `ImportProofs`
are about their components and are instantiated there (`HistoryIsIt`, `ImportIsIt`: the
instance's actions and properties are the composition's). The hypotheses are the
components' own assumptions (`RedactionAssumption`, `TicketsAssumption`, `HistoryAssumption`,
`ImportAssumption`, ...): natural bounds, the signatures of the constant functions, and
that `None` is no value of the types it is added to. The MC modules assume them too, so
TLC evaluates them in each run.

| Theorem (property) | Invariant, and why the property alone is not inductive |
|---|---|
| `PurgeIsSound` (`PurgeSound`) | between the deletion of bytes and of catalog rows nothing names the batch (`BatchUnreferenced`): every slot is held; a create looks only at what its entries name, and what it inherits is there because a standing tree is whole (`TreesWhole`) |
| `TombstonesHold` (`TombstonedGainsNothing`) | the same; the gate covers the row and what its entries name, and a tree holds more only from a parent's tree, which stands in the same repo |
| `QueueIsSound` (`QueueSound`) | what a row, a lease and an output in flight say of each other: an attempt is left while a row waits or is leased (`RowGood`, `LeaseBudget`), an output made over a hole is tainted before it is recorded (`OutputTaint`); from the probe that finds every row on, what lacks one is in flight or its enqueue failed (`Covered`), so the marker may be set later |
| `ErasureHolds`, `GatesHold` (`ErasureReachesTheLog`, `RequestsGated`) | a dead token has no row that authenticates and is never minted again (`DeadRows`); which audit rows name a principal as their subject (`AuditShape`) |
| `TicketsAreHonest` (`TicketsHonest`) | the list is written before the secret and never loses its current key (`StoreInv`); a ticket was minted while its reader was let in (`TimeInv`); its key stays listed until it is dropped (`KeyInv`) |
| `TierIsHonest` (`TierHonest`) | a snapshot says the epoch of no more marks than it was read under (`Truthful`), and counting tells those sets apart; what a request knows at each await (`RequestInv`). A request whose probe found its epoch current may trust every snapshot and every finished walk that says that epoch, whosever it is (`TrustMap`, `TrustWalk`): an overlap with other requests does no harm unless the epoch differs |
| `SnapshotsServe` (`LiveTreesServe`) | the closure of every live tree has rows (`TreesHeld`); what a pass selected was selected at its clock, before it deleted |
| `FloodIsBounded` (`FloodBounded`) | while the clock has not stepped back, every row less than a window old is in both windows (`WindowsHold`) |
| `RefsAdvance` (`RefAdvances`) | none; the compare-and-swap reads the row it replaces |
| `HistoryIsExact` (`HistoryExact`), with `SkipsAreExact`, `BlameIsExact` and `PagesAreWhole` | `HistoryInv`, below |
| `ImportIsSound` (`ImportSound`) | `ImportInv`, below |
| `TypesAreKept` (`Serving`'s `TypeOK`), `ToolsTypesAreKept` (`ToolsTypeOK`) | every component's invariant. That no tree of a changeset has a file where it has a directory (`TreesInv`) rests on what `apply` refuses for a create and on the check of the merged tree for a land |
| `MovedStoresAreWhole` (`StoresWhole`) | backup: a manifest is written once its directory is whole, and what is gone from a listing was purged (`SessionInv`, `ManifestInv`, `RestoreInv`); between the swap of the database and the end of a restore the database is the snapshot's and `naatre.db` has no log (`DbRestored`); adoption: the command with the flock has copied the repos it is done with, and a marked catalog has every acknowledged row (`CommandInv`, `AdoptedInv`) |
| `VerbsKeepWork` (`WorkKept`) | what the user wrote shows in the index as a row that is not fresh (`MineInv`); a verb past its gate writes nothing of it (`GateInv`), and the rows it will save still show it (`RowsInv`) |
| `StatusIsTruthful` (`StatusTruthful`) | a row on disk that is not torn is about the head, and a file that is as its row says is as the head has it (`HeadTrue`); a mark has a marker or a dirty file (`MarksTrue`); the rows a verb is about to save are true of the head it is about to save (`RowsTrue`, `PendingTrue`) |
| `LandingsStand` (`LandsRecorded`), `LandsAdvanceMain` (`MainAdvances`) | `RebaseInv`, below |
| `LandsKeepBothSides` (`LandKeepsBothSides`) | while the chain is merged, what main left as the fork had it is on the tip as the chain has it so far, and what the whole chain leaves alone is as on main (`SidesInv`) |
| `RedactedContentStaysOut` (`RedactedStaysOut`) | every file's blob is named by a changeset, so a merge either takes a blob that was there or makes one of the sources that the gate probed; nothing of an open land is tombstoned, since redactions wait for its slot (`ClearInv`) |

`RebaseInv`: ids have the shape of content, parents have rows, and the graph is finite and
has a rank that grows from parent to child. Generations cannot be the rank, since
finding 2 shows that they may stop growing; a rank exists because a changeset is added
on parents that are there. With it `Ancestors`, a recursive function, is shown to be the
least set closed under parents (`ReachedOf`), and to stay as it is when rows are added
(`ReachedStays`). Of an open land: the chain is linked by first parents from the
cursor up to the head and main has none of it (`ChainInv`, `WalkInv`); the tip has main below it,
adds changesets of one parent only, at least as many as the land counts
(`TipInv`); an exact chain on main itself is adopted node by node (`ForwardInv`). Of
settled lands: the landed changeset is on main, above the base (`LandsInv`). TLC checked
`RebaseInv` and `SidesInv` on the instance of `MCRebase` before they were proved, and
`StatusInv` on the plans of `WorkingCopy` with all verbs, two edits and two deaths.

`HistoryInv`: parents are there and generations grow (`GraphOk`, `GenOk`). A skip entry
that is marked pure misses nothing at or below its target's generation: what is below the
first parent is below the target or of a higher generation (`Straight`, `SkipInv`). It
stays so when changesets are added, since what is below an old one stays as it is. A derived blame state
is the one that the contents along the first parents give (`BlameInv`), the path index
names every derived changeset that touched the path and none that did not (`TouchInv`). A client
between two pages was served, in order, all that the answer has up to its cursor but what
is redacted or was named as quarantined (`ReaderInv`); the path history's order is total,
so a cursor cuts it in two.

`ImportInv`: a commit names commits before it (`SourceInv`); a changeset is its commit's,
with its parents and generation, its files are in the CAS and nothing unsupported is in its
tree, though only its changes were validated: the first parent was supported too, so the
tree is by induction (`RowsInv`, `TreeIs`). A run is closed: what it still has to import
has its parents mapped or among what it has to import, and main is below its head and not
of its batch (`RunInv`, `Takes`). So when nothing was skipped the head is in the batch, has
everything in it below it and thereby the highest generation, and is what the graft
takes (`BestIs`, `GraftStep`). `RoundTrip` shows that
`unescape_text_lossless` undoes `escape_text_lossless` on every text that is escaped, and
`CleanTexts` that nothing offending is left. TLC checked `ImportInv` on a small instance
before it was proved.

Induction and recursion. The library's induction theorems, which have an operator as a
parameter, cannot be used, nor can what they say of recursive definitions.
`RecursionLemmas` has it with sets and functions for operators: the least-number principle
(`LeastNumber`), that a set of numbers that has each whose lower ones it has, has them all
(`Inductively`); that a definition by recursion whose value at a point depends on values of lower
rank has a solution (`Recursion`), with two cases that recur in the models: a value taken
from one earlier point (`Climbing`), as along first parents, and the set of what is below
(`Closure`), as in every `Ancestors`. Each recursive function of `History` and `Import` is
shown by one of them to be what its text says.

Assumptions beyond the modules': `LandsKeepBothSides` and `RedactedContentStaysOut` have
`NoneIsNoChange` as hypothesis: `None` is no change record. It is not among the `ASSUME`s
since it ranges over all files, merged ones included, and TLC cannot enumerate them;
it is the convention by which `None` stands for Rust's `None` in an `Option`.

Only model-checked: liveness (`JoinersAnswered`, `CollectorProgresses`,
`ErasureCompletes`, `QueueDrains`, `FlagLowered`), which is beyond the prover. Every
invariant and every action property that a passing run checks is a theorem. The proofs
are about the models: that those are the code is what the map and the mutants are for.

## Not modelled

- Schema migrations; a transaction is taken as atomic and durable everywhere.
- Mount, virtual file system, FUSE: a read-only projection of one tree over a
  cache of immutable objects.
- The MCP server, the HTTP client, URLs and configuration: I/O and formatting.
- The line diff (which triples merge cleanly is a constant of `Rebase`),
  encodings and hashing (ids are model values or the content itself).
- Request validation, size caps and path rules, except where a later step
  depends on them; the read pools, the audit row of a GC pass.
- In the working copy: symbolic links, the exec bit, Unicode folding of names,
  and the batch transport of `fetch.rs` with its cache route.
- The blob store's temp file, fsync and rename: a put is atomic.

## Plan

1. `BlobPut`: temp file, fsync, rename, crash; refinement of the set of bytes.
2. `MergeLines`: the hunks of the line merge against a reference merge.
