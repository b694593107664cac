---------------------------- MODULE WorkingCopy ----------------------------
(* A working copy and the verbs that move it: clone, sync, commit, land,    *)
(* resolve, sparse add and remove, snapshot, restore and doctor --rebuild.  *)
(* The verbs hold .naatre/wc.lock, so one runs at a time; the user's editor *)
(* holds nothing and writes between any two of their steps, the server's    *)
(* main moves, a verb may die anywhere.  A path is a pair <<directory,      *)
(* name>>; its content is a blob; an index row is the blob it records and   *)
(* whether the stat it records is still the file's (fresh).                 *)
EXTENDS Integers, Sequences, FiniteSets

CONSTANTS None,         \* no file, no row, no snapshot
          Paths,        \* the <<directory, name>> pairs, numbered in path order
          Contents,     \* the blobs a file may hold
          Markers,      \* the blobs that are rendered conflict markers
          Start,        \* what a path may hold in the first changeset
          Plans         \* what a run may do: [verbs, cones, hist, edits, crashes, marks, runs]:
                        \* the verbs, the sparse lists a clone may be given, and the bounds on
                        \* changesets, writes of the user, failures, redactions and verb runs

VARIABLES hist,         \* the server's changesets, in creation order: [tree, parent]
          main,         \* the server's main
          redacted,     \* the tombstoned blobs
          snap,         \* the tree of the ephemeral snapshot, None when there is none
          state,        \* .naatre/state.json, None before the clone
          index,        \* .naatre/index.nai
          disk,         \* the checkout
          verb,         \* the verb that holds the lock
          plan,         \* the plan of this run
          edits, crashes, runs,
          mine,         \* history: paths with work the user did while no verb ran
          blind,        \* history: paths that were written while a verb ran, that were
                        \* written after a verb had left them torn, that a walk left out,
                        \* or that were committed outside the cone
          torn,         \* history: paths whose row may not be about the head: a verb did
                        \* not finish on them, and the last two kinds of blind ones
          rebuilt       \* history: the index was set from the disk or from a snapshot

local == <<state, index, disk, verb>>
server == <<hist, main, redacted, snap>>
ghosts == <<mine, blind, torn, rebuilt>>
counts == <<plan, edits, crashes, runs>>
quiet == <<edits, crashes, plan>>
vars == <<server, local, ghosts, counts>>

Trees == [Paths -> Contents \cup {None}]
Dirs == {p[1] : p \in Paths}
Idle == [op |-> "idle", stage |-> "idle"]
NoRow == [p \in Paths |-> None]
Row(blob) == [blob |-> blob, fresh |-> TRUE]
Rows == [blob: Contents, fresh: BOOLEAN]
TreeOf(id) == hist[id].tree
Before(p, q) == p[1] < q[1] \/ (p[1] = q[1] /\ p[2] < q[2])

under_sparse(prefixes, p) == prefixes = {} \/ p[1] \in prefixes

(* A directory's tree id covers the names and blobs below it, not its own   *)
(* name.                                                                    *)
Subtree(tree, d) ==
    {<<p[2], tree[p]>> : p \in {q \in Paths : q[1] = d /\ tree[q] # None}}

CopyAssumption ==
    /\ Start \subseteq Contents \cup {None}
    /\ Markers \subseteq Contents
    /\ None \notin Contents
    /\ None \notin Rows
    /\ None \notin [head: Nat, sparse: SUBSET Dirs, conflicted: SUBSET Paths]

(* The walk descends into the directories of the cone and lists each tree   *)
(* id once.                                                                 *)
Descended(tree, prefixes) ==
    {d \in Dirs : Subtree(tree, d) # {} /\ (prefixes = {} \/ d \in prefixes)}

WalkedOnce(tree, prefixes) ==
    LET on == Descended(tree, prefixes)
    IN  {d \in on : \A e \in on : e < d => Subtree(tree, e) # Subtree(tree, d)}

walk_tree(tree, prefixes) ==
    {p \in Paths : /\ p[1] \in WalkedOnce(tree, prefixes)
                   /\ tree[p] # None
                   /\ tree[p] \notin redacted}

(* What the walk should have listed: a twin of a directory is left out.     *)
LeftOut(tree, prefixes) ==
    {p \in Paths : /\ under_sparse(prefixes, p)
                   /\ tree[p] # None
                   /\ tree[p] \notin redacted} \ walk_tree(tree, prefixes)

-----------------------------------------------------------------------------
(* The classification of the disk against an index.                         *)
modified == {p \in Paths : /\ index[p] # None
                           /\ disk[p] # None
                           /\ ~index[p].fresh
                           /\ disk[p] # index[p].blob}
deleted == {p \in Paths : index[p] # None /\ disk[p] = None}
untracked == {p \in Paths : index[p] = None /\ disk[p] # None}
Dirty == modified \cup deleted \cup untracked

Stale(rows, p) ==
    IF rows[p] = None THEN rows ELSE [rows EXCEPT ![p].fresh = FALSE]

Begins(name) ==
    /\ state # None /\ verb = Idle
    /\ name \in plan.verbs /\ runs < plan.runs
    /\ runs' = runs + 1

(* A verb in flight: what it writes (adds, from tree), deletes and          *)
(* discards, and the state and index it will save.                          *)
Pipeline(op, force, new, tree, adds, dels, collide, rows) ==
    [op |-> op, stage |-> "fetch", force |-> force, state |-> new, tree |-> tree,
     adds |-> adds, dels |-> dels, collide |-> collide, rows |-> rows]

-----------------------------------------------------------------------------
Init ==
    /\ \E t \in [Paths -> Start] : hist = <<[tree |-> t, parent |-> 0]>>
    /\ main = 1 /\ redacted = {} /\ snap = None
    /\ state = None /\ index = NoRow /\ disk = NoRow /\ verb = Idle
    /\ plan \in Plans /\ edits = 0 /\ crashes = 0 /\ runs = 0
    /\ mine = {} /\ blind = {} /\ torn = {} /\ rebuilt = FALSE

(* Another client lands a changeset on main.                                *)
UpstreamLands(p, c) ==
    /\ Len(hist) < plan.hist
    /\ TreeOf(main)[p] # c
    /\ c \notin redacted
    /\ hist' = Append(hist, [tree |-> [TreeOf(main) EXCEPT ![p] = c], parent |-> main])
    /\ main' = Len(hist')
    /\ UNCHANGED <<redacted, snap, local, ghosts, counts>>

Redact(c) ==
    /\ Cardinality(redacted) < plan.marks
    /\ redacted' = redacted \cup {c}
    /\ UNCHANGED <<hist, main, snap, local, ghosts, counts>>

(* The user writes or deletes a file, at any time.  Rows that recorded its  *)
(* stat no longer match it, in the saved index and in a running verb's.     *)
Edit(p, c) ==
    /\ state # None
    /\ edits < plan.edits
    /\ disk[p] # c
    /\ edits' = edits + 1
    /\ disk' = [disk EXCEPT ![p] = c]
    /\ index' = Stale(index, p)
    /\ verb' = IF verb = Idle THEN Idle ELSE [verb EXCEPT !.rows = Stale(@, p)]
    /\ IF verb = Idle
       THEN /\ blind' = IF p \in torn THEN blind \cup {p} ELSE blind \ {p}
            /\ mine' = IF c = (IF index[p] = None THEN None ELSE index[p].blob)
                       THEN mine \ {p} ELSE mine \cup {p}
       ELSE blind' = blind \cup {p} /\ mine' = mine \ {p}
    /\ UNCHANGED <<server, state, torn, rebuilt, plan, crashes, runs>>

(* Clone stages everything beside the destination and renames it into       *)
(* place: it happens whole or not at all.  Every prefix must exist.         *)
Clone(prefixes) ==
    LET tree == TreeOf(main)
        files == walk_tree(tree, prefixes)
    IN  /\ state = None
        /\ prefixes \subseteq Descended(tree, prefixes)
        /\ disk' = [p \in Paths |-> IF p \in files THEN tree[p] ELSE None]
        /\ index' = [p \in Paths |-> IF p \in files THEN Row(tree[p]) ELSE None]
        /\ state' = [head |-> main, sparse |-> prefixes,
                     conflicted |-> {p \in files : tree[p] \in Markers}]
        /\ torn' = torn \cup LeftOut(tree, prefixes)
        /\ blind' = blind \cup LeftOut(tree, prefixes)
        /\ UNCHANGED <<server, verb, mine, rebuilt, counts>>

-----------------------------------------------------------------------------
(* apply_tree_diff: the incoming paths of the cone, the dirty gate and the  *)
(* target walk, up to the fetch.                                            *)
Incoming(from, to) ==
    {p \in Paths : TreeOf(from)[p] # TreeOf(to)[p] /\ under_sparse(state.sparse, p)}

(* Mutant: an untracked file does not collide.                              *)
CollidingTracked(paths) == untracked \cap paths \cap torn

Colliding(paths) == untracked \cap paths

Blocks(paths) == (modified \cup deleted) \cap paths # {} \/ Colliding(paths) # {}

Wanted(from, to) ==
    {p \in Incoming(from, to) : TreeOf(to)[p] # None /\ TreeOf(to)[p] \notin redacted}

apply_tree_diff(op, from, to, force) ==
    LET in == Incoming(from, to)
    IN  Pipeline(op, force, [state EXCEPT !.head = to], TreeOf(to), Wanted(from, to),
                 {p \in in : TreeOf(to)[p] = None}, Colliding(in), index)

(* Every incoming path must be in the target walk.                          *)
WalkServes(from, to) ==
    Wanted(from, to) \subseteq walk_tree(TreeOf(to), state.sparse)

SyncBegin(force) ==
    /\ Begins("sync")
    /\ main # state.head
    /\ force \/ ~Blocks(Incoming(state.head, main))
    /\ WalkServes(state.head, main)
    /\ verb' = apply_tree_diff("sync", state.head, main, force)
    /\ UNCHANGED <<server, state, index, disk, ghosts, quiet>>

(* What the server does with a land, for the copy's purposes: adopt the     *)
(* head, rebase its delta onto main, or record a conflict as markers.       *)
Ancestors ==
    LET up[i \in 0..Len(hist)] == IF i = 0 THEN {} ELSE {i} \cup up[hist[i].parent]
    IN  up

LandBase ==
    LET shared == Ancestors[state.head] \cap Ancestors[main]
    IN  CHOOSE b \in shared : \A c \in shared : c <= b

Delta == {p \in Paths : TreeOf(LandBase)[p] # TreeOf(state.head)[p]}

LandConflicts ==
    {p \in Delta : /\ TreeOf(LandBase)[p] # TreeOf(main)[p]
                   /\ TreeOf(state.head)[p] # TreeOf(main)[p]}

LandedTree(marker) ==
    [p \in Paths |-> IF p \in LandConflicts THEN marker
                     ELSE IF p \in Delta THEN TreeOf(state.head)[p] ELSE TreeOf(main)[p]]

(* The older marks a land keeps when it could not move the copy.            *)
stale_marks == {p \in state.conflicted : disk[p] \in Markers}

(* Mutant: a refused update advances the head all the same.                 *)
FollowLandAnyway(to) ==
    IF ~Blocks(Incoming(state.head, to)) /\ WalkServes(state.head, to)
    THEN verb' = apply_tree_diff("land", state.head, to, FALSE) /\ UNCHANGED state
    ELSE verb' = Idle /\ state' = [state EXCEPT !.head = to, !.conflicted = stale_marks]

(* The settled land's node is on main first; then the copy follows it       *)
(* through the same path as sync, or stays where it is, with the marks that *)
(* still hold, when the gate refuses or the walk fails.                     *)
FollowLand(to) ==
    IF ~Blocks(Incoming(state.head, to)) /\ WalkServes(state.head, to)
    THEN verb' = apply_tree_diff("land", state.head, to, FALSE) /\ UNCHANGED state
    ELSE verb' = Idle /\ state' = [state EXCEPT !.conflicted = stale_marks]

LandAdopted ==
    /\ Begins("land")
    /\ main \in Ancestors[state.head]
    /\ main # state.head
    /\ main' = state.head
    /\ UNCHANGED <<hist, redacted, snap, local, ghosts, quiet>>

LandSettled(to) == [op |-> "land", stage |-> "landed", to |-> to, rows |-> index]

(* A land that adds nothing to main settles on it.                          *)
LandContained ==
    /\ Begins("land")
    /\ main \notin Ancestors[state.head]
    /\ LandedTree(None) = TreeOf(main)
    /\ LandConflicts = {}
    /\ verb' = LandSettled(main)
    /\ UNCHANGED <<server, state, index, disk, ghosts, quiet>>

LandRebased(marker) ==
    /\ Begins("land")
    /\ Len(hist) < plan.hist
    /\ main \notin Ancestors[state.head]
    /\ LandedTree(marker) # TreeOf(main)
    /\ hist' = Append(hist, [tree |-> LandedTree(marker), parent |-> main])
    /\ main' = Len(hist')
    /\ verb' = LandSettled(Len(hist'))
    /\ UNCHANGED <<redacted, snap, state, index, disk, ghosts, quiet>>

LandFollow ==
    /\ verb.stage = "landed"
    /\ FollowLand(verb.to)
    /\ UNCHANGED <<server, index, disk, ghosts, counts>>

-----------------------------------------------------------------------------
(* sparse add walks the head strictly below the new prefix; a clean tracked *)
(* file is left as it is unless forced.                                     *)
SparseAddBegin(d, force) ==
    LET tree == TreeOf(state.head)
        files == walk_tree(tree, {d})
    IN  /\ Begins("sparse")
        /\ state.sparse # {} /\ d \notin state.sparse
        /\ d \in Descended(tree, {d})
        /\ force \/ ~Blocks(files)
        /\ verb' = Pipeline("add", force, [state EXCEPT !.sparse = @ \cup {d}], tree,
                            {p \in files : force \/ index[p] = None}, {},
                            Colliding(files), index)
        /\ torn' = torn \cup LeftOut(tree, {d})
        /\ blind' = blind \cup LeftOut(tree, {d})
        /\ UNCHANGED <<server, state, index, disk, mine, rebuilt, quiet>>

(* sparse remove has no gate: the indexed files below the prefix go.        *)
SparseRemoveBegin(d) ==
    /\ Begins("sparse")
    /\ d \in state.sparse
    /\ state.sparse # {d}
    /\ LET gone == {p \in Paths : p[1] = d}
       IN  verb' = [Pipeline("remove", FALSE,
                             [state EXCEPT !.sparse = @ \ {d}, !.conflicted = @ \ gone],
                             NoRow, {}, {p \in gone : index[p] # None}, {}, index)
                    EXCEPT !.stage = "write"]
    /\ UNCHANGED <<server, state, index, disk, ghosts, quiet>>

(* A clean row's blob is taken from the index, the rest from the disk; each *)
(* distinct blob is uploaded from the first path that has it, and refused   *)
(* when the bytes are others by then.                                       *)
Uploads(tree, paths) ==
    \A p \in paths : (\A q \in paths : tree[q] = tree[p] => ~Before(q, p))
                        => disk[p] = tree[p]

Captured(p) ==
    IF ~under_sparse(state.sparse, p) \/ p \in deleted THEN None
    ELSE IF p \in modified \cup untracked THEN disk[p]
    ELSE IF index[p] = None THEN None ELSE index[p].blob

Snapshot ==
    LET tree == [p \in Paths |-> Captured(p)]
    IN  /\ Begins("snapshot")
        /\ snap = None
        /\ Uploads(tree, {p \in Paths : tree[p] # None})
        /\ snap' = tree
        /\ UNCHANGED <<hist, main, redacted, local, ghosts, quiet>>

(* restore brings the snapshot's files of the cone and an index of only     *)
(* those; the head stays.                                                   *)
RestoreBegin(force) ==
    LET files == walk_tree(snap, state.sparse)
    IN  /\ Begins("restore")
        /\ snap # None
        /\ force \/ ~Blocks(files)
        /\ verb' = Pipeline("restore", force, state, snap, files, {}, Colliding(files), NoRow)
        /\ UNCHANGED <<server, state, index, disk, ghosts, quiet>>

(* The files a verb writes or deletes are written from now on; colliders    *)
(* are discarded only once every blob is fetched and verified.              *)
Fetched ==
    /\ verb.stage = "fetch"
    /\ \A p \in verb.adds : verb.tree[p] \notin redacted
    /\ verb' = [verb EXCEPT !.stage = "write"]
    /\ disk' = [p \in Paths |-> IF p \in verb.collide THEN None ELSE disk[p]]
    /\ index' = [p \in Paths |-> IF p \in verb.collide THEN Stale(index, p)[p] ELSE index[p]]
    /\ mine' = mine \ verb.collide
    /\ blind' = blind \cup (torn \cap (verb.adds \cup verb.dels \cup verb.collide))
    /\ UNCHANGED <<server, state, torn, rebuilt, counts>>

(* Marker-shaped content marks its path; other content clears the mark,     *)
(* except in a widen.                                                       *)
Marked(marks, p, c) ==
    IF c \in Markers THEN marks \cup {p}
    ELSE IF verb.op = "add" THEN marks ELSE marks \ {p}

Write(p) ==
    /\ verb.stage = "write"
    /\ p \in verb.adds
    /\ disk' = [disk EXCEPT ![p] = verb.tree[p]]
    /\ index' = Stale(index, p)
    /\ verb' = [verb EXCEPT !.adds = @ \ {p},
                            !.rows = [@ EXCEPT ![p] = Row(verb.tree[p])],
                            !.state.conflicted = Marked(@, p, verb.tree[p])]
    /\ torn' = torn \cup {p}
    /\ mine' = mine \ {p}
    /\ UNCHANGED <<server, state, blind, rebuilt, counts>>

(* Only a tracked path is deleted, after the writes.                        *)
Delete(p) ==
    /\ verb.stage = "write"
    /\ verb.adds = {}
    /\ p \in verb.dels
    /\ IF verb.rows[p] = None
       THEN verb' = [verb EXCEPT !.dels = @ \ {p}] /\ UNCHANGED <<disk, index, torn, mine>>
       ELSE /\ disk' = [disk EXCEPT ![p] = None]
            /\ index' = Stale(index, p)
            /\ verb' = [verb EXCEPT !.dels = @ \ {p}, !.rows = [@ EXCEPT ![p] = None],
                                    !.state.conflicted = @ \ {p}]
            /\ torn' = torn \cup {p}
            /\ mine' = mine \ {p}
    /\ UNCHANGED <<server, state, blind, rebuilt, counts>>

-----------------------------------------------------------------------------
(* commit takes every change of the scan, untracked files of the cone       *)
(* included; a rendered marker file refuses it whole.                       *)
Commit(op, adds, dels) ==
    /\ adds \cup dels # {}
    /\ verb' = [Pipeline(op, FALSE, state, disk, adds, dels, {}, index)
                EXCEPT !.stage = "put"]
    /\ UNCHANGED <<server, state, index, disk, ghosts, quiet>>

CommitBegin ==
    LET adds == modified \cup {p \in untracked : under_sparse(state.sparse, p)}
    IN  /\ Begins("commit")
        /\ \A p \in adds : disk[p] \notin Markers
        /\ Commit("commit", adds, deleted)

(* resolve takes the one path, marked or marker-shaped, as it is on disk.   *)
ResolveBegin(p) ==
    /\ Begins("resolve")
    /\ disk[p] # None
    /\ \/ p \in state.conflicted /\ index[p] # None
       \/ disk[p] \in Markers
    /\ Commit("resolve", {p}, {})

(* The server takes a mod or a del only of a file the parent has.  commit   *)
(* reads each file again for its upload, resolve sends what it read.        *)
Accepted ==
    /\ \A p \in verb.adds : verb.tree[p] \notin redacted
    /\ \A p \in verb.dels : TreeOf(state.head)[p] # None
    /\ \A p \in verb.adds : verb.op = "resolve" \/ index[p] # None
                                => TreeOf(state.head)[p] # None
    /\ verb.op = "resolve" \/ Uploads(verb.tree, verb.adds)

Upload ==
    /\ verb.stage = "put"
    /\ Accepted
    /\ Len(hist) < plan.hist
    /\ hist' = Append(hist, [parent |-> state.head,
                             tree |-> [p \in Paths |-> IF p \in verb.adds THEN verb.tree[p]
                                                       ELSE IF p \in verb.dels THEN None
                                                       ELSE TreeOf(state.head)[p]]])
    /\ verb' = [verb EXCEPT !.stage = "posted", !.state.head = Len(hist')]
    /\ UNCHANGED <<main, redacted, snap, state, index, disk, ghosts, counts>>

(* The rows take the stat of the files as they are after the post.          *)
Stat ==
    /\ verb.stage = "posted"
    /\ \A p \in verb.adds : disk[p] # None
    /\ verb' = [verb EXCEPT
                  !.stage = "write", !.adds = {}, !.dels = {},
                  !.state.conflicted = @ \ (verb.adds \cup verb.dels),
                  !.rows = [p \in Paths |-> IF p \in verb.adds THEN Row(verb.tree[p])
                                            ELSE IF p \in verb.dels THEN None ELSE @[p]]]
    /\ UNCHANGED <<server, state, index, disk, ghosts, counts>>

-----------------------------------------------------------------------------
(* state.json is replaced first, then the index.                            *)
Changed == {p \in Paths : index[p] # verb.rows[p]}

SaveState ==
    /\ verb.stage = "write" /\ verb.adds = {} /\ verb.dels = {}
    /\ state' = verb.state
    /\ verb' = [verb EXCEPT !.stage = "index"]
    /\ torn' = torn \cup Changed
    /\ UNCHANGED <<server, index, disk, mine, blind, rebuilt, counts>>

Outside == {p \in Changed : verb.rows[p] # None /\ ~under_sparse(state.sparse, p)}

SaveIndex ==
    /\ verb.stage = "index"
    /\ index' = verb.rows
    /\ verb' = Idle
    /\ torn' = (torn \ Changed) \cup Outside
    /\ mine' = CASE verb.op \in {"commit", "resolve"} -> mine \ Changed
                [] verb.op = "restore" -> {p \in mine : disk[p] # None}
                [] OTHER -> mine
    /\ rebuilt' = (rebuilt \/ verb.op = "restore")
    /\ blind' = blind \cup Outside
    /\ UNCHANGED <<server, state, disk, counts>>

(* A verb gives up: the fetch, the server or a write refused.  What it had  *)
(* written stays; a land still saves the marks that hold.                   *)
GiveUp ==
    /\ verb.stage \in {"fetch", "put", "posted", "write"}
    /\ crashes < plan.crashes \/ (verb.stage = "put" /\ ~Accepted)
    /\ crashes' = IF verb.stage = "put" /\ ~Accepted THEN crashes ELSE crashes + 1
    /\ verb' = Idle
    /\ state' = IF verb.op = "land" THEN [state EXCEPT !.conflicted = stale_marks] ELSE state
    /\ UNCHANGED <<server, index, disk, ghosts, plan, edits, runs>>

(* A verb dies; its lock goes with it.                                      *)
Die ==
    /\ verb # Idle
    /\ crashes < plan.crashes
    /\ crashes' = crashes + 1
    /\ verb' = Idle
    /\ UNCHANGED <<server, state, index, disk, ghosts, plan, edits, runs>>

(* doctor --rebuild: the index becomes what is on disk.                     *)
DoctorRebuild ==
    /\ Begins("doctor")
    /\ index' = [p \in Paths |-> IF disk[p] = None THEN None ELSE Row(disk[p])]
    /\ rebuilt' = TRUE
    /\ mine' = {}
    /\ UNCHANGED <<server, state, disk, verb, blind, torn, quiet>>

Next ==
    \/ \E p \in Paths, c \in Contents \cup {None} : UpstreamLands(p, c) \/ Edit(p, c)
    \/ \E c \in Contents : Redact(c)
    \/ \E prefixes \in plan.cones : Clone(prefixes)
    \/ \E force \in BOOLEAN : SyncBegin(force) \/ RestoreBegin(force)
    \/ \E d \in Dirs : SparseRemoveBegin(d) \/ \E force \in BOOLEAN : SparseAddBegin(d, force)
    \/ \E marker \in Markers : LandRebased(marker)
    \/ LandAdopted \/ LandContained \/ LandFollow
    \/ Snapshot \/ Fetched \/ (\E p \in Paths : Write(p) \/ Delete(p) \/ ResolveBegin(p))
    \/ CommitBegin \/ Upload \/ Stat \/ SaveState \/ SaveIndex
    \/ GiveUp \/ Die \/ DoctorRebuild

Spec == Init /\ [][Next]_vars

-----------------------------------------------------------------------------
TypeOK ==
    /\ \A i \in DOMAIN hist : hist[i].tree \in Trees /\ hist[i].parent \in 0..(i - 1)
    /\ main \in DOMAIN hist
    /\ redacted \subseteq Contents /\ snap \in Trees \cup {None}
    /\ state = None \/ (state.head \in DOMAIN hist /\ state.conflicted \subseteq Paths)
    /\ disk \in Trees
    /\ \A p \in Paths : index[p] = None \/ index[p].blob \in Contents
    /\ mine \cup blind \cup torn \subseteq Paths

(* No verb run without --force changes a file the user worked on while no   *)
(* verb ran, but for sparse remove, which drops tracked files by design     *)
(* (the preserve-everything rule of sync.rs, sparse.rs and restore.rs).     *)
WorkKept ==
    [][\A p \in mine : disk'[p] # disk[p] =>
          \/ edits' # edits
          \/ verb.force
          \/ verb.op = "remove" /\ index[p] # None]_vars

(* Between verbs, until the index is rebuilt from something else: a path of *)
(* the cone that status does not list holds the head's content, whatever    *)
(* died before; status lists only the user's work and what an interrupted   *)
(* verb wrote; and a listed conflict is one on disk (scan.rs, state.json).  *)
StatusTruthful ==
    verb = Idle /\ state # None /\ ~rebuilt =>
        \A p \in Paths \ blind :
            /\ under_sparse(state.sparse, p) /\ p \notin Dirty
                  => disk[p] = TreeOf(state.head)[p] \/ TreeOf(state.head)[p] \in redacted
            /\ p \in Dirty => p \in mine \cup torn
            /\ p \in state.conflicted /\ index[p] # None /\ p \notin Dirty
                  => disk[p] \in Markers

(* A copy nobody touched holds every file of the cone at its head (fetch.rs *)
(* 65: an empty prefix list walks everything).                              *)
WholeTree ==
    verb = Idle /\ state # None /\ ~rebuilt /\ edits = 0 /\ crashes = 0 =>
        \A p \in Paths :
            under_sparse(state.sparse, p)
                => disk[p] = TreeOf(state.head)[p] \/ TreeOf(state.head)[p] \in redacted
=============================================================================
