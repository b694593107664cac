------------------------------- MODULE Rebase -------------------------------
(***************************************************************************)
(* The land transaction of one repo: the walk from the head down to main,  *)
(* the rebase of the chain by three-way merges, recorded conflicts, the    *)
(* tombstone gates, the move of main and the settlement.                   *)
(*                                                                         *)
(* A changeset id is the hash of its canonical bytes, so the model uses    *)
(* the content itself as the id: parents, stamp (author, message, time),   *)
(* file changes and conflict representations.  A tree is a function from   *)
(* paths to files; directories are implied by the paths.  The repo's write *)
(* slot excludes creates and redactions while a land is open (WriteSlots). *)
(***************************************************************************)
EXTENDS Naturals, Sequences, FiniteSets

CONSTANTS
    Paths,         \* file paths
    Under,         \* pairs <<p, q>>: q lies below p, were p a directory
    Blobs,         \* contents that clients upload
    Stamps,        \* author, message and timestamp of a changeset
    CleanMerges,   \* triples <<base, ours, theirs>> the line merge resolves
    Edits,         \* change lists that clients send
    Seeds,         \* [rows, main] of a repo as an import leaves it
    MaxRows,       \* bound on the changesets of the repo at a create
    MaxLands,      \* bound on settled lands
    MaxRedactions, \* bound on tombstones
    None

ASSUME RebaseAssumption ==
    /\ Under \subseteq Paths \X Paths
    /\ MaxRows \in Nat /\ MaxLands \in Nat /\ MaxRedactions \in Nat
    /\ None \notin Blobs

VARIABLES
    rows,      \* changeset id -> [gen, tree]
    main,      \* the target of ref main
    lands,     \* settled lands, in order
    redacted,  \* tombstoned ids: changesets and blobs
    txn        \* the open land transaction, or None

vars == <<rows, main, lands, redacted, txn>>

-----------------------------------------------------------------------------
(* Files, trees and change lists *)

File(b, x) == [blob |-> b, exec |-> x]
EmptyTree  == [p \in Paths |-> None]
NoChange   == [p \in Paths |-> None]
NoReps     == [p \in Paths |-> None]

Change(op, f) == [op |-> op, file |-> f]

(* What is at p when the changes to the paths above p have been applied:   *)
(* change lists are sorted, so a directory's own change comes first.       *)
After(tree, changes, p) ==
    IF changes[p] = None THEN tree[p] ELSE changes[p].file

(* MemNode::apply succeeds: no file in the middle of a changed path, and   *)
(* mod and del name a file.  Add names anything.                           *)
Applicable(tree, changes) ==
    \A p \in {r \in Paths: changes[r] # None}:
        /\ \A a \in Paths: <<a, p>> \in Under => After(tree, changes, a) = None
        /\ changes[p].op \in {"mod", "del"} => tree[p] # None

(* The tree it makes.  insert_in puts the file where it finds a directory, *)
(* and all that was below is gone.                                         *)
Apply(tree, changes) ==
    [q \in Paths |->
        IF changes[q] # None THEN changes[q].file
        ELSE IF \E p \in Paths: /\ <<p, q>> \in Under
                                /\ changes[p] # None
                                /\ changes[p].op = "add"
        THEN None
        ELSE tree[q]]

(* delta_between: the changes from one tree to another.                    *)
Delta(from, to) ==
    [p \in Paths |->
        CASE from[p] = to[p] -> None
          [] from[p] = None  -> Change("add", to[p])
          [] to[p] = None    -> Change("del", None)
          [] OTHER           -> Change("mod", to[p])]

(* A file and a directory are never at one path.                           *)
Consistent(tree) == \A u \in Under: tree[u[1]] = None \/ tree[u[2]] = None

BlobsIn(changes) ==
    {changes[p].file.blob :
        p \in {r \in Paths: changes[r] # None /\ changes[r].file # None}}

-----------------------------------------------------------------------------
(* The three-way merge *)

(* merge_lines: the content, or None for a conflict.  The bytes that the   *)
(* hunks give do not depend on which side is ours.                         *)
MergeLines(b, o, t) ==
    CASE o = b -> t
      [] t = b -> o
      [] o = t -> o
      [] <<b, o, t>> \in CleanMerges -> [base |-> b, of |-> {o, t}]
      [] OTHER -> None

(* resolve_exec, for files of which at least one side is there.            *)
ResolveExec(b, o, t) ==
    IF o = None THEN t.exec
    ELSE IF t = None THEN o.exec
    ELSE IF b # None /\ b.exec = o.exec THEN t.exec ELSE o.exec

(* The representation of a conflict: orderless sides, and the base.        *)
ContentRep(b, o, t) ==
    [base |-> b, sides |-> {o, t} \ {None}, deleted |-> None \in {o, t}]

(* Mutant: a conflicting path keeps a side instead of the marker.          *)
SideAtConflict(p, b, o, t) == IF t = None THEN o ELSE t

(* marker_bytes: the rendering tells the representation and the path.      *)
Marker(p, rep) == [path |-> p, rep |-> rep]

MarkerFile(p, b, o, t) ==
    File(Marker(p, ContentRep(b, o, t)), ResolveExec(b, o, t))

RepBlobs(rep) ==
    IF rep = None THEN {}
    ELSE {f.blob : f \in rep.sides}
           \cup (IF rep.base = None THEN {} ELSE {rep.base.blob})

(* One path of merge_trees_mode: the merged file, the conflict that its    *)
(* marker records, and the blobs whose content goes into new bytes.        *)
MergePath(p, b, o, t) ==
    LET present  == b # None /\ o # None /\ t # None
        lines    == MergeLines(b.blob, o.blob, t.blob)
        conflict == [file   |-> MarkerFile(p, b, o, t),
                     rep    |-> ContentRep(b, o, t),
                     inputs |-> RepBlobs(ContentRep(b, o, t))]
        take(f)  == [file |-> f, rep |-> None, inputs |-> {}]
    IN  CASE o = t -> take(o)
          [] o = b -> take(t)
          [] t = b -> take(o)
          [] OTHER ->
               IF present /\ lines # None
                 THEN [file   |-> File(lines, ResolveExec(b, o, t)),
                       rep    |-> None,
                       inputs |-> {b.blob, o.blob, t.blob}]
                 ELSE conflict

MergeTrees(base, ours, theirs) ==
    [p \in Paths |-> MergePath(p, base[p], ours[p], theirs[p])]

Files(merged)  == [p \in Paths |-> merged[p].file]
Minted(merged) == [p \in Paths |-> merged[p].rep]
Inputs(merged) == UNION {merged[p].inputs : p \in Paths}

(* conflict::carry: the node's own representations, overridden where the   *)
(* rebase conflicts anew.                                                  *)
Carry(existing, minted) ==
    [p \in Paths |-> IF minted[p] # None THEN minted[p] ELSE existing[p]]

-----------------------------------------------------------------------------
(* The changeset graph *)

ParentsOf(i) == {i.parents[n] : n \in DOMAIN i.parents}

(* in_main: everything that can be reached from i by parents, i too.       *)
Ancestors(rs, i) ==
    LET reach[j \in DOMAIN rs] == {j} \cup UNION {reach[k]: k \in ParentsOf(j)}
    IN  reach[i]

With(rs, i, row) == [j \in DOMAIN rs \cup {i} |-> IF j = i THEN row ELSE rs[j]]

ParentTree(rs, i) ==
    IF i.parents = <<>> THEN EmptyTree ELSE rs[i.parents[1]].tree

(* The blobs that changesets name.                                         *)
Named(rs) == UNION {BlobsIn(i.changes) : i \in DOMAIN rs}

(* What clients send and what an import leaves: uploaded contents, and     *)
(* deletions without one; no conflicts and no empty changesets, parents    *)
(* that are there, generations above theirs, and trees of files that some  *)
(* changeset names.                                                        *)
ASSUME InputAssumption ==
    /\ \A c \in Edits:
        /\ BlobsIn(c) \subseteq Blobs
        /\ \A p \in Paths: c[p] # None =>
             c[p].op \in {"add", "mod"} \/ (c[p].op = "del" /\ c[p].file = None)
    /\ \A s \in Seeds:
        /\ IsFiniteSet(DOMAIN s.rows) /\ s.main \in DOMAIN s.rows
        /\ \A i \in DOMAIN s.rows:
             /\ i = [parents |-> i.parents, stamp |-> i.stamp, changes |-> i.changes,
                     reps |-> NoReps]
             /\ i.parents \in Seq(DOMAIN s.rows)
             /\ i.changes # NoChange
             /\ s.rows[i].gen \in Nat
             /\ \A k \in ParentsOf(i): s.rows[k].gen < s.rows[i].gen
             /\ DOMAIN s.rows[i].tree = Paths /\ Consistent(s.rows[i].tree)
             /\ \A p \in Paths: \/ s.rows[i].tree[p] = None
                                \/ s.rows[i].tree[p].blob \in Named(s.rows)

-----------------------------------------------------------------------------

Init ==
    /\ \E s \in Seeds: rows = s.rows /\ main = s.main
    /\ lands = <<>>
    /\ redacted = {}
    /\ txn = None

(* POST /changesets: on a known parent, or on none.  The tombstones of the *)
(* id and of its blobs are probed inside the slot; an id that has a row    *)
(* violates the primary key.                                               *)
Create(parents, stamp, changes) ==
    LET id == [parents |-> parents, stamp |-> stamp,
               changes |-> changes, reps |-> NoReps]
        gen == IF parents = <<>> THEN 0 ELSE rows[parents[1]].gen + 1
    IN  /\ txn = None
        /\ Cardinality(DOMAIN rows) < MaxRows
        /\ changes # NoChange
        /\ id \notin redacted
        /\ BlobsIn(changes) \cap redacted = {}
        /\ Applicable(ParentTree(rows, id), changes)
        /\ id \notin DOMAIN rows
        /\ rows' = With(rows, id, [gen  |-> gen,
                                   tree |-> Apply(ParentTree(rows, id), changes)])
        /\ UNCHANGED <<main, lands, redacted, txn>>

(* POST /redactions: a tombstone for a changeset or a blob of the repo.    *)
Redact(x) ==
    /\ txn = None
    /\ Cardinality(redacted) < MaxRedactions
    /\ x \notin redacted
    /\ redacted' = redacted \cup {x}
    /\ UNCHANGED <<rows, main, lands, txn>>

(* The row that settle writes: conflicted when the landed node is.         *)
Settlement(head, base, landed, made) ==
    [head |-> head, base |-> base, landed |-> landed, made |-> made,
     state |-> IF landed.reps = NoReps THEN "done" ELSE "conflicted"]

(* A land opens its transaction: neither head nor main is redacted, and    *)
(* what is reachable from main is read once.                               *)
Begin(head, record) ==
    /\ txn = None
    /\ Len(lands) < MaxLands
    /\ head \notin redacted
    /\ main \notin redacted
    /\ txn' = [stage |-> "walk", head |-> head, record |-> record,
               inMain |-> Ancestors(rows, main), cursor |-> head,
               chain |-> <<>>, tip |-> main, tipGen |-> rows[main].gen,
               tipTree |-> rows[main].tree, rows |-> rows, made |-> 0]
    /\ UNCHANGED <<rows, main, lands, redacted>>

(* The head is main, or main has it: settled, and nothing moves.           *)
SettleContained ==
    /\ txn # None
    /\ txn.stage = "walk"
    /\ txn.head \in txn.inMain
    /\ lands' = Append(lands, Settlement(txn.head, main, main, 0))
    /\ txn' = None
    /\ UNCHANGED <<rows, main, redacted>>

(* One turn of the first-parent walk.  A tombstone or a root ends the land.*)
Walk ==
    /\ txn # None
    /\ txn.stage = "walk"
    /\ txn.cursor \notin txn.inMain
    /\ txn.cursor \notin redacted
    /\ txn.cursor.parents # <<>>
    /\ txn' = [txn EXCEPT !.chain = <<txn.cursor>> \o txn.chain,
                          !.cursor = txn.cursor.parents[1]]
    /\ UNCHANGED <<rows, main, lands, redacted>>

(* The walk came down to main, on a node that is not redacted.             *)
StartRebase ==
    /\ txn # None
    /\ txn.stage = "walk"
    /\ txn.cursor \in txn.inMain
    /\ txn.head \notin txn.inMain
    /\ txn.cursor \notin redacted
    /\ txn' = [txn EXCEPT !.stage = "rebase"]
    /\ UNCHANGED <<rows, main, lands, redacted>>

(* The next node of the chain merged onto the tip, and the changeset that  *)
(* records it there.  Mutants: the base is the fork of the whole chain; a  *)
(* merge keeps its other parent.                                           *)
Node == txn.chain[1]

MergedFromFork ==
    MergeTrees(txn.rows[txn.cursor].tree, txn.tipTree, txn.rows[Node].tree)

Merged ==
    MergeTrees(ParentTree(txn.rows, Node), txn.tipTree, txn.rows[Node].tree)

RebasedAsMerge ==
    [parents |-> <<txn.tip>> \o Tail(Node.parents), stamp |-> Node.stamp,
     changes |-> Delta(txn.tipTree, Files(Merged)),
     reps    |-> Carry(Node.reps, Minted(Merged))]

Rebased ==
    [parents |-> <<txn.tip>>, stamp |-> Node.stamp,
     changes |-> Delta(txn.tipTree, Files(Merged)),
     reps    |-> Carry(Node.reps, Minted(Merged))]

(* Mutant: the merged files are not checked to be a tree.                  *)
MergeAnyFiles == txn.record \/ Minted(Merged) = NoReps

(* The merge stands: conflicts only if the land records them, and a tree.  *)
MergeStands ==
    /\ txn.record \/ Minted(Merged) = NoReps
    /\ Consistent(Files(Merged))

(* Mutant: only what the changeset itself names is probed.                 *)
GateOutputs == {Rebased} \cup BlobsIn(Rebased.changes)

(* Every id that the gate probes: the changeset, what it names, the new    *)
(* blobs, what went into them, and the sides of its conflicts.             *)
GateIds ==
    {Rebased} \cup BlobsIn(Rebased.changes) \cup Inputs(Merged)
      \cup {Merged[p].file.blob :
              p \in {q \in Paths: Merged[q].inputs # {}}}
      \cup UNION {RepBlobs(Rebased.reps[p]) : p \in Paths}

Rebasing == txn # None /\ txn.stage = "rebase" /\ txn.chain # <<>>

(* The change is on main already: the node is dropped from the chain.      *)
DropNode ==
    /\ Rebasing
    /\ MergeStands
    /\ Rebased.changes = NoChange
    /\ Rebased.reps = NoReps
    /\ txn' = [txn EXCEPT !.chain = Tail(txn.chain)]
    /\ UNCHANGED <<rows, main, lands, redacted>>

(* The node sits on the tip as it is: it is its own rebase.                *)
AdoptNode ==
    /\ Rebasing
    /\ MergeStands
    /\ Rebased = Node
    /\ GateIds \cap redacted = {}
    /\ txn' = [txn EXCEPT !.chain = Tail(txn.chain),
                          !.tip = Node,
                          !.tipTree = txn.rows[Node].tree]
    /\ UNCHANGED <<rows, main, lands, redacted>>

(* A new changeset on the tip.  The insert fails if the id has a row.      *)
InsertNode ==
    /\ Rebasing
    /\ MergeStands
    /\ Rebased.changes # NoChange \/ Rebased.reps # NoReps
    /\ Rebased # Node
    /\ GateIds \cap redacted = {}
    /\ Rebased \notin DOMAIN txn.rows
    /\ txn' = [txn EXCEPT !.chain = Tail(txn.chain),
                          !.tip = Rebased,
                          !.tipTree = Files(Merged),
                          !.tipGen = txn.tipGen + 1,
                          !.made = txn.made + 1,
                          !.rows = With(txn.rows, Rebased,
                                        [gen  |-> txn.tipGen + 1,
                                         tree |-> Files(Merged)])]
    /\ UNCHANGED <<rows, main, lands, redacted>>

(* The chain is done: main moves, the key settles, the transaction commits.*)
Settle ==
    /\ txn # None
    /\ txn.stage = "rebase"
    /\ txn.chain = <<>>
    /\ rows' = txn.rows
    /\ main' = txn.tip
    /\ lands' = Append(lands, Settlement(txn.head, main, txn.tip, txn.made))
    /\ txn' = None
    /\ UNCHANGED redacted

(* A refusal of any kind (conflict, tombstone, no common history, scope,   *)
(* size, store failure), a panic or a crash: TxnGuard rolls back.          *)
Rollback ==
    /\ txn # None
    /\ txn' = None
    /\ UNCHANGED <<rows, main, lands, redacted>>

(* What can be redacted: changesets, uploads, and blobs that changes name. *)
Redactable == DOMAIN rows \cup Blobs \cup Named(rows)

Next ==
    \/ \E ps \in {<<>>} \cup {<<i>> : i \in DOMAIN rows}, s \in Stamps,
          c \in Edits: Create(ps, s, c)
    \/ \E x \in Redactable: Redact(x)
    \/ \E h \in DOMAIN rows, record \in BOOLEAN: Begin(h, record)
    \/ SettleContained
    \/ Walk
    \/ StartRebase
    \/ DropNode
    \/ AdoptNode
    \/ InsertNode
    \/ Settle
    \/ Rollback

Spec == Init /\ [][Next]_vars

-----------------------------------------------------------------------------
(* Properties *)

(* Every changeset has its parents, a generation and a consistent tree;    *)
(* main and the open land name changesets that exist.                      *)
TypeOK ==
    /\ main \in DOMAIN rows
    /\ \A i \in DOMAIN rows: /\ rows[i].gen \in Nat
                             /\ DOMAIN rows[i].tree = Paths
                             /\ Consistent(rows[i].tree)
                             /\ ParentsOf(i) \subseteq DOMAIN rows
    /\ txn # None => /\ DOMAIN rows \subseteq DOMAIN txn.rows
                     /\ txn.tip \in DOMAIN txn.rows
                     /\ txn.cursor \in DOMAIN rows
                     /\ \A n \in DOMAIN txn.chain: txn.chain[n] \in DOMAIN rows

(* Main only goes forward, and what a land puts on it is a line: every     *)
(* changeset between the old main and the new one has one parent.          *)
MainAdvancesLinearly ==
    [][main' # main =>
         /\ main \in Ancestors(rows', main')
         /\ \A i \in Ancestors(rows', main') \ Ancestors(rows, main):
               Len(i.parents) = 1]_vars

(* A land loses neither side: where main kept what the chain forked from,  *)
(* it now has what the head has; where no changeset of the chain touched   *)
(* the path, it keeps what it had.                                         *)
LandKeepsBothSides ==
    [][Settle =>
         LET fork  == rows[txn.cursor].tree
             ours  == rows[main].tree
             head  == rows[txn.head].tree
             now   == rows'[main'].tree
             chain == Ancestors(rows, txn.head) \ txn.inMain
         IN  \A p \in Paths:
               /\ ours[p] = fork[p] => now[p] = head[p]
               /\ (\A i \in chain: rows[i].tree[p] = ParentTree(rows, i)[p])
                    => now[p] = ours[p]]_vars

(* The blobs that a changeset names, and those whose content went into a   *)
(* blob that a merge made.                                                 *)
Names(i) == BlobsIn(i.changes) \cup UNION {RepBlobs(i.reps[p]) : p \in Paths}
SourcesOf(b) ==
    IF b \in Blobs THEN {}
    ELSE IF "rep" \in DOMAIN b THEN RepBlobs(b.rep)
    ELSE {b.base} \cup b.of

(* No changeset comes into being that is redacted or names redacted        *)
(* content, or whose new blobs embed it: by a create, by a rebase or by a  *)
(* recorded conflict.  A blob that was there is an object of its own: its  *)
(* sources may have been redacted since, and a later changeset may name it *)
(* again (for its exec bit).                                               *)
RedactedStaysOut ==
    [][\A i \in DOMAIN rows' \ DOMAIN rows:
          LET made == BlobsIn(i.changes) \ Named(rows)
          IN  ({i} \cup Names(i) \cup UNION {SourcesOf(b) : b \in made})
                \cap redacted = {}]_vars

(* A recorded conflict is in the tree, as the marker of exactly the sides  *)
(* that the changeset names, and conflicted changesets are only on main.   *)
ConflictsAreRecorded ==
    \A i \in DOMAIN rows:
        /\ \A p \in Paths: i.reps[p] # None =>
              /\ rows[i].tree[p].blob = Marker(p, i.reps[p])
              /\ i.reps[p].base \notin i.reps[p].sides
        /\ i.reps # NoReps => i \in Ancestors(rows, main)

(* What a land answered stays true: the landed changeset is on main for    *)
(* ever, on top of the base it was rebased onto, and the state says whether*)
(* it is conflicted.                                                       *)
LandsStand ==
    \A n \in DOMAIN lands:
        /\ lands[n].landed \in Ancestors(rows, main)
        /\ lands[n].base \in Ancestors(rows, lands[n].landed)
        /\ lands[n].made <= Cardinality(Ancestors(rows, lands[n].landed)
                                          \ Ancestors(rows, lands[n].base))
        /\ lands[n].state = "conflicted" <=> lands[n].landed.reps # NoReps

(* A chain that sits on main, with one parent each and changes that are    *)
(* the difference to it, lands as it is: no changeset is rewritten.        *)
FastForwardAdopts ==
    [][(/\ Settle
        /\ txn.cursor = main
        /\ \A i \in Ancestors(rows, txn.head) \ txn.inMain:
              /\ Len(i.parents) = 1
              /\ i.changes = Delta(ParentTree(rows, i), rows[i].tree))
       => main' = txn.head /\ rows' = rows]_vars

(* A parent's generation is below its child's: the merge-base walk and the *)
(* backfill of the derive queue rely on it.                                *)
GenerationsGrow ==
    \A i \in DOMAIN rows: \A j \in ParentsOf(i): rows[j].gen < rows[i].gen
=============================================================================
