------------------------------ MODULE History ------------------------------
(***************************************************************************)
(* The reads over a repo's history (routes/history.rs, routes/trees.rs and *)
(* the derivers of derived.rs) and the moves of a ref (routes/refs.rs),    *)
(* while changesets are created, derived, quarantined and redacted.        *)
(*                                                                         *)
(* A changeset is its number: parents come before their children.  The     *)
(* tree of a changeset is one directory with one file, whose content is a  *)
(* set of lines, the content being the blob.  A behaviour looks at one     *)
(* surface, its focus: the merge base over the commit_graph kind, blame,   *)
(* the path history, the log, or a ref; row and index are those of the     *)
(* kind the focus reads.                                                   *)
(***************************************************************************)
EXTENDS Naturals, Sequences, FiniteSets, FiniteSetsExt, SequencesExt

CONSTANTS None,
          Foci,        \* the surfaces looked at
          MaxNodes,    \* MaxNodes[f]: bound on the changesets
          Branching,   \* Branching[f]: the number of parents at most
          Contents,    \* Contents[f]: the contents of the file, None for no file
          Limit,       \* the limit of a page
          MaxMarks,    \* MaxMarks[f]: bound on redactions
          MaxFailures, \* bound on quarantined changesets
          MaxVersion   \* bound on the versions of the ref

(* None is nothing else; a page has room for an entry.                     *)
HistoryAssumption ==
    /\ MaxNodes \in [Foci -> Nat] /\ Branching \in [Foci -> Nat]
    /\ Limit \in Nat \ {0}
    /\ None \notin Nat
    /\ \A f \in Foci: None \notin [blob: Contents[f], parent: Contents[f] \cup {None}]

VARIABLES
    focus,
    parents,   \* parents[i]: the parents of changeset i, in ord order
    gen,       \* gen[i]: the generation of i
    content,   \* content[i]: the file in the root tree of i, or None
    tombs,     \* tombstoned changesets
    blobTombs, \* tombstoned blobs
    row,       \* row[i]: the derive row of i
    skips,     \* skips[i]: the skip entries that commit_graph made for i
    state,     \* state[i]: the blame_state row of i for the file, or None
    touches,   \* the path_history index: the changesets it has for the file
    reader,    \* a client that pages through the log, or None
    ref        \* a ref, or None

repo == <<focus, parents, gen, content, tombs, blobTombs>>
derived == <<row, skips, state, touches>>
vars == <<focus, parents, gen, content, tombs, blobTombs, row, skips, state, touches,
          reader, ref>>

Nodes == DOMAIN parents
Marks == Cardinality(tombs) + Cardinality(blobTombs)
Rows == [state: {"pending", "poison"}, tainted: {FALSE}] \cup
        [state: {"done"}, tainted: BOOLEAN]

(* The types; a changeset's parents and entries are older than it.         *)
TypeOK ==
    /\ focus \in Foci
    /\ \A i \in Nodes: ToSet(parents[i]) \subseteq 1..(i - 1)
    /\ content \in [Nodes -> Contents[focus]]
    /\ tombs \subseteq Nodes /\ blobTombs \subseteq Contents[focus] \ {None}
    /\ row \in [Nodes -> Rows]
    /\ \A i \in Nodes: \A k \in DOMAIN skips[i]: skips[i][k].target < i
    /\ touches \subseteq Nodes

Init ==
    /\ focus \in Foci
    /\ parents = <<>> /\ gen = <<>> /\ content = <<>> /\ row = <<>> /\ skips = <<>> /\ state = <<>>
    /\ tombs = {} /\ blobTombs = {} /\ touches = {}
    /\ reader = None /\ ref = None

-----------------------------------------------------------------------------
(* The graph.                                                              *)

Ancestors[i \in Nodes] == {i} \cup UNION {Ancestors[p]: p \in ToSet(parents[i])}

Parent(i) == IF parents[i] = <<>> THEN None ELSE Head(parents[i])

(* The first-parent chain *)
Chain[i \in Nodes] == {i} \cup (IF parents[i] = <<>> THEN {} ELSE Chain[Head(parents[i])])

ParentContent(i) == IF Parent(i) = None THEN None ELSE content[Parent(i)]
Touched(i) == content[i] # ParentContent(i)

-----------------------------------------------------------------------------
(* What the derivers make of a changeset.                                  *)

(* CommitGraphDeriver: entry 1 is the first parent; entry k joins the      *)
(* first parent's entry k-1, whose target is the midpoint, with the        *)
(* midpoint's own entry k-1, as long as both are there.  A row that is not *)
(* done has no entries.                                                    *)
SkipsOf(i) == IF row[i].state = "done" THEN skips[i] ELSE <<>>
Single(i) == Len(parents[i]) <= 1

SkipEntries(i) ==
    IF parents[i] = <<>> THEN <<>> ELSE
    LET p == Head(parents[i])
        mids == SkipsOf(p)
        fars(k) == SkipsOf(mids[k].target)
        joined == {k \in DOMAIN mids: \A j \in 1..k: j \in DOMAIN fars(j)}
        entry(k) ==
            LET mid == mids[k]  far == fars(k)[k]
            IN  [target |-> far.target, hop |-> 2 * far.hop + 1,
                 pure |-> Single(p) /\ Single(mid.target) /\ mid.pure /\ far.pure]
    IN  [k \in {1} \cup {j + 1: j \in joined} |->
            IF k = 1 THEN [target |-> p, hop |-> 1, pure |-> TRUE] ELSE entry(k - 1)]

(* BlameDeriver: for a path the changeset touched, its blob and the blob   *)
(* in the first parent's tree                                              *)
BlameState(i) ==
    IF Touched(i) THEN [blob |-> content[i], parent |-> ParentContent(i)] ELSE None

(* collapse_taint: a parent that is poisoned, or tainted itself *)
CollapseTaint(i) ==
    \E p \in ToSet(parents[i]): row[p].state = "poison" \/ row[p].tainted

-----------------------------------------------------------------------------
(* Changesets come, are derived or quarantined, and are redacted.          *)

Create ==
    /\ Len(parents) < MaxNodes[focus]
    /\ \E ps \in UNION {[1..k -> Nodes \ tombs]: k \in 0..Branching[focus]}:
       \E c \in Contents[focus] \ blobTombs:
         /\ IsInjective(ps)
         /\ parents' = Append(parents, ps)
         /\ gen' = Append(gen, IF ps = <<>> THEN 0 ELSE 1 + Max({gen[p]: p \in ToSet(ps)}))
         /\ content' = Append(content, c)
    /\ row' = Append(row, [state |-> "pending", tainted |-> FALSE])
    /\ skips' = Append(skips, <<>>)
    /\ state' = Append(state, None)
    /\ UNCHANGED <<focus, tombs, blobTombs, touches, reader, ref>>

(* The queue takes the oldest changeset whose parents are settled; the log *)
(* and the refs read nothing it makes                                      *)
PickNext ==
    LET waiting == {i \in Nodes: row[i].state = "pending"}
    IN  IF waiting = {} \/ focus \in {"log", "ref"} THEN {} ELSE {Min(waiting)}

Derive ==
    \E i \in PickNext:
        /\ row' = [row EXCEPT ![i] = [state |-> "done", tainted |-> CollapseTaint(i)]]
        /\ skips' = [skips EXCEPT ![i] = SkipEntries(i)]
        /\ state' = [state EXCEPT ![i] = BlameState(i)]
        /\ touches' = IF Touched(i) THEN touches \cup {i} ELSE touches
        /\ UNCHANGED <<repo, reader, ref>>

Quarantine ==
    /\ Cardinality({i \in Nodes \ tombs: row[i].state = "poison"}) < MaxFailures
    /\ \E i \in PickNext:
         row' = [row EXCEPT ![i] = [state |-> "poison", tainted |-> FALSE]]
    /\ UNCHANGED <<repo, skips, state, touches, reader, ref>>

(* A redaction mark; a changeset's derive rows are poisoned with it *)
MarkChangeset ==
    /\ Marks < MaxMarks[focus]
    /\ \E i \in Nodes \ tombs:
         /\ tombs' = tombs \cup {i}
         /\ row' = [row EXCEPT ![i] = [state |-> "poison", tainted |-> FALSE]]
    /\ UNCHANGED <<focus, parents, gen, content, blobTombs, skips, state, touches, reader, ref>>

MarkBlob ==
    /\ Marks < MaxMarks[focus]
    /\ \E c \in ToSet(content) \ (blobTombs \cup {None}): blobTombs' = blobTombs \cup {c}
    /\ UNCHANGED <<focus, parents, gen, content, tombs, row, skips, state, touches, reader, ref>>

-----------------------------------------------------------------------------
(* merge_base.                                                             *)

(* merge_base_walk_seeded: the nodes that may win, which are the common    *)
(* ones of the highest generation; its queue order breaks ties             *)
MergeBaseWalkSeeded(sets, seeds, excluded) ==
    LET common == (UNION {Ancestors[i]: i \in sets}) \cap (UNION {Ancestors[i]: i \in seeds})
        named == common \ excluded
    IN  {i \in named: \A j \in named: gen[j] <= gen[i]}

(* graph_fetch: skip entries only off a row that is done and not tainted *)
GraphSkips(i) ==
    IF row[i].state = "done" /\ ~row[i].tainted THEN ToSet(skips[i]) ELSE {}

(* The climb of merge_base_skip: the longest pure jump that stays at or    *)
(* above the lower side, else the first parent; the other parents of every *)
(* node it stops at are seeds.                                             *)
JumpAnySpan(h, low) == {e \in GraphSkips(h): gen[e.target] >= low}

Jump(h, low) == {e \in GraphSkips(h): e.pure /\ gen[e.target] >= low}

ClimbStep(h, low) ==
    IF Jump(h, low) # {}
      THEN (CHOOSE e \in Jump(h, low): \A f \in Jump(h, low): f.hop <= e.hop).target
      ELSE Parent(h)

Climb(low) ==
    LET seeds[h \in Nodes] ==
            IF gen[h] <= low \/ Parent(h) = None
              THEN {h}
              ELSE ToSet(Tail(parents[h])) \cup seeds[ClimbStep(h, low)]
    IN  seeds

MergeBaseSkip(a, b) ==
    LET lo == IF gen[a] >= gen[b] THEN b ELSE a
        hi == IF gen[a] >= gen[b] THEN a ELSE b
    IN  MergeBaseWalkSeeded({lo}, Climb(gen[lo])[hi], tombs)

-----------------------------------------------------------------------------
(* blame: the file at one changeset.                                       *)

(* The walk goes up the first-parent chain to the first node that is       *)
(* tombstoned or not derived, to the add, or to the root.                  *)
BlameEnds(i) ==
    \/ i \in tombs \/ row[i].state # "done"
    \/ state[i] # None /\ state[i].parent = None
    \/ Parent(i) = None

BlameWalk[i \in Nodes] == {i} \cup (IF BlameEnds(i) THEN {} ELSE BlameWalk[Parent(i)])
BlameEnd[i \in Nodes] == IF BlameEnds(i) THEN i ELSE BlameEnd[Parent(i)]

(* derivation_pending: a visited node is still in the queue *)
BlamePending(at) ==
    LET end == BlameEnd[at] IN end \notin tombs /\ row[end].state = "pending"

(* The walk ended without the add: its last node is a boundary *)
BlameBoundary(at) ==
    LET end == BlameEnd[at]
    IN  end \in tombs \/ row[end].state = "poison" \/ state[end] = None \/ state[end].parent # None

(* The touched nodes, oldest first; a boundary that is tombstoned or       *)
(* poisoned is not looked at                                               *)
LookedAt(i) == i \notin tombs /\ row[i].state = "done" /\ state[i] # None
BlameNodes[i \in Nodes] ==
    (IF BlameEnds(i) THEN <<>> ELSE BlameNodes[Parent(i)])
        \o (IF LookedAt(i) THEN <<i>> ELSE <<>>)

(* The layers, oldest first: the boundary has the parent blob of the       *)
(* oldest touched node, or the final blob                                  *)
BlameLayers(at) ==
    LET nodes == BlameNodes[at]
        steps == [k \in DOMAIN nodes |-> [cs |-> nodes[k], blob |-> state[nodes[k]].blob]]
        base == [cs |-> BlameEnd[at],
                 blob |-> IF nodes = <<>> THEN content[at] ELSE state[Head(nodes)].parent]
    IN  IF BlameBoundary(at) THEN <<base>> \o steps ELSE steps

(* Any blob that a layer needs and that is tombstoned: 410 *)
BlameGone(at) ==
    at \in tombs \/ content[at] \in blobTombs
        \/ \E k \in DOMAIN BlameLayers(at): BlameLayers(at)[k].blob \in blobTombs

BlameAnswered(at) == content[at] # None /\ at \notin tombs /\ ~BlamePending(at)
                        /\ ~BlameGone(at)

(* degraded: a boundary, or a walked row with taint *)
BlameDegraded(at) ==
    \/ BlameBoundary(at)
    \/ \E i \in BlameWalk[at]: row[i].tainted

(* BlameAssembler: a line that is in the layer below keeps its owner, any  *)
(* other is the step's                                                     *)
BlameOwner(at, line) ==
    LET layers == BlameLayers(at)
        new == {k \in DOMAIN layers: /\ line \in layers[k].blob
                                     /\ k > 1 => line \notin layers[k - 1].blob}
    IN  layers[Max(new)].cs

(* The author of a tombstoned boundary is withheld *)
BlameAuthors(at) ==
    {BlameOwner(at, l): l \in content[at]} \
        (IF BlameEnd[at] \in tombs THEN {BlameEnd[at]} ELSE {})

-----------------------------------------------------------------------------
(* diff, file and the tree listing: the pointers they serve.               *)

UnlessRedacted(b) == IF b \in blobTombs THEN None ELSE b

Diff(a, b) ==
    IF a \in tombs \/ b \in tombs \/ content[a] = content[b] THEN {}
    ELSE {UnlessRedacted(content[a]), UnlessRedacted(content[b])}

FileAt(at) ==
    IF at \in tombs \/ content[at] \in blobTombs THEN {} ELSE {content[at]}

(* mask_tree_entries: of the file, its pointer; of the directory, its size *)
(* (which is the file's), unless redactions_dirty_dirs has it              *)
FileEntry(tree) == {UnlessRedacted(tree)}
DirEntry(tree) == IF tree \in blobTombs THEN {} ELSE {tree}

-----------------------------------------------------------------------------
(* Paging.  A client reads the log from a changeset, or the history of the *)
(* path, page by page; the cursor is the last entry of a page.             *)

(* log_chain: tombstoned nodes drop out, and are not counted *)
LogRows[i \in Nodes] ==
    (IF i \in tombs THEN <<>> ELSE <<i>>)
        \o (IF parents[i] = <<>> THEN <<>> ELSE LogRows[Head(parents[i])])

FirstOf(rows, n) == SubSeq(rows, 1, Min({n, Len(rows)}))
LogChain(from, n) == IF from = None THEN <<>> ELSE FirstOf(LogRows[from], n)

(* path_history_page: generation descending, id ascending, after a cursor *)
SortsBefore(i, j) == gen[i] > gen[j] \/ (gen[i] = gen[j] /\ i < j)

PathHistoryPage(after, n) ==
    LET hits == {i \in touches \ tombs: after # None => SortsBefore(after, i)}
        first(s) == CHOOSE i \in s: \A j \in s \ {i}: SortsBefore(i, j)
        page[k \in 0..n] ==
            IF k = 0 THEN <<>>
            ELSE LET rest == hits \ ToSet(page[k - 1])
                 IN  IF rest = {} THEN page[k - 1] ELSE Append(page[k - 1], first(rest))
    IN  page[n]

(* The 503 while anything of the repo is queued *)
PathPending == \E i \in Nodes: row[i].state = "pending"

(* derive_poison_touching_path *)
PoisonTouching == {i \in Nodes: row[i].state = "poison" /\ Touched(i)}

LogPage(after, n) ==
    IF focus = "paths" THEN PathHistoryPage(after, n)
    ELSE LogChain(IF after = None THEN reader.from ELSE Parent(after), n)

(* Every changeset that the whole answer has, were it read at once *)
Whole(from) ==
    IF focus = "paths" THEN {i \in Nodes: Touched(i)} ELSE Chain[from]

Ask ==
    /\ focus \in {"log", "paths"} /\ reader = None
    /\ \E from \in Nodes:
         reader' = [from |-> from, cursor |-> None, seen |-> <<>>, more |-> TRUE,
                    whole |-> Whole(from), poisoned |-> {}]
    /\ UNCHANGED <<repo, derived, ref>>

ReadPage ==
    /\ reader # None /\ reader.more
    /\ focus = "paths" => ~PathPending
    /\ LET rows == LogPage(reader.cursor, Limit + 1)
           served == FirstOf(rows, Limit)
       IN  reader' = [reader EXCEPT
                        !.seen = @ \o served,
                        !.more = Len(rows) > Limit,
                        !.cursor = IF Len(rows) > Limit THEN Last(served) ELSE @,
                        !.poisoned = @ \cup PoisonTouching]
    /\ UNCHANGED <<repo, derived, ref>>

-----------------------------------------------------------------------------
(* cas_ref: the tombstone gate, the fast-forward gate, the version.        *)

(* Mutant: any history in common passes for a fast-forward                 *)
RefRelated(old, new) == MergeBaseWalkSeeded({old}, {new}, {}) # {}

RefContains(old, new) == MergeBaseWalkSeeded({old}, {new}, {}) = {old}

CasRef ==
    /\ focus = "ref"
    /\ \E target \in Nodes \ tombs, expected \in 1..MaxVersion \cup {None}:
         \/ /\ ref = None /\ expected = None
            /\ ref' = [target |-> target, version |-> 1]
         \/ /\ ref # None /\ expected = ref.version
            /\ RefContains(ref.target, target)
            /\ ref.version < MaxVersion
            /\ ref' = [target |-> target, version |-> ref.version + 1]
    /\ UNCHANGED <<repo, derived, reader>>

Next ==
    \/ Create \/ Derive \/ Quarantine \/ MarkChangeset \/ MarkBlob
    \/ Ask \/ ReadPage \/ CasRef

Spec == Init /\ [][Next]_vars

-----------------------------------------------------------------------------
(* The skip lists never change the answer: whatever was derived, tainted   *)
(* or quarantined, merge-base names a best common ancestor, as the plain   *)
(* walk does, and never a tombstoned one (history.rs merge_base_skip).     *)
MergeBaseExact ==
    \A a \in Nodes: \A b \in 1..(a - 1):
        MergeBaseSkip(a, b) = MergeBaseWalkSeeded({a}, {b}, tombs)

(* The changeset whose edit brought the line into the file, along first    *)
(* parents                                                                 *)
Introducer(at, line) ==
    LET brought[i \in Nodes] ==
            IF ParentContent(i) = None \/ line \notin ParentContent(i)
              THEN i ELSE brought[Parent(i)]
    IN  brought[at]

(* A blame that is not flagged degraded names the changeset that brought   *)
(* each line; a degraded one errs only at its boundary, which has the      *)
(* line; no tombstoned author is named.                                    *)
BlameExact ==
    \A at \in Nodes: BlameAnswered(at) =>
        /\ \A l \in content[at]:
              LET o == BlameOwner(at, l) IN
              /\ o = Introducer(at, l) \/ (BlameDegraded(at) /\ o = BlameEnd[at])
              /\ content[o] # None /\ l \in content[o]
        /\ BlameAuthors(at) \cap tombs = {}

(* No read names a blob that is redacted, or tells its size.               *)
NamesNothingRedacted ==
    \A a \in Nodes: \A b \in 1..a:
        (Diff(a, b) \cup FileAt(a) \cup FileEntry(content[a]) \cup DirEntry(content[a]))
            \cap blobTombs = {}

(* What a client that paged to the end was served: nothing twice, and      *)
(* every changeset of the answer as it was when the client began, but for  *)
(* those redacted since and those the pages named as quarantined.          *)
PagesCover ==
    reader # None =>
        /\ IsInjective(reader.seen)
        /\ ~reader.more => reader.whole \ (tombs \cup reader.poisoned) \subseteq ToSet(reader.seen)

(* A ref only moves forward, to a changeset that is not redacted.          *)
RefAdvances ==
    [][ref # None /\ ref' # ref =>
          /\ ref.target \in Ancestors[ref'.target]
          /\ ref'.version = ref.version + 1
          /\ ref'.target \notin tombs]_vars
=============================================================================
