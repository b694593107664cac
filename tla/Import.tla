------------------------------- MODULE Import -------------------------------
(***************************************************************************)
(* naatre import (import.rs): the commits of a local git repository become *)
(* changesets of a repo, run after run, while the source grows and is      *)
(* rewritten, content is redacted, clients land on main and runs die.      *)
(*                                                                         *)
(* A git commit is its number and so is the changeset made from it: the    *)
(* changeset's id is a function of the commit's content.  A tree is a      *)
(* function from paths to what is there.  The text of a commit stands for  *)
(* its author and its message.                                             *)
(***************************************************************************)
EXTENDS Naturals, Sequences, FiniteSets, FiniteSetsExt, SequencesExt

CONSTANTS None, Native, Paths, Blobs,
          TextOf,     \* TextOf[i]: the text of the i-th commit, a sequence of characters
          Options,    \* the options of a run: [skip, sanitize]
          MaxCommits, \* bound on the commits of the source
          MaxRuns,    \* bound on the runs
          MaxMarks    \* bound on redactions

Link == "link"
(* The commits the source may get have a text; None, Native and Link are   *)
(* nothing else.                                                           *)
ImportAssumption ==
    /\ MaxCommits \in Nat /\ MaxRuns \in Nat
    /\ \A i \in 1..MaxCommits: TextOf[i] \in Seq(ToSet(TextOf[i]))
    /\ Options \subseteq [skip: BOOLEAN, sanitize: BOOLEAN]
    /\ None \notin Nat /\ Native \notin Nat /\ Native # None /\ Link # None

VARIABLES
    git,     \* git[i]: [parents, tree, text] of commit i of the source
    head,    \* the tip of the source's default branch, or None
    tombs,   \* tombstoned blobs of the repo
    csTombs, \* tombstoned changesets of the repo
    objects, \* blobs put in the CAS
    rows,    \* rows[i]: [gen, parents, changes, tree, text] of the changeset of commit i
    main,    \* a commit, Native once a client landed on it, or None
    run,     \* the run in progress, or None
    last,    \* how the last run that ended did, or None
    runs     \* the runs so far

vars == <<git, head, tombs, csTombs, objects, rows, main, run, last, runs>>
store == <<tombs, csTombs, objects, rows, main>>

(* An entry of a git tree: nothing, a file, or a kind naatre has not       *)
Trees == [Paths -> Blobs \cup {None, Link}]
Commits == DOMAIN git
Mapped == DOMAIN rows

TypeOK ==
    /\ head = None \/ head \in Commits
    /\ \A i \in Commits: ToSet(git[i].parents) \subseteq 1..(i - 1) /\ git[i].tree \in Trees
    /\ Mapped \subseteq Commits
    /\ main \in Mapped \cup {None, Native}
    /\ tombs \subseteq Blobs /\ csTombs \subseteq Commits /\ objects \subseteq Blobs
    /\ run = None \/ run.todo \subseteq Commits
    /\ runs \in 0..MaxRuns

Init ==
    /\ git = <<>> /\ head = None
    /\ tombs = {} /\ csTombs = {} /\ objects = {} /\ rows = <<>> /\ main = None
    /\ run = None /\ last = None /\ runs = 0

-----------------------------------------------------------------------------
(* The source.  A commit on top of the branch, beside it (a rewrite) or a  *)
(* branch reset to an older one.  A run reads by id what its head reaches, *)
(* so what the source does meanwhile it does for the next.                 *)
Commit ==
    /\ run = None
    /\ Len(git) < MaxCommits
    /\ \E ps \in UNION {[1..k -> Commits]: k \in 0..2}, t \in Trees:
         /\ IsInjective(ps)
         /\ git' = Append(git, [parents |-> ps, tree |-> t, text |-> TextOf[Len(git) + 1]])
    /\ head' = Len(git) + 1
    /\ UNCHANGED <<store, run, last, runs>>

Reset ==
    /\ run = None
    /\ head # None
    /\ head' \in Commits \ {head}
    /\ UNCHANGED <<git, store, run, last, runs>>

-----------------------------------------------------------------------------
(* Between runs: a redaction, and a client's land on main.                 *)
Mark ==
    /\ run = None
    /\ Cardinality(tombs) + Cardinality(csTombs) < MaxMarks
    /\ \/ /\ \E b \in objects \ tombs: tombs' = tombs \cup {b}
          /\ UNCHANGED csTombs
       \/ /\ \E i \in Mapped \ csTombs: csTombs' = csTombs \cup {i}
          /\ UNCHANGED tombs
    /\ UNCHANGED <<git, head, objects, rows, main, run, last, runs>>

Land ==
    /\ run = None /\ main \notin {None, Native}
    /\ main' = Native
    /\ UNCHANGED <<git, head, tombs, csTombs, objects, rows, run, last, runs>>

-----------------------------------------------------------------------------
(* What a run reads.                                                       *)

(* collect_ancestors: what is not mapped, not past what is *)
Reach[i \in Commits] ==
    IF i \in Mapped THEN {} ELSE {i} \cup UNION {Reach[p]: p \in ToSet(git[i].parents)}
collect_ancestors == Reach[head]

Ancestors[i \in Commits] == {i} \cup UNION {Ancestors[p]: p \in ToSet(git[i].parents)}
is_ancestor(i, j) == i \in Ancestors[j]

(* tree_diff: the changes that make one tree of another *)
Change(op, entry) == [op |-> op, entry |-> entry]
tree_diff(old, new) ==
    [p \in {q \in Paths: old[q] # new[q]} |->
        IF new[p] = None THEN Change("del", None)
        ELSE Change(IF old[p] = None THEN "add" ELSE "mod", new[p])]

EmptyTree == [p \in Paths |-> None]
FirstParentTree(i) ==
    IF git[i].parents = <<>> THEN EmptyTree ELSE git[Head(git[i].parents)].tree
ChangesOf(i) == tree_diff(FirstParentTree(i), git[i].tree)

(* prepare_commit's reasons: more than two parents, or the same one twice, *)
(* and what validate_entry refuses, of the changes alone                   *)
validate_entry(c) == c.entry # Link
Unsupported(i) ==
    \/ Len(git[i].parents) > 2 \/ ~IsInjective(git[i].parents)
    \/ \E p \in DOMAIN ChangesOf(i): ~validate_entry(ChangesOf(i)[p])

(* A parent that is neither mapped nor ready leaves the child without a    *)
(* base                                                                    *)
Ready[i \in Commits] ==
    ~Unsupported(i) /\ \A p \in ToSet(git[i].parents): p \in Mapped \/ Ready[p]

Gen[i \in Commits] ==
    IF i \in Mapped THEN rows[i].gen
    ELSE IF git[i].parents = <<>> THEN 0
    ELSE 1 + Max({Gen[p]: p \in ToSet(git[i].parents)})

(* The texts: an offending character is replaced, or escaped so that       *)
(* unescape_text_lossless finds it again                                   *)
Offender == "!"
Backslash == "\\"
offends_text_rule(x) == Offender \in ToSet(x)

(* Mutant: the backslashes of the source stay single                       *)
EscapeOffendersOnly(x) ==
    FlattenSeq([k \in DOMAIN x |->
        IF x[k] = Offender THEN <<Backslash, "u", "{", "7", "}">> ELSE <<x[k]>>])

escape_text_lossless(x) ==
    IF ~offends_text_rule(x) THEN x
    ELSE FlattenSeq([k \in DOMAIN x |->
            CASE x[k] = Backslash -> <<Backslash, Backslash>>
              [] x[k] = Offender  -> <<Backslash, "u", "{", "7", "}">>
              [] OTHER            -> <<x[k]>>])

unescape_text_lossless(x) ==
    LET un[k \in Nat \ {0}] ==
            IF k > Len(x) THEN <<>>
            ELSE IF x[k] # Backslash THEN <<x[k]>> \o un[k + 1]
            ELSE IF x[k + 1] = Backslash THEN <<Backslash>> \o un[k + 2]
            ELSE <<Offender>> \o un[k + 5]
    IN  un[1]

sanitize_pair(x) == [k \in DOMAIN x |-> IF x[k] = Offender THEN "?" ELSE x[k]]

Prepared(i, sanitize) ==
    [gen |-> Gen[i], parents |-> git[i].parents, changes |-> ChangesOf(i),
     tree |-> git[i].tree, escaped |-> sanitize /\ offends_text_rule(git[i].text),
     text |-> IF sanitize THEN escape_text_lossless(git[i].text)
                          ELSE sanitize_pair(git[i].text)]

-----------------------------------------------------------------------------
(* A run, under the data dir's flock.  It takes its commits parents first. *)

Ended(status, outcome, r) ==
    [status |-> status, main |-> outcome, imported |-> r.importable \ r.todo,
     skipped |-> r.skipped, head |-> r.head]

(* The scan writes nothing.  A run with nothing to import ends at once; so *)
(* does one whose source was rewritten, and, unless it skips, one that met *)
(* what it does not support                                                *)
ImportBegin ==
    /\ run = None /\ runs < MaxRuns /\ head # None
    /\ runs' = runs + 1
    /\ \E opts \in Options:
       LET batch == collect_ancestors
           importable == {i \in batch: Ready[i]}
           offending == {i \in batch: Unsupported(i)}
           r == [pc |-> "blobs", head |-> head, opts |-> opts,
                 importable |-> importable, todo |-> importable,
                 skipped |-> batch \ importable, main |-> main]
           nothing == [r EXCEPT !.importable = {}, !.todo = {}]
       IN  CASE batch = {} ->
                  run' = None /\ last' = Ended("ok", "unchanged", nothing)
             [] batch # {} /\ main \in Mapped /\ ~is_ancestor(main, head) ->
                  run' = None /\ last' = Ended("diverged", "unchanged", nothing)
             [] batch # {} /\ (main \in Mapped => is_ancestor(main, head))
                /\ offending # {} /\ ~opts.skip ->
                  run' = None /\ last' = Ended("aborted", "unchanged", nothing)
             [] OTHER -> run' = r /\ UNCHANGED last
    /\ UNCHANGED <<git, head, store>>

Files(i) == {git[i].tree[p]: p \in Paths} \ {None, Link}
ChangedFiles(i) == {ChangesOf(i)[p].entry: p \in DOMAIN ChangesOf(i)} \ {None}

(* import_commit up to its transaction: the blobs of the changes, then of  *)
(* the whole tree (build_tree_node), each past the tombstone boundary      *)
ImportBlobs ==
    /\ run # None /\ run.pc = "blobs" /\ run.todo # {}
    /\ LET i == Min(run.todo)
           blobs == ChangedFiles(i) \cup Files(i)
       IN  IF i \in csTombs \/ blobs \cap tombs # {}
           THEN /\ \E put \in SUBSET (blobs \ tombs): objects' = objects \cup put
                /\ run' = None
                /\ last' = Ended("redacted", "unchanged", run)
           ELSE /\ objects' = objects \cup blobs
                /\ run' = [run EXCEPT !.pc = "rows"]
                /\ UNCHANGED last
    /\ UNCHANGED <<git, head, tombs, csTombs, rows, main, runs>>

(* and its transaction: the changeset's rows, its trees, its git_map row   *)
ImportRows ==
    /\ run # None /\ run.pc = "rows"
    /\ LET i == Min(run.todo)
       IN  /\ rows' = [j \in Mapped \cup {i} |->
                          IF j = i THEN Prepared(i, run.opts.sanitize) ELSE rows[j]]
           /\ run' = [run EXCEPT !.pc = "blobs", !.todo = @ \ {i}]
    /\ UNCHANGED <<git, head, tombs, csTombs, objects, main, last, runs>>

(* The best of some commits: the highest generation, the source's head     *)
(* before another, the later in the batch before an earlier                *)
Best(s) ==
    LET top == {i \in s: \A j \in s: rows[j].gen <= rows[i].gen}
    IN  IF run.head \in top THEN run.head ELSE Max(top)
longest_chain_head == Best(run.importable)

(* descends_from goes by the changesets' parents *)
Descent[i \in Mapped] ==
    ToSet(rows[i].parents) \cup UNION {Descent[p]: p \in ToSet(rows[i].parents)}
Descending(tip) == {i \in run.importable: tip \in Descent[i]}

(* Mutant: the longest chain, whatever main is                            *)
chain_descending_fromAny(tip) == longest_chain_head

chain_descending_from(tip) == IF Descending(tip) = {} THEN tip ELSE Best(Descending(tip))

(* The one way main moves: under the flock its version cannot have changed *)
ref_move(target) == main' = target

(* graft_main and finish: main is set where there is none, refused where   *)
(* it is native, and moved to the best that descends from it               *)
GraftMain ==
    /\ run # None /\ run.pc = "blobs" /\ run.todo = {}
    /\ IF run.importable = {}
       THEN UNCHANGED main /\ last' = Ended("ok", "unchanged", run)
       ELSE CASE run.main = None ->
                   ref_move(longest_chain_head) /\ last' = Ended("ok", "set", run)
              [] run.main = Native ->
                   UNCHANGED main /\ last' = Ended("ok", "refused", run)
              [] OTHER ->
                   /\ ref_move(chain_descending_from(run.main))
                   /\ last' = Ended("ok", IF main' = main THEN "unchanged" ELSE "moved", run)
    /\ run' = None
    /\ UNCHANGED <<git, head, tombs, csTombs, objects, rows, runs>>

(* A run that is killed *)
ImportCrash ==
    /\ run # None
    /\ run' = None
    /\ last' = Ended("crashed", "unchanged", run)
    /\ UNCHANGED <<git, head, store, runs>>

Next ==
    \/ Commit \/ Reset \/ Mark \/ Land
    \/ ImportBegin \/ ImportBlobs \/ ImportRows \/ GraftMain \/ ImportCrash

Spec == Init /\ [][Next]_vars

-----------------------------------------------------------------------------
(* The import keeps the source's history: a changeset's parents are there, *)
(* its generation is theirs and one, what it names is in the CAS, nothing  *)
(* unsupported got into its tree though only the changes were validated,   *)
(* and an escaped text reads back as the source's                          *)
HistoryKept ==
    \A i \in Mapped:
        /\ ToSet(rows[i].parents) \subseteq Mapped
        /\ \A p \in ToSet(rows[i].parents): rows[p].gen < rows[i].gen
        /\ \A p \in Paths: rows[i].tree[p] \in objects \cup {None}
        /\ ~offends_text_rule(rows[i].text)
        /\ rows[i].escaped => unescape_text_lossless(rows[i].text) = git[i].text

(* A run that refuses what it does not support leaves no changeset behind, *)
(* and one that imported to the source's head, with main its own, leaves   *)
(* main there                                                              *)
RunsComplete ==
    last # None =>
        /\ last.status \in {"aborted", "diverged"} => last.imported = {}
        /\ last.main \in {"set", "moved"} /\ last.skipped = {}
           /\ main \in Mapped /\ run = None => main = last.head

(* The import moves main only forward, and never from a client's           *)
MainFastForwards ==
    [][GraftMain /\ main # None /\ main' # main =>
        main # Native /\ main \in Descent'[main']]_vars

(* README: a run that failed is resumable, and the next one takes main on  *)
(* from where it stopped.  So a run that ends well and skips nothing       *)
(* leaves main, if it is the import's, at the source's head or past it.    *)
ImportResumes ==
    last # None /\ last.status = "ok" /\ last.skipped = {} /\ main # Native =>
        main \in Mapped /\ last.head \in Ancestors[main]
=============================================================================
