------------------------------ MODULE MCRebase ------------------------------
(***************************************************************************)
(* Rebase on small repos: a file f, and d, which is a file or the          *)
(* directory of dx.                                                        *)
(***************************************************************************)
EXTENDS Rebase

CONSTANTS f, d, dx, w, x, y, z

MCPaths == {f, d, dx}
MCUnder == {<<d, dx>>}
MCBlobs == {w, x, y, z}

(* y and z are disjoint edits of x; w edits the lines of both.             *)
MCCleanMerges == {<<x, y, z>>, <<x, z, y>>}

On(p, c) == [NoChange EXCEPT ![p] = c]
FX == File(x, FALSE)
FY == File(y, FALSE)
FZ == File(z, FALSE)
FW == File(w, TRUE)

(* The add of a file that is there is accepted, though no rebase makes one.*)
MCEdits == { On(f, Change("mod", FY)), On(f, Change("mod", FZ)),
             On(f, Change("add", FW)), On(f, Change("del", None)),
             On(d, Change("add", FX)), On(dx, Change("add", FX)) }

Commit(parents, changes) ==
    [parents |-> parents, stamp |-> "import", changes |-> changes,
     reps |-> NoReps]

Root == Commit(<<>>, On(f, Change("add", FX)))
Tip  == Commit(<<Root>>, On(f, Change("mod", FY)))
Side == Commit(<<Root>>, On(dx, Change("add", FX)))
Join == Commit(<<Side, Root>>, On(f, Change("mod", FZ)))

RootRow == [gen |-> 0, tree |-> Apply(EmptyTree, Root.changes)]
TipRow  == [gen |-> 1, tree |-> Apply(RootRow.tree, Tip.changes)]
SideRow == [gen |-> 1, tree |-> Apply(RootRow.tree, Side.changes)]
JoinRow == [gen |-> 2, tree |-> Apply(SideRow.tree, Join.changes)]

(* A repo with two commits on main, and one with a branch off main that    *)
(* ends in a merge.                                                        *)
MCSeeds ==
    { [rows |-> [i \in {Root, Tip} |-> IF i = Root THEN RootRow ELSE TipRow],
       main |-> Tip],
      [rows |-> [i \in {Root, Side, Join} |->
                    CASE i = Root -> RootRow
                      [] i = Side -> SideRow
                      [] OTHER    -> JoinRow],
       main |-> Root] }
=============================================================================
