----------------------------- MODULE MCServing ------------------------------
(***************************************************************************)
(* Serving on small sets: a tree t1 with a blob and a tree t2 with none,   *)
(* two repos that share the blob, a changeset that names it in each and a  *)
(* child that inherits it, or a changeset and its child.                   *)
(***************************************************************************)
EXTENDS Serving, TLC

CONSTANTS x, t1, t2, ra, rb, ca, cb, cc, root, user, tok0, tok1, tok2

TwoRepos == {ra, rb}
OneRepo == {ra}
TwoTrees == {t1, t2}
TwoChangesets == {ca, cb}
OneBlob == {x}
FirstHasIt == (t1 :> {x}) @@ (t2 :> {})
ThreeChangesets == {ca, cb, cc}
TwoInFirst == (ca :> ra) @@ (cb :> rb) @@ (cc :> ra)
ThirdBelowFirst == (ca :> None) @@ (cb :> None) @@ (cc :> ca)
TwoName == (ca :> {x}) @@ (cb :> {x}) @@ (cc :> {})
AllHold == (ca :> {x}) @@ (cb :> {x}) @@ (cc :> {x})
SecondBelow == (t1 :> {t2}) @@ (t2 :> {})
SecondHasIt == (t1 :> {}) @@ (t2 :> {x})
OneFile == ra :> ra
ByParents == (ca :> 0) @@ (cb :> 1)
ChildOfFirst == (ca :> {}) @@ (cb :> {ca})

(* The history's bounds, by the surface looked at.                         *)
HistNodes == [f \in Foci |-> CASE f = "graph" -> 5 [] f \in {"blame", "paths"} -> 3 [] OTHER -> 4]
HistBranching == [f \in Foci |-> IF f \in {"graph", "ref"} THEN 2 ELSE 1]
HistContents == [f \in Foci |-> CASE f = "blame" -> {None, {1}, {1, 2}}
                                 [] f = "paths" -> {None, {1}}
                                 [] OTHER -> {None}]
HistMarks == [f \in Foci |-> IF f = "graph" THEN 0 ELSE 1]

(* What the proofs assume of the constants.                                *)
ASSUME
    /\ Red!RedactionAssumption /\ Queue!DeriveAssumption
    /\ Cache!CacheAssumption /\ Ticket!TicketsAssumption
    /\ Snap!SnapshotsAssumption /\ Acc!AccessAssumption /\ Fail!FailuresAssumption
    /\ Hist!HistoryAssumption

Symmetry == Permutations(Requests) \cup Permutations(Snaps)
=============================================================================
