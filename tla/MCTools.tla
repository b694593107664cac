------------------------------ MODULE MCTools ------------------------------
(***************************************************************************)
(* Tools on small sets.                                                    *)
(***************************************************************************)
EXTENDS Tools, MCRebase, TLC

CONSTANTS a, b, m, repo1

-----------------------------------------------------------------------------
(* The working copy: two directories of one file each, under different or  *)
(* equal names.  Four plans, as the verbs interfere: the ones that follow  *)
(* main, the land of a commit that has to be rebased, the ones that change *)
(* the cone, and the ones that rebuild.                                    *)

Apart == {<<1, 1>>, <<2, 2>>}
Twins == {<<1, 1>>, <<2, 1>>}

Following == [verbs |-> {"sync", "commit", "land"}, cones |-> {{}}, hist |-> 3, edits |-> 1,
              crashes |-> 1, marks |-> 0, runs |-> 3]
Landing == [verbs |-> {"commit", "land"}, cones |-> {{}}, hist |-> 4, edits |-> 1,
            crashes |-> 1, marks |-> 0, runs |-> 2]
Coning == [verbs |-> {"sync", "sparse", "resolve"}, cones |-> {{1, 2}}, hist |-> 2,
           edits |-> 1, crashes |-> 1, marks |-> 1, runs |-> 3]
Rebuilding == [verbs |-> {"sync", "snapshot", "restore", "doctor"}, cones |-> {{}}, hist |-> 2,
               edits |-> 1, crashes |-> 1, marks |-> 0, runs |-> 4]

EveryPlan == {Following, Landing, Coning, Rebuilding}
CleanPlan == {[Following EXCEPT !.edits = 0, !.crashes = 0]}

CheckoutContents == {a, m}
RenderedMarkers == {m}
FirstContents == {a}

-----------------------------------------------------------------------------
(* The import: three commits, whose texts have an offender, a backslash,   *)
(* or both.                                                                *)

OneFile == {f}
OneBlob == {a}
Texts == << <<"\\", "!">>, <<"\\", "x">>, <<"!", "\\", "!">> >>
AllOrNothing == {[skip |-> v, sanitize |-> v]: v \in BOOLEAN}

-----------------------------------------------------------------------------
(* Backup and restore: the backends and layouts that differ, and targets   *)
(* that are empty or hold a store, with the sidecars of one not closed.    *)

EmptyTarget == [root |-> FALSE, db |-> None, catalog |-> None, wal |-> FALSE,
                catalogWal |-> FALSE, repos |-> [q \in {repo1} |-> None], objects |-> {},
                schema |-> None]
Store(meta, blob, layout, newer) ==
    [meta |-> meta, blob |-> blob, layout |-> layout, newer |-> newer]

OneRepo == {repo1}
TwoObjects == {a, b}
Stores ==
    { Store("sqlite", "fs", "single", TRUE), Store("sqlite", "fs", "single", FALSE),
      Store("sqlite", "fs", "split", FALSE), Store("postgres", "s3", "single", FALSE),
      Store("postgres", "fs", "single", FALSE) }
DataDirs ==
    { EmptyTarget,
      [EmptyTarget EXCEPT !.root = TRUE, !.db = "old", !.wal = TRUE, !.objects = {b}],
      [EmptyTarget EXCEPT !.root = TRUE, !.catalog = "old", !.catalogWal = TRUE,
                          !.repos[repo1] = "old"],
      [EmptyTarget EXCEPT !.schema = "old"] }

(* What the proofs assume of the constants.                                *)
ASSUME
    /\ Imp!ImportAssumption /\ Bak!BackupAssumption /\ Ado!AdoptAssumption
    /\ Copy!CopyAssumption
=============================================================================
