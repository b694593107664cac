----------------------------- MODULE MCGcSweep ------------------------------
(***************************************************************************)
(* A chain of two changesets: the child keeps its parent's blob in its     *)
(* tree and adds one of its own.                                           *)
(***************************************************************************)
EXTENDS GcSweep

CONSTANTS b1, b2, c1, c2

ChainParent  == [c \in Changesets |-> IF c = c2 THEN c1 ELSE None]
ChainChanges == [c \in Changesets |-> IF c = c2 THEN {b2} ELSE {b1}]
ChainTree    == [c \in Changesets |-> IF c = c2 THEN {b1, b2} ELSE {b1}]
=============================================================================
