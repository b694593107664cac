---------------------------- MODULE MCWriteSlots -----------------------------
(***************************************************************************)
(* Two repos, two writers, a catalog writer, and the two background tasks  *)
(* that run coordinated batches (reachability GC and snapshot GC).         *)
(***************************************************************************)
EXTENDS WriteSlots
=============================================================================
