------------------------------ MODULE GcPaging -------------------------------
(***************************************************************************)
(* The changeset half of a GC pass, batch by batch (gc.rs `gc_pass`, the   *)
(* gc_pending statements of db.rs): the ledger in the order its page is    *)
(* read, the loop that collects one page after the other, and the rows a   *)
(* crash strands.                                                          *)
(*                                                                         *)
(* Ids are numbers, since the page is ordered by id.  A row's first_ns is  *)
(* its place in the ledger; it is past grace once a pass starts late       *)
(* enough.  Passes recur for ever.                                         *)
(***************************************************************************)
EXTENDS Naturals, Sequences, SequencesExt

CONSTANTS Changesets,   \* the ids, a set of numbers
          Parent,       \* Parent[c], or 0
          BatchRows,    \* GC_BATCH_ROWS
          MaxCrashes    \* bound on passes that are cut short

ASSUME PagingAssumption ==
    /\ Changesets \subseteq Nat \ {0}
    /\ Parent \in [Changesets -> Changesets \cup {0}]
    /\ BatchRows \in Nat \ {0}
    /\ MaxCrashes \in Nat

VARIABLES
    fresh,    \* ids not created yet: a re-POST has a new timestamp, a new id
    cs,       \* the changesets that have rows
    refs,     \* those a ref or a land row names
    ledger,   \* the cs rows of gc_pending, in page order
    past,     \* the ids whose row is past the grace of the running pass
    mark,     \* what the running pass found reachable
    pc,
    batch,    \* the changesets whose rows the open batch has deleted
    full,     \* the open batch read a full page
    crashes

vars == <<fresh, cs, refs, ledger, past, mark, pc, batch, full, crashes>>

(* The types of the state; a ledger lists an id once *)
TypeOK ==
    /\ fresh \subseteq Changesets
    /\ cs \subseteq Changesets \ fresh
    /\ refs \subseteq Changesets
    /\ ledger \in Seq(Changesets)
    /\ IsInjective(ledger)
    /\ past \subseteq Changesets
    /\ mark \subseteq Changesets
    /\ pc \in {"idle", "ledger", "page", "finish"}
    /\ batch \subseteq Changesets \ cs
    /\ full \in BOOLEAN
    /\ crashes \in 0..MaxCrashes

Init ==
    /\ fresh = Changesets
    /\ cs = {}
    /\ refs = {}
    /\ ledger = <<>>
    /\ past = {}
    /\ mark = {}
    /\ pc = "idle"
    /\ batch = {}
    /\ full = FALSE
    /\ crashes = 0

-----------------------------------------------------------------------------
(* Clients.  They wait while a batch holds the slots.                      *)

Create(c) ==
    /\ pc # "finish"
    /\ c \in fresh
    /\ Parent[c] \in cs \cup {0}
    /\ fresh' = fresh \ {c}
    /\ cs' = cs \cup {c}
    /\ UNCHANGED <<refs, ledger, past, mark, pc, batch, full, crashes>>

Refer(c) ==
    /\ pc # "finish"
    /\ c \in cs
    /\ refs' = refs \cup {c}
    /\ UNCHANGED <<fresh, cs, ledger, past, mark, pc, batch, full, crashes>>

-----------------------------------------------------------------------------
ParentClosed(S) == \A c \in S \cap cs: Parent[c] # 0 => Parent[c] \in S
Reachable == {c \in Changesets:
                \A S \in SUBSET Changesets: refs \subseteq S /\ ParentClosed(S) => c \in S}

(* Steps 1 and 2 of gc_pass; the pass starts before the grace of the new   *)
(* rows is over, or after it *)
StartPass(rows) ==
    /\ pc = "idle"
    /\ past' = rows
    /\ mark' = Reachable
    /\ pc' = "ledger"
    /\ UNCHANGED <<fresh, cs, refs, ledger, batch, full, crashes>>

StartSoon == StartPass(past)
StartLate == StartPass(ToSet(ledger))

Without(s, S) == SelectSeq(s, LAMBDA c: c \notin S)

(* Mutant: a row that is there is inserted again *)
(* INSERT OR IGNORE: the rows that are new keep the time of this pass *)
Unseen == cs \ (mark \cup ToSet(ledger))

(* Step 3: first-seen rows for the unreachable, repair for the reachable *)
UpdateLedger ==
    /\ pc = "ledger"
    /\ ledger' = Without(ledger \o SetToSortSeq(Unseen, <), mark)
    /\ past' = past \ mark
    /\ mark' = {}
    /\ pc' = "page"
    /\ UNCHANGED <<fresh, cs, refs, batch, full, crashes>>

(* gc_cs_candidates: ORDER BY first_ns ASC, id ASC LIMIT GC_BATCH_ROWS *)
Page == LET rows == SelectSeq(ledger, LAMBDA c: c \in past)
        IN  SubSeq(rows, 1, IF Len(rows) < BatchRows THEN Len(rows) ELSE BatchRows)

(* Mutant: parents are collected before their children *)
ParentsFirst(S) == {c \in S \cap cs: /\ c \notin refs
                                     /\ Parent[c] \notin cs}

(* gc_cs_collectible_probe: no ref, no land row, no child row *)
Collectible(S) == {c \in S \cap cs: /\ c \notin refs
                                    /\ \A d \in cs: Parent[d] # c}

(* Mutant: rows without a changeset stay in the ledger *)
(* The phantom reap: candidates that no repo has *)
Phantoms(S) == S \ cs

(* One batch: the page is read, its phantoms are reaped, the repo rows of  *)
(* what may be collected go.  A batch that finds nothing ends the phase.   *)
CollectPage ==
    LET page == ToSet(Page)
        ghosts == Phantoms(page)
        found == Collectible(page)
    IN  /\ pc = "page"
        /\ ledger' = Without(ledger, ghosts)
        /\ past' = past \ ghosts
        /\ cs' = cs \ found
        /\ batch' = found
        /\ full' = (found # {} /\ Len(Page) = BatchRows)
        /\ pc' = IF found = {} THEN "idle" ELSE "finish"
        /\ UNCHANGED <<fresh, refs, mark, crashes>>

(* ... and then the ledger rows.  Only a full page asks for another batch. *)
FinishBatch ==
    /\ pc = "finish"
    /\ ledger' = Without(ledger, batch)
    /\ past' = past \ batch
    /\ batch' = {}
    /\ pc' = IF full THEN "page" ELSE "idle"
    /\ full' = FALSE
    /\ UNCHANGED <<fresh, cs, refs, mark, crashes>>

(* A crash or an error: the slots are free again, the tables stay *)
Cut ==
    /\ pc # "idle"
    /\ crashes < MaxCrashes
    /\ crashes' = crashes + 1
    /\ pc' = "idle"
    /\ mark' = {}
    /\ batch' = {}
    /\ full' = FALSE
    /\ UNCHANGED <<fresh, cs, refs, ledger, past>>

Next == \/ \E c \in Changesets: Create(c) \/ Refer(c)
        \/ StartSoon \/ StartLate
        \/ UpdateLedger \/ CollectPage \/ FinishBatch
        \/ Cut

Spec == Init /\ [][Next]_vars

(* serve runs a pass at every tick of its interval for ever, a pass that   *)
(* is not cut runs to its end, and the clock leaves every stamp behind.    *)
FairSpec == /\ Spec
            /\ WF_vars(UpdateLedger \/ CollectPage \/ FinishBatch)
            /\ SF_vars(StartLate)

-----------------------------------------------------------------------------
(* Every changeset that stays unreachable is collected: gc.rs ends a phase *)
(* on a batch that collected nothing because "nothing collectible is       *)
(* skipped that that pass would not re-select".                            *)
GarbageCollected == \A c \in Changesets: []<>(c \notin cs \/ c \in Reachable)

(* The rows of a whole page, the oldest ones of the ledger, are parents of *)
(* changesets behind them: the page is cut before it is looked at.         *)
IsParent(c) == c \in cs /\ \E d \in cs: Parent[d] = c
HeadStalled ==
    Len(ledger) >= BatchRows /\ \A k \in 1..BatchRows: IsParent(ledger[k])

(* What does hold: it is collected, unless such a page stands before it.   *)
GarbageCollectedUnlessStalled ==
    \A c \in Changesets: []<>(c \notin cs \/ c \in Reachable \/ HeadStalled)

(* The ledger rows a crash strands do not stay: again and again every row  *)
(* names a changeset (gc.rs, the phantom reap).                            *)
PhantomsReaped == []<>(pc # "finish" /\ ToSet(ledger) \subseteq cs)
=============================================================================
