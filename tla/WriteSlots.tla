----------------------------- MODULE WriteSlots ------------------------------
(***************************************************************************)
(* The write slots (router.rs, state.rs `write`, `write_repo`,             *)
(* `write_all`).                                                           *)
(*                                                                         *)
(* The catalog and, in the split layout, every repo have one slot.  A slot *)
(* is tried, never waited for.  A writer of a repo takes the repo's slot,  *)
(* a writer of the catalog takes the catalog's, and a coordinated batch    *)
(* (a GC batch, a snapshot GC batch) takes them all, one after the other,  *)
(* under a flag that turns new repo writers away.  In the single layout    *)
(* the catalog's slot stands for every repo's.  A panic releases the slots *)
(* of its closure and nothing else.                                        *)
(***************************************************************************)
EXTENDS Naturals

CONSTANTS Writers,    \* requests that write one repo
          Admins,     \* requests that write the catalog, creating repos
          Sweepers,   \* the background tasks that run coordinated batches
          Repos,      \* repo ids, numbers
          Cat,        \* the catalog's slot
          None,
          MaxPanics   \* bound on panics

Actors == Writers \cup Admins \cup Sweepers
Slots  == Repos \cup {Cat}

ASSUME SlotsAssumption ==
    /\ Repos \subseteq Nat
    /\ Cat \notin Repos
    /\ None \notin Actors \cup Slots
    /\ Writers \cap Admins = {}
    /\ Sweepers \cap (Writers \cup Admins) = {}
    /\ MaxPanics \in Nat

VARIABLES
    split,      \* TRUE: the db-per-repo layout
    registry,   \* the repos the catalog lists
    owner,      \* owner[s]: who holds slot s
    flag,       \* sweep_holding
    pc,         \* where an actor is
    repo,       \* repo[w]: the repo writer w resolved
    listed,     \* listed[g]: the repos batch g has to lock
    panics

vars == <<split, registry, owner, flag, pc, repo, listed, panics>>

TypeOK ==
    /\ split \in BOOLEAN
    /\ registry \subseteq Repos
    /\ owner \in [Slots -> Actors \cup {None}]
    /\ flag \in BOOLEAN
    /\ pc \in [Actors -> {"idle", "asked", "locking", "in", "cat", "repos", "lower"}]
    /\ repo \in [Writers -> Repos \cup {None}]
    /\ listed \in [Sweepers -> SUBSET Repos]
    /\ panics \in 0..MaxPanics
    /\ \A w \in Writers: pc[w] # "idle" => repo[w] \in registry

Init ==
    /\ split \in BOOLEAN
    /\ registry \in SUBSET Repos
    /\ owner = [s \in Slots |-> None]
    /\ flag = FALSE
    /\ pc = [a \in Actors |-> "idle"]
    /\ repo = [w \in Writers |-> None]
    /\ listed = [g \in Sweepers |-> {}]
    /\ panics = 0

Goto(a, l) == pc' = [pc EXCEPT ![a] = l]
Take(a, s) == owner' = [owner EXCEPT ![s] = a]
Release(a) == owner' = [s \in Slots |-> IF owner[s] = a THEN None ELSE owner[s]]

-----------------------------------------------------------------------------
(* write_repo.                                                             *)

(* Mutant: the repo is not looked up *)
AskUnresolved(w) ==
    /\ pc[w] = "idle"
    /\ \E r \in Repos: repo' = [repo EXCEPT ![w] = r]
    /\ Goto(w, "asked")
    /\ UNCHANGED <<split, registry, owner, flag, listed, panics>>

(* The repo is resolved on the read pool, before the closure runs *)
Ask(w) ==
    /\ pc[w] = "idle"
    /\ \E r \in registry: repo' = [repo EXCEPT ![w] = r]
    /\ Goto(w, "asked")
    /\ UNCHANGED <<split, registry, owner, flag, listed, panics>>

(* A batch in flight is a refusal up front *)
CheckFlag(w) ==
    /\ pc[w] = "asked"
    /\ Goto(w, IF split /\ flag THEN "idle" ELSE "locking")
    /\ UNCHANGED <<split, registry, owner, flag, repo, listed, panics>>

SlotOf(r) == IF split THEN r ELSE Cat

(* Mutant: a busy slot is taken over *)
LockAnyway(w) ==
    /\ pc[w] = "locking"
    /\ Take(w, SlotOf(repo[w]))
    /\ Goto(w, "in")
    /\ UNCHANGED <<split, registry, flag, repo, listed, panics>>

(* try_lock: a busy slot is an answer, never a wait, and so is a repo file *)
(* that does not open                                                      *)
LockSlot(w) ==
    /\ pc[w] = "locking"
    /\ \/ /\ owner[SlotOf(repo[w])] = None
          /\ Take(w, SlotOf(repo[w]))
          /\ Goto(w, "in")
       \/ /\ split \/ owner[SlotOf(repo[w])] # None
          /\ Goto(w, "idle")
          /\ UNCHANGED owner
    /\ UNCHANGED <<split, registry, flag, repo, listed, panics>>

-----------------------------------------------------------------------------
(* write, the catalog's slot.                                              *)

LockCatalog(a) ==
    /\ pc[a] = "idle"
    /\ owner[Cat] = None
    /\ Take(a, Cat)
    /\ Goto(a, "in")
    /\ UNCHANGED <<split, registry, flag, repo, listed, panics>>

(* Mutant: a repo is registered outside the slot *)
CreateRepoUnlocked(a) ==
    /\ pc[a] = "idle"
    /\ \E r \in Repos: registry' = registry \cup {r}
    /\ UNCHANGED <<split, owner, flag, pc, repo, listed, panics>>

(* A new repo is registered in a write of the catalog *)
CreateRepo(a) ==
    /\ pc[a] = "in"
    /\ \E r \in Repos: registry' = registry \cup {r}
    /\ UNCHANGED <<split, owner, flag, pc, repo, listed, panics>>

(* The end of either closure, by return or by panic *)
Leave(a) ==
    /\ pc[a] = "in"
    /\ Release(a)
    /\ Goto(a, "idle")
    /\ UNCHANGED <<split, registry, flag, repo, listed, panics>>

-----------------------------------------------------------------------------
(* with_all.                                                               *)

(* The split layout raises the flag before it tries a slot *)
Raise(g) ==
    /\ pc[g] = "idle"
    /\ flag' = (split \/ flag)
    /\ Goto(g, "cat")
    /\ UNCHANGED <<split, registry, owner, repo, listed, panics>>

(* Mutant: a busy catalog returns before the flag is lowered *)
LockFirstOrReturn(g) ==
    /\ pc[g] = "cat"
    /\ IF owner[Cat] = None
         THEN /\ Take(g, Cat)
              /\ listed' = [listed EXCEPT ![g] = registry]
              /\ Goto(g, IF split THEN "repos" ELSE "in")
         ELSE /\ Goto(g, "idle")
              /\ UNCHANGED <<owner, listed>>
    /\ UNCHANGED <<split, registry, flag, repo, panics>>

(* The catalog's slot first; under it, the registry is listed *)
LockFirst(g) ==
    /\ pc[g] = "cat"
    /\ IF owner[Cat] = None
         THEN /\ Take(g, Cat)
              /\ listed' = [listed EXCEPT ![g] = registry]
              /\ Goto(g, IF split THEN "repos" ELSE "in")
         ELSE /\ Goto(g, "lower")
              /\ UNCHANGED <<owner, listed>>
    /\ UNCHANGED <<split, registry, flag, repo, panics>>

(* The listing fails, or a repo file does not open: no repo slot is held yet *)
OpenFails(g) ==
    /\ pc[g] = "repos"
    /\ \A r \in Repos: owner[r] # g
    /\ Release(g)
    /\ Goto(g, "lower")
    /\ UNCHANGED <<split, registry, flag, repo, listed, panics>>

Unlocked(g) == {r \in listed[g]: owner[r] # g}

(* Then the repos, in ascending order; one that is busy releases them all *)
LockNext(g) ==
    /\ pc[g] = "repos"
    /\ IF Unlocked(g) = {}
         THEN Goto(g, "in") /\ UNCHANGED owner
         ELSE LET r == CHOOSE x \in Unlocked(g): \A y \in Unlocked(g): x <= y
              IN  IF owner[r] = None
                    THEN Take(g, r) /\ UNCHANGED pc
                    ELSE Release(g) /\ Goto(g, "lower")
    /\ UNCHANGED <<split, registry, flag, repo, listed, panics>>

(* The batch is over and its guards drop *)
EndBatch(g) ==
    /\ pc[g] = "in"
    /\ Release(g)
    /\ Goto(g, "lower")
    /\ UNCHANGED <<split, registry, flag, repo, listed, panics>>

(* The flag is lowered last, whatever came of the batch *)
Lower(g) ==
    /\ pc[g] = "lower"
    /\ flag' = (flag /\ ~split)
    /\ Goto(g, "idle")
    /\ UNCHANGED <<split, registry, owner, repo, listed, panics>>

(* A panic unwinds past the store of the flag *)
PanicBatch(g) ==
    /\ pc[g] = "in"
    /\ panics < MaxPanics
    /\ panics' = panics + 1
    /\ Release(g)
    /\ Goto(g, "idle")
    /\ UNCHANGED <<split, registry, flag, repo, listed>>

Write(w)  == Ask(w) \/ CheckFlag(w) \/ LockSlot(w) \/ Leave(w)
Admin(a)  == LockCatalog(a) \/ CreateRepo(a) \/ Leave(a)
Sweep(g)  == Raise(g) \/ LockFirst(g) \/ OpenFails(g) \/ LockNext(g) \/ EndBatch(g) \/ Lower(g)

Next == \/ \E w \in Writers: Write(w)
        \/ \E a \in Admins: Admin(a)
        \/ \E g \in Sweepers: Sweep(g) \/ PanicBatch(g)

Spec == Init /\ [][Next]_vars

(* The background tasks tick for ever and their closures end *)
FairSpec == Spec /\ \A g \in Sweepers: WF_vars(Sweep(g))

-----------------------------------------------------------------------------
(* While a coordinated batch runs, nobody else writes: no writer of a repo *)
(* (old or just registered), none of the catalog, and no other batch.  The *)
(* re-verification and the deletes of a GC batch are atomic because of     *)
(* this (router.rs with_all, gc.rs).                                       *)
BatchAlone ==
    \A g \in Sweepers, a \in Actors: pc[g] = "in" /\ pc[a] = "in" => a = g

(* A repo has one writer at a time, in both layouts (state.rs write_repo). *)
OneWriterPerRepo ==
    \A v, w \in Writers: pc[v] = "in" /\ pc[w] = "in" /\ repo[v] = repo[w] => v = w

(* The flag does not stay up: neither two overlapping batches nor a panic  *)
(* inside one refuse the writers for ever (router.rs sweep_holding).       *)
FlagLowered == []<>(~flag)
=============================================================================
