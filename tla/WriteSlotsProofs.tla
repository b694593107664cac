-------------------------- MODULE WriteSlotsProofs ---------------------------
(***************************************************************************)
(* Exclusion by the write slots, for any number of writers, batches and    *)
(* repos and in both layouts.                                              *)
(***************************************************************************)
EXTENDS WriteSlots, TLAPS

USE DEF Actors, Slots

(* Who is inside a closure holds the slot that covers what it writes.  A   *)
(* batch holds the catalog from its listing on, so what it listed is still *)
(* the registry, and it runs with the slot of each repo it listed.         *)
WritersHold == \A w \in Writers: pc[w] = "in" => owner[SlotOf(repo[w])] = w
AdminsHold  == \A a \in Admins: pc[a] = "in" => owner[Cat] = a
BatchesHold == \A g \in Sweepers:
    pc[g] \in {"repos", "in"} => owner[Cat] = g /\ listed[g] = registry
BatchesFull == \A g \in Sweepers:
    split /\ pc[g] = "in" => \A r \in listed[g]: owner[r] = g

Guarded == WritersHold /\ AdminsHold /\ BatchesHold /\ BatchesFull

IInv == TypeOK /\ Guarded

(* The initial states: nobody is inside, every slot is free.               *)
LEMMA InitGuarded == Init => IInv
<1> SUFFICES ASSUME Init PROVE IInv
  OBVIOUS
<1>1. TypeOK
  <2>1. flag \in BOOLEAN /\ split \in BOOLEAN
    BY Zenon DEF Init
  <2>2. panics \in 0..MaxPanics
    BY SlotsAssumption DEF Init
  <2> QED BY <2>1, <2>2, SlotsAssumption DEF Init, TypeOK
<1>2. Guarded
  BY DEF Init, Guarded, WritersHold, AdminsHold, BatchesHold, BatchesFull
<1> QED BY <1>1, <1>2 DEF IInv

(* write_repo keeps the invariant: the slot is taken only when it is free. *)
LEMMA WriterStep ==
    ASSUME IInv, NEW w \in Writers, Write(w)
    PROVE  IInv'
<1> USE SlotsAssumption
    DEF IInv, TypeOK, Guarded, WritersHold, AdminsHold, BatchesHold, BatchesFull, Goto
<1>1. CASE Ask(w)
  BY <1>1 DEF Ask, SlotOf
<1>2. CASE CheckFlag(w)
  BY <1>2 DEF CheckFlag, SlotOf
<1>3. CASE LockSlot(w)
  <2>1. TypeOK'
    BY <1>3 DEF LockSlot, Take
  <2>2. WritersHold'
    <3> SUFFICES ASSUME NEW v \in Writers, (pc[v] = "in")'
                 PROVE  (owner[SlotOf(repo[v])] = v)'
      OBVIOUS
    <3>1. repo[w] \in Repos /\ SlotOf(repo[w]) \in Slots
      BY <1>3 DEF LockSlot, SlotOf
    <3>2. SlotOf(repo[v])' = SlotOf(repo[v])
      BY <1>3 DEF LockSlot, SlotOf
    <3>3. CASE v = w
      BY <1>3, <3>1, <3>2, <3>3 DEF LockSlot, Take
    <3>4. CASE v # w
      <4>1. pc[v] = "in" /\ owner[SlotOf(repo[v])] = v
        BY <1>3, <3>4 DEF LockSlot
      <4>2. \/ UNCHANGED owner
            \/ owner[SlotOf(repo[w])] = None /\ Take(w, SlotOf(repo[w]))
        BY <1>3 DEF LockSlot
      <4>3. SlotOf(repo[v]) \in Slots
        BY <4>1 DEF SlotOf
      <4>4. owner'[SlotOf(repo[v])] = v
        BY <3>1, <4>1, <4>2, <4>3 DEF Take
      <4> QED BY <3>2, <4>4
    <3> QED BY <3>3, <3>4
  <2>3. AdminsHold'
    BY <1>3 DEF LockSlot, Take
  <2>4. BatchesHold'
    BY <1>3 DEF LockSlot, Take
  <2>5. BatchesFull'
    BY <1>3 DEF LockSlot, Take, SlotOf
  <2> QED BY <2>1, <2>2, <2>3, <2>4, <2>5
<1>4. CASE Leave(w)
  BY <1>4 DEF Leave, Release, SlotOf
<1> QED BY <1>1, <1>2, <1>3, <1>4 DEF Write

(* write keeps it: the registry changes only under the catalog's slot,     *)
(* which no batch holds then.                                              *)
LEMMA AdminStep ==
    ASSUME IInv, NEW a \in Admins, Admin(a)
    PROVE  IInv'
<1> USE SlotsAssumption
    DEF IInv, TypeOK, Guarded, WritersHold, AdminsHold, BatchesHold, BatchesFull, Goto
<1>1. CASE LockCatalog(a)
  BY <1>1 DEF LockCatalog, Take, SlotOf
<1>2. CASE CreateRepo(a)
  BY <1>2 DEF CreateRepo, SlotOf
<1>3. CASE Leave(a)
  BY <1>3 DEF Leave, Release, SlotOf
<1> QED BY <1>1, <1>2, <1>3 DEF Admin

(* with_all keeps it: a batch is inside only once no listed slot is left.  *)
LEMMA SweeperStep ==
    ASSUME IInv, NEW g \in Sweepers, Sweep(g) \/ PanicBatch(g)
    PROVE  IInv'
<1> USE SlotsAssumption
    DEF IInv, TypeOK, Guarded, WritersHold, AdminsHold, BatchesHold, BatchesFull, Goto
<1>1. CASE Raise(g)
  BY <1>1 DEF Raise, SlotOf
<1>2. CASE LockFirst(g)
  <2>1. TypeOK'
    BY <1>2 DEF LockFirst, Take
  <2>2. WritersHold'
    BY <1>2 DEF LockFirst, Take, SlotOf
  <2>3. AdminsHold'
    BY <1>2 DEF LockFirst, Take
  <2>4. BatchesHold'
    BY <1>2 DEF LockFirst, Take
  <2>5. BatchesFull'
    <3>1. CASE owner[Cat] = None
      <4>1. \A r \in Repos: owner'[r] = owner[r]
        BY <1>2, <3>1 DEF LockFirst, Take
      <4> QED BY <1>2, <3>1, <4>1 DEF LockFirst
    <3>2. CASE owner[Cat] # None
      <4>1. UNCHANGED <<owner, listed, split>> /\ Goto(g, "lower")
        BY <1>2, <3>2 DEF LockFirst
      <4> QED BY <4>1
    <3> QED BY <3>1, <3>2
  <2> QED BY <2>1, <2>2, <2>3, <2>4, <2>5
<1>3. CASE OpenFails(g)
  BY <1>3 DEF OpenFails, Release, SlotOf
<1>4. CASE LockNext(g)
  <2>1. CASE Unlocked(g) = {}
    BY <1>4, <2>1 DEF LockNext, Unlocked, SlotOf
  <2>2. CASE Unlocked(g) # {}
    <3> DEFINE r == CHOOSE x \in Unlocked(g): \A y \in Unlocked(g): x <= y
    <3> HIDE DEF r
    <3>1. /\ pc[g] = "repos"
          /\ IF owner[r] = None THEN Take(g, r) /\ UNCHANGED pc
                               ELSE Release(g) /\ Goto(g, "lower")
          /\ UNCHANGED <<split, registry, flag, repo, listed, panics>>
      BY <1>4, <2>2 DEF LockNext, r
    <3>2. CASE owner[r] = None
      <4>1. TypeOK'
        BY <3>1, <3>2 DEF Take
      <4>2. WritersHold'
        BY <3>1, <3>2 DEF Take, SlotOf
      <4>3. AdminsHold'
        BY <3>1, <3>2 DEF Take
      <4>4. BatchesHold'
        BY <3>1, <3>2 DEF Take
      <4>5. BatchesFull'
        BY <3>1, <3>2 DEF Take, SlotOf
      <4> QED BY <4>1, <4>2, <4>3, <4>4, <4>5
    <3>3. CASE owner[r] # None
      <4>0. /\ Release(g) /\ Goto(g, "lower")
            /\ UNCHANGED <<split, registry, flag, repo, listed, panics>>
        BY <3>1, <3>3
      <4>1. TypeOK'
        BY <4>0 DEF Release
      <4>2. WritersHold'
        BY <4>0 DEF Release, SlotOf
      <4>3. AdminsHold'
        BY <4>0 DEF Release
      <4>4. BatchesHold'
        BY <4>0 DEF Release
      <4>5. BatchesFull'
        BY <4>0 DEF Release
      <4> QED BY <4>1, <4>2, <4>3, <4>4, <4>5
    <3> QED BY <3>2, <3>3
  <2> QED BY <2>1, <2>2
<1>5. CASE EndBatch(g)
  BY <1>5 DEF EndBatch, Release, SlotOf
<1>6. CASE Lower(g)
  BY <1>6 DEF Lower, SlotOf
<1>7. CASE PanicBatch(g)
  BY <1>7 DEF PanicBatch, Release, SlotOf
<1> QED BY <1>1, <1>2, <1>3, <1>4, <1>5, <1>6, <1>7 DEF Sweep

(* The invariant holds in every reachable state.                           *)
LEMMA Invariance == Spec => []IInv
<1>1. IInv /\ [Next]_vars => IInv'
  <2> SUFFICES ASSUME IInv, [Next]_vars PROVE IInv'
    OBVIOUS
  <2>1. CASE UNCHANGED vars
    BY <2>1 DEF vars, IInv, TypeOK, Guarded, WritersHold, AdminsHold,
                   BatchesHold, BatchesFull, SlotOf
  <2> QED BY <2>1, WriterStep, AdminStep, SweeperStep DEF Next
<1> QED BY InitGuarded, <1>1, PTL DEF Spec

(* The types of the slots' state, and a writer's repo is a registered one  *)
(* (state.rs write_repo).                                                  *)
THEOREM TypeCorrect == Spec => []TypeOK
  BY Invariance, PTL DEF IInv

(* A coordinated batch runs alone, however many tasks run batches and      *)
(* however many repos are created: a writer's repo is registered, the      *)
(* registry is what the batch listed, and it holds what it listed          *)
(* (router.rs with_all).                                                   *)
THEOREM BatchesRunAlone == Spec => []BatchAlone
<1>1. IInv => BatchAlone
  <2> SUFFICES ASSUME IInv, NEW g \in Sweepers, NEW a \in Actors,
                      pc[g] = "in", pc[a] = "in"
               PROVE  a = g
    BY DEF BatchAlone
  <2>1. CASE a \in Writers
    BY <2>1, SlotsAssumption DEF IInv, TypeOK, Guarded, WritersHold, BatchesHold,
                                   BatchesFull, SlotOf
  <2>2. CASE a \in Admins \cup Sweepers
    BY <2>2 DEF IInv, Guarded, AdminsHold, BatchesHold
  <2> QED BY <2>1, <2>2
<1> QED BY <1>1, Invariance, PTL

(* Two writers are never inside one repo (state.rs write_repo).            *)
THEOREM WritersExclude == Spec => []OneWriterPerRepo
<1>1. IInv => OneWriterPerRepo
  BY DEF IInv, Guarded, WritersHold, OneWriterPerRepo
<1> QED BY <1>1, Invariance, PTL
=============================================================================
