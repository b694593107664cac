------------------------------ MODULE LandJoin ------------------------------
(***************************************************************************)
(* The land route and its in-flight join registry                          *)
(* (routes/land.rs, land_join.rs, land.rs `execute`/`settle`/`replay`).    *)
(*                                                                         *)
(* A request for a key that no one is landing LEADS: it registers an       *)
(* entry, resolves the repo, and hands the write to the blocking pool,     *)
(* where the closure takes the repo's write slot or answers busy, runs the *)
(* land in one transaction and commits.  A request that finds an entry     *)
(* JOINS it and waits for the leader's outcome.  The handler future may be *)
(* dropped at any await (the request timeout, a lost connection): the      *)
(* guard's Drop then fails the joiners, but a write that was already       *)
(* handed over runs on, detached, and may still commit.  A panic in the    *)
(* closure and a crash of the process are steps of their own.              *)
(*                                                                         *)
(* The rebase itself is a choice here: it moves main, finds the head       *)
(* contained, or refuses.  Main is its version number.                     *)
(***************************************************************************)
EXTENDS Naturals, FiniteSets

CONSTANTS Requests, Keys, Heads, None,
          Other,        \* any other writer of the repo, or a GC batch
          MaxCrashes    \* bound on process crashes

ASSUME LandJoinAssumption ==
    /\ MaxCrashes \in Nat
    /\ None \notin Requests
    /\ None \notin Heads
    /\ None \notin [key: Keys, head: Heads]
    /\ IsFiniteSet(Keys)
    /\ Other \notin Requests \cup {None}

(* The recorded result of a settled land: the version of main it reports   *)
(* and whether it moved main there (a contained head does not).  Both      *)
(* settled states of a row, `done` and `conflicted`, replay alike.         *)
Results == [landed: Nat, moved: BOOLEAN]

VARIABLES
    \* durable
    lands,      \* lands[k]: the settled row of key k, or None
    main,       \* the version of refs/main
    split,      \* TRUE: the db-per-repo layout (audit row after the commit)
    audit,      \* audit[k]: number of `land` audit rows for key k
    \* volatile
    registry,   \* registry[k]: the leader whose entry is registered, or None
    chan,       \* chan[r]: the outcome published on the entry r leads
    slot,       \* the holder of the repo's write slot
    task,       \* task[r]: the blocking write closure of r
    out,        \* out[r]: what r's closure returned
    pc,         \* pc[r]: where r's handler is
    joined,     \* joined[r]: the leader r waits for
    crashes,
    \* the outside world
    ask,        \* ask[r]: the key and head r asked for
    answer      \* answer[r]: what r was answered

durable == <<lands, main, split, audit>>
vars == <<lands, main, split, audit, registry, chan, slot, task, out, pc, joined,
          crashes, ask, answer>>

Abstract == INSTANCE SettleOnce WITH settled <- lands

Outcome == Abstract!Outcome
Done(res) == Abstract!Done(res)
SettledAs(h) == Abstract!SettledAs(h)
Failed == Abstract!Failed

ASSUME NoneAssumption ==
    /\ None \notin Results
    /\ None \notin [head: Heads, res: Results]
    /\ None \notin Outcome

Leading == {"resolving", "writing", "sent"}
Open    == {"resolving", "writing", "sent", "dropping", "joined", "replaying"}
PCs     == {"new", "over"} \cup Open
TaskStates == {"none", "queued", "txn", "committed", "over"}

(* The types of the state, and the life of a request: it has asked once it *)
(* is not new, and it is over exactly when it was answered, once.          *)
TypeOK ==
    /\ lands \in [Keys -> [head: Heads, res: Results] \cup {None}]
    /\ main \in Nat
    /\ split \in BOOLEAN
    /\ audit \in [Keys -> Nat]
    /\ registry \in [Keys -> Requests \cup {None}]
    /\ chan \in [Requests -> Outcome \cup {None}]
    /\ slot \in Requests \cup {Other, None}
    /\ task \in [Requests -> TaskStates]
    /\ out \in [Requests -> Outcome \cup {None}]
    /\ pc \in [Requests -> PCs]
    /\ joined \in [Requests -> Requests \cup {None}]
    /\ crashes \in 0..MaxCrashes
    /\ ask \in [Requests -> [key: Keys, head: Heads] \cup {None}]
    /\ answer \in [Requests -> Outcome \cup {None}]
    /\ \A r \in Requests: /\ (pc[r] = "new") <=> (ask[r] = None)
                          /\ (pc[r] = "over") <=> (answer[r] # None)

Init ==
    /\ lands = [k \in Keys |-> None]
    /\ main = 0
    /\ split \in BOOLEAN
    /\ audit = [k \in Keys |-> 0]
    /\ registry = [k \in Keys |-> None]
    /\ chan = [r \in Requests |-> None]
    /\ slot = None
    /\ task = [r \in Requests |-> "none"]
    /\ out = [r \in Requests |-> None]
    /\ pc = [r \in Requests |-> "new"]
    /\ joined = [r \in Requests |-> None]
    /\ crashes = 0
    /\ ask = [r \in Requests |-> None]
    /\ answer = [r \in Requests |-> None]

-----------------------------------------------------------------------------
(* The handler, up to the write.                                           *)

(* LandJoins::begin: check and insert are one step under the registry mutex *)
Begin(r) ==
    /\ pc[r] = "new"
    /\ \E q \in [key: Keys, head: Heads]:
         /\ ask' = [ask EXCEPT ![r] = q]
         /\ IF registry[q.key] = None
              THEN /\ registry' = [registry EXCEPT ![q.key] = r]
                   /\ pc' = [pc EXCEPT ![r] = "resolving"]
                   /\ UNCHANGED joined
              ELSE /\ joined' = [joined EXCEPT ![r] = registry[q.key]]
                   /\ pc' = [pc EXCEPT ![r] = "joined"]
                   /\ UNCHANGED registry
    /\ UNCHANGED <<durable, chan, slot, task, out, crashes, answer>>

(* write_repo awaits the repo lookup, then hands the closure over *)
Resolve(r) ==
    /\ pc[r] = "resolving"
    /\ pc' = [pc EXCEPT ![r] = "writing"]
    /\ \/ /\ task' = [task EXCEPT ![r] = "queued"]
          /\ UNCHANGED out
       \/ /\ out' = [out EXCEPT ![r] = Failed]
          /\ UNCHANGED task
    /\ UNCHANGED <<durable, registry, chan, slot, joined, crashes, ask, answer>>

-----------------------------------------------------------------------------
(* The closure on the blocking pool.  It does not look at the handler: it  *)
(* runs to its end whether or not the handler still waits.                 *)

(* The closure's result reaches the handler only while that still waits *)
Return(r, o) == out' = IF pc[r] = "writing" THEN [out EXCEPT ![r] = o] ELSE out

(* try_lock of the write slot: busy ends the closure, the gate may refuse *)
TakeSlot(r) ==
    /\ task[r] = "queued"
    /\ IF slot = None
         THEN /\ slot' = r
              /\ task' = [task EXCEPT ![r] = "txn"]
              /\ UNCHANGED out
         ELSE /\ task' = [task EXCEPT ![r] = "over"]
              /\ Return(r, Failed)
              /\ UNCHANGED slot
    /\ UNCHANGED <<durable, registry, chan, pc, joined, crashes, ask, answer>>

(* The end of a closure that holds the slot *)
Leave(r, o) ==
    /\ slot' = None
    /\ task' = [task EXCEPT ![r] = "over"]
    /\ Return(r, o)

(* Mutant: a settled key replays whatever head is asked for *)
ReplayAnyHead(r) ==
    /\ task[r] = "txn"
    /\ lands[ask[r].key] # None
    /\ Leave(r, Done(lands[ask[r].key].res))
    /\ UNCHANGED <<durable, registry, chan, pc, joined, crashes, ask, answer>>

(* land_in_txn, a settled key: replay the row, or name its head *)
ReplayRow(r) ==
    LET row == lands[ask[r].key]
    IN  /\ task[r] = "txn"
        /\ row # None
        /\ Leave(r, IF row.head = ask[r].head THEN Done(row.res)
                                                 ELSE SettledAs(row.head))
        /\ UNCHANGED <<durable, registry, chan, pc, joined, crashes, ask, answer>>

(* What a committed land writes: the row and the move of main *)
Settled(r) ==
    \E moved \in BOOLEAN:
      LET to == IF moved THEN main + 1 ELSE main
      IN  /\ main' = to
          /\ lands' = [lands EXCEPT ![ask[r].key] =
               [head |-> ask[r].head, res |-> [landed |-> to, moved |-> moved]]]

(* Mutant: the key's row is not looked up first *)
CommitAgain(r) ==
    /\ task[r] = "txn"
    /\ Settled(r)
    /\ audit' = IF split THEN audit ELSE [audit EXCEPT ![ask[r].key] = @ + 1]
    /\ task' = [task EXCEPT ![r] = "committed"]
    /\ UNCHANGED <<split, registry, chan, slot, out, pc, joined, crashes, ask, answer>>

(* Mutant: the audit row rides the transaction in both layouts *)
CommitWithAudit(r) ==
    /\ task[r] = "txn"
    /\ lands[ask[r].key] = None
    /\ Settled(r)
    /\ audit' = [audit EXCEPT ![ask[r].key] = @ + 1]
    /\ task' = [task EXCEPT ![r] = "committed"]
    /\ UNCHANGED <<split, registry, chan, slot, out, pc, joined, crashes, ask, answer>>

(* land_in_txn on an unsettled key: the pending row, the rebase, the move  *)
(* of main and the settlement commit together, and in the single layout    *)
(* the audit row with them.  The slot is still held.                       *)
Commit(r) ==
    LET k == ask[r].key
    IN  /\ task[r] = "txn"
        /\ lands[k] = None
        /\ Settled(r)
        /\ audit' = IF split THEN audit ELSE [audit EXCEPT ![k] = @ + 1]
        /\ task' = [task EXCEPT ![r] = "committed"]
        /\ UNCHANGED <<split, registry, chan, slot, out, pc, joined, crashes, ask, answer>>

(* The write gate, any refusal inside the transaction, or a failed COMMIT: *)
(* rolled back.                                                            *)
Refuse(r) ==
    /\ task[r] = "txn"
    /\ Leave(r, Failed)
    /\ UNCHANGED <<durable, registry, chan, pc, joined, crashes, ask, answer>>

(* After the commit: the split layout appends the audit row, or logs that  *)
(* it could not; the closure answers success either way.                   *)
Finish(r) ==
    LET k == ask[r].key
    IN  /\ task[r] = "committed"
        /\ \/ audit' = IF split THEN [audit EXCEPT ![k] = @ + 1] ELSE audit
           \/ split /\ UNCHANGED audit
        /\ Leave(r, Done(lands[k].res))
        /\ UNCHANGED <<lands, main, split, registry, chan, pc, joined, crashes, ask, answer>>

(* A panic unwinds the closure: an open transaction is rolled back, a      *)
(* committed one stands; the poisoned slot stays usable.                   *)
Panic(r) ==
    /\ task[r] \in {"txn", "committed"}
    /\ Leave(r, Failed)
    /\ UNCHANGED <<durable, registry, chan, pc, joined, crashes, ask, answer>>

(* Some other writer of the repo, or a coordinated batch, takes or leaves it *)
OtherWriter ==
    /\ \/ slot = None /\ slot' = Other
       \/ slot = Other /\ slot' = None
    /\ UNCHANGED <<durable, registry, chan, task, out, pc, joined, crashes, ask, answer>>

-----------------------------------------------------------------------------
(* The leader's handler, after the write.                                  *)

(* Mutant: does not await the closure *)
PublishEarly(r) ==
    /\ pc[r] = "writing"
    /\ chan' = [chan EXCEPT ![r] = out[r]]
    /\ out' = [out EXCEPT ![r] = None]
    /\ pc' = [pc EXCEPT ![r] = "sent"]
    /\ UNCHANGED <<durable, registry, slot, task, joined, crashes, ask, answer>>

(* LandJoinGuard::publish: the send comes first ... *)
Publish(r) ==
    /\ pc[r] = "writing"
    /\ out[r] # None
    /\ chan' = [chan EXCEPT ![r] = out[r]]
    /\ out' = [out EXCEPT ![r] = None]
    /\ pc' = [pc EXCEPT ![r] = "sent"]
    /\ UNCHANGED <<durable, registry, slot, task, joined, crashes, ask, answer>>

(* LandJoinGuard::drop removes the entry if it is this guard's own *)
Deregistered(r) ==
    LET k == ask[r].key
    IN  registry' = IF registry[k] = r THEN [registry EXCEPT ![k] = None]
                                       ELSE registry

(* ... then the guard drops and the response goes out *)
Respond(r) ==
    /\ pc[r] = "sent"
    /\ Deregistered(r)
    /\ answer' = [answer EXCEPT ![r] = chan[r]]
    /\ pc' = [pc EXCEPT ![r] = "over"]
    /\ UNCHANGED <<durable, chan, slot, task, out, joined, crashes, ask>>

(* Mutant: the guard leaves its entry behind *)
CancelLeavesEntry(r) ==
    /\ pc[r] \in {"resolving", "writing"}
    /\ out' = [out EXCEPT ![r] = None]
    /\ pc' = [pc EXCEPT ![r] = "dropping"]
    /\ UNCHANGED <<durable, registry, chan, slot, task, joined, crashes, ask, answer>>

(* The handler future is dropped at an await (request timeout, client gone) *)
CancelLeader(r) ==
    /\ pc[r] \in {"resolving", "writing"}
    /\ Deregistered(r)
    /\ out' = [out EXCEPT ![r] = None]
    /\ pc' = [pc EXCEPT ![r] = "dropping"]
    /\ UNCHANGED <<durable, chan, slot, task, joined, crashes, ask, answer>>

(* Mutant: the guard sends nothing *)
FailSilently(r) ==
    /\ pc[r] = "dropping"
    /\ answer' = [answer EXCEPT ![r] = Failed]
    /\ pc' = [pc EXCEPT ![r] = "over"]
    /\ UNCHANGED <<durable, registry, chan, slot, task, out, joined, crashes, ask>>

(* ... and the guard's Drop fails the joiners *)
FailJoiners(r) ==
    /\ pc[r] = "dropping"
    /\ chan' = [chan EXCEPT ![r] = IF @ = None THEN Failed ELSE @]
    /\ answer' = [answer EXCEPT ![r] = Failed]
    /\ pc' = [pc EXCEPT ![r] = "over"]
    /\ UNCHANGED <<durable, registry, slot, task, out, joined, crashes, ask>>

-----------------------------------------------------------------------------
(* The joiner (join_in_flight).                                            *)

Answered(r, o) ==
    /\ answer' = [answer EXCEPT ![r] = o]
    /\ pc' = [pc EXCEPT ![r] = "over"]

(* Mutant: the joiner's own head is not compared *)
JoinAnyHead(r) == chan[joined[r]]

(* A joiner's answer from the leader's outcome, by the settled rules *)
JoinOutcome(r) ==
    LET l == joined[r]
    IN  IF chan[l].tag # "done" \/ ask[l].head = ask[r].head
          THEN chan[l]
          ELSE SettledAs(ask[l].head)

Observe(r) ==
    /\ pc[r] = "joined"
    /\ chan[joined[r]] # None
    /\ IF chan[joined[r]].tag = "settled" /\ chan[joined[r]].head = ask[r].head
         THEN /\ pc' = [pc EXCEPT ![r] = "replaying"]
              /\ UNCHANGED answer
         ELSE Answered(r, JoinOutcome(r))
    /\ UNCHANGED <<durable, registry, chan, slot, task, out, joined, crashes, ask>>

(* settled_replay: the recorded row, read through the pool *)
SettledReplay(r) ==
    LET row == lands[ask[r].key]
    IN  /\ pc[r] = "replaying"
        /\ Answered(r, IF row # None /\ row.head = ask[r].head
                         THEN Done(row.res)
                         ELSE Failed)
        /\ UNCHANGED <<durable, registry, chan, slot, task, out, joined, crashes, ask>>

(* The join deadline passes before the outcome is there *)
JoinDeadline(r) ==
    /\ pc[r] = "joined"
    /\ chan[joined[r]] = None
    /\ Answered(r, Failed)
    /\ UNCHANGED <<durable, registry, chan, slot, task, out, joined, crashes, ask>>

CancelJoiner(r) ==
    /\ pc[r] \in {"joined", "replaying"}
    /\ Answered(r, Failed)
    /\ UNCHANGED <<durable, registry, chan, slot, task, out, joined, crashes, ask>>

-----------------------------------------------------------------------------
(* The process dies and restarts: only the database survives. *)
Crash ==
    /\ crashes < MaxCrashes
    /\ crashes' = crashes + 1
    /\ registry' = [k \in Keys |-> None]
    /\ slot' = None
    /\ task' = [r \in Requests |-> IF task[r] = "none" THEN "none" ELSE "over"]
    /\ answer' = [r \in Requests |-> IF pc[r] \in Open THEN Failed ELSE answer[r]]
    /\ pc' = [r \in Requests |-> IF pc[r] \in Open THEN "over" ELSE pc[r]]
    /\ out' = [r \in Requests |-> None]
    /\ UNCHANGED <<durable, chan, joined, ask>>

Write(r) == TakeSlot(r) \/ ReplayRow(r) \/ Commit(r) \/ Refuse(r) \/ Finish(r)
            \/ Panic(r)
Lead(r)  == Resolve(r) \/ Publish(r) \/ Respond(r) \/ FailJoiners(r)
Join(r)  == Observe(r) \/ SettledReplay(r)
GiveUp(r) == CancelLeader(r) \/ JoinDeadline(r) \/ CancelJoiner(r)

Next == \/ \E r \in Requests: Begin(r) \/ Write(r) \/ Lead(r) \/ Join(r) \/ GiveUp(r)
        \/ OtherWriter
        \/ Crash

(* The runtime polls ready futures and runs the closures it was handed.    *)
(* No timer is assumed to fire, and no client to call.                     *)
Fairness == \A r \in Requests: WF_vars(Write(r)) /\ WF_vars(Lead(r)) /\ WF_vars(Join(r))

Spec == Init /\ [][Next]_vars
FairSpec == Spec /\ Fairness

-----------------------------------------------------------------------------
(* Every answer is true of the database: a 200 carries the row the key     *)
(* settled with, for the head that was asked (a fresh land, a replay, a    *)
(* join, a join's settled-row replay), and a settled-409 names the head of *)
(* that row, which is another one (routes/land.rs join_in_flight).         *)
AnswersTruthful ==
    \A r \in Requests:
        answer[r] # None => Abstract!Truthful(answer[r], ask[r], lands)

(* A move of main and the settlement that reports it are one commit: main  *)
(* has moved exactly once for every key whose row says it did, so neither  *)
(* a retry, a detached write, a panic nor a crash lands a key twice.       *)
MovedKeys == {k \in Keys: lands[k] # None /\ lands[k].res.moved}
MainCountsMoves == main = Cardinality(MovedKeys)

(* The `land` audit row never precedes or outnumbers the land it reports;  *)
(* in the single layout it commits with it (land.rs `execute`, `settle`).  *)
AuditNeverFabricated ==
    \A k \in Keys:
        /\ audit[k] <= (IF lands[k] = None THEN 0 ELSE 1)
        /\ ~split => audit[k] = (IF lands[k] = None THEN 0 ELSE 1)

(* No orphan in the registry: a registered entry belongs to a handler that *)
(* is still leading that key, so the key is never blocked by a dead land;  *)
(* and a request that still waits, waits for a live leader.                *)
NoOrphanEntry ==
    /\ \A k \in Keys: registry[k] # None =>
          /\ pc[registry[k]] \in Leading
          /\ ask[registry[k]].key = k
    /\ \A r \in Requests: pc[r] = "joined" /\ chan[joined[r]] = None =>
          pc[joined[r]] \in Leading \cup {"dropping"}

(* LandJoin implements SettleOnce: keys settle once and for all, and       *)
(* requests are answered once, truthfully.                                 *)
ImplementsSettleOnce == Abstract!Spec

(* A joiner is answered even if no timer ever fires: by the leader's       *)
(* outcome, or by the guard's Drop when the leader is gone.  (A request    *)
(* that left these states never joins again.)                              *)
JoinersAnswered == \A r \in Requests: []<>(pc[r] \notin {"joined", "replaying"})
=============================================================================
