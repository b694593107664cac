--------------------------- MODULE LandJoinProofs ---------------------------
(***************************************************************************)
(* LandJoin for every number of requests, keys, heads and crashes: its     *)
(* invariants, and that it implements SettleOnce.                          *)
(***************************************************************************)
EXTENDS LandJoin, FiniteSetTheorems, TLAPS

Truthful(o, q, rows) == Abstract!Truthful(o, q, rows)

(* A closure belongs to a request that got past the repo lookup; it holds  *)
(* the slot exactly while its transaction is open or just committed.       *)
ClosuresHold ==
    \A r \in Requests: /\ task[r] # "none" =>
                              pc[r] \in {"writing", "sent", "dropping", "over"}
                       /\ (slot = r) <=> (task[r] \in {"txn", "committed"})

(* A closure that has committed settled its key with its own head, and in  *)
(* the split layout its audit row is still to be written.                  *)
CommittedRow ==
    \A r \in Requests: task[r] = "committed" =>
        /\ lands[ask[r].key] # None
        /\ lands[ask[r].key].head = ask[r].head
        /\ split => audit[ask[r].key] = 0

(* Whatever travels from the closure to the handler, or from the leader to *)
(* its joiners, is true of the leader's own question.                      *)
OutcomesTruthful ==
    \A r \in Requests:
        /\ out[r] # None => pc[r] = "writing" /\ Truthful(out[r], ask[r], lands)
        /\ chan[r] # None => pc[r] # "new" /\ Truthful(chan[r], ask[r], lands)
        /\ pc[r] = "sent" => chan[r] # None

(* A joiner waits for a request of its own key; one that replays has been  *)
(* told that its head is the settled one.                                  *)
JoinersSameKey ==
    \A r \in Requests:
        /\ pc[r] \in {"joined", "replaying"} =>
             /\ joined[r] \in Requests
             /\ pc[joined[r]] # "new"
             /\ ask[joined[r]].key = ask[r].key
        /\ pc[r] = "replaying" =>
             /\ lands[ask[r].key] # None
             /\ lands[ask[r].key].head = ask[r].head

Inv == /\ TypeOK
       /\ ClosuresHold
       /\ CommittedRow
       /\ OutcomesTruthful
       /\ JoinersSameKey
       /\ NoOrphanEntry
       /\ AnswersTruthful
       /\ AuditNeverFabricated
       /\ MainCountsMoves

(* The three outcomes of the land route are outcomes.                      *)
LEMMA OutcomeTypes ==
    /\ Failed \in Outcome
    /\ \A res \in Results: Done(res) \in Outcome
    /\ \A h \in Heads: SettledAs(h) \in Outcome
BY DEF Failed, Done, SettledAs, Outcome, Abstract!Failed, Abstract!Done,
       Abstract!SettledAs, Abstract!Outcome, Abstract!Tags

(* Nothing is asked, settled or held at first.                             *)
LEMMA InitInv == Init => Inv
<1>. SUFFICES ASSUME Init PROVE Inv
  OBVIOUS
<1>. USE LandJoinAssumption, NoneAssumption DEF Init
<1>1. TypeOK
  BY DEF TypeOK, PCs, TaskStates
<1>2. ClosuresHold /\ CommittedRow /\ OutcomesTruthful /\ JoinersSameKey
  BY DEF ClosuresHold, CommittedRow, OutcomesTruthful, JoinersSameKey
<1>3. NoOrphanEntry /\ AnswersTruthful /\ AuditNeverFabricated
  BY DEF NoOrphanEntry, AnswersTruthful, AuditNeverFabricated
<1>4. MainCountsMoves
  <2>1. MovedKeys = {}
    BY DEF MovedKeys
  <2>. QED  BY <2>1, FS_EmptySet DEF MainCountsMoves
<1>. QED  BY <1>1, <1>2, <1>3, <1>4 DEF Inv

(* LandJoins::begin: a new leader is the only one of its key, and a joiner *)
(* takes a leader that is still leading.                                   *)
LEMMA BeginStep ==
    ASSUME Inv, NEW r \in Requests, Begin(r)
    PROVE  Inv'
<1>. USE LandJoinAssumption, NoneAssumption, OutcomeTypes
    DEF Inv, durable, Begin
<1>1. TypeOK'
  BY DEF TypeOK, PCs, Open
<1>2. ClosuresHold'
  BY DEF TypeOK, ClosuresHold
<1>3. CommittedRow'
  BY DEF CommittedRow, ClosuresHold
<1>4. OutcomesTruthful'
  BY DEF TypeOK, OutcomesTruthful
<1>5. JoinersSameKey'
  BY DEF TypeOK, JoinersSameKey, NoOrphanEntry, Leading
<1>6. NoOrphanEntry'
  <2>1. PICK q \in [key: Keys, head: Heads]:
          /\ ask' = [ask EXCEPT ![r] = q]
          /\ IF registry[q.key] = None
               THEN /\ registry' = [registry EXCEPT ![q.key] = r]
                    /\ pc' = [pc EXCEPT ![r] = "resolving"]
                    /\ UNCHANGED joined
               ELSE /\ joined' = [joined EXCEPT ![r] = registry[q.key]]
                    /\ pc' = [pc EXCEPT ![r] = "joined"]
                    /\ UNCHANGED registry
    OBVIOUS
  <2>2. CASE registry[q.key] = None
    BY <2>1, <2>2 DEF TypeOK, NoOrphanEntry, Leading, JoinersSameKey
  <2>3. CASE registry[q.key] # None
    BY <2>1, <2>3 DEF TypeOK, NoOrphanEntry, Leading, JoinersSameKey
  <2>. QED  BY <2>2, <2>3
<1>7. AnswersTruthful'
  BY DEF TypeOK, AnswersTruthful
<1>8. (AuditNeverFabricated /\ MainCountsMoves)'
  BY DEF AuditNeverFabricated, MainCountsMoves, MovedKeys
<1>. QED  BY <1>1, <1>2, <1>3, <1>4, <1>5, <1>6, <1>7, <1>8

(* write_repo: the closure is handed over, or the repo is not there.       *)
LEMMA ResolveStep ==
    ASSUME Inv, NEW r \in Requests, Resolve(r)
    PROVE  Inv'
<1>. USE LandJoinAssumption, NoneAssumption, OutcomeTypes
    DEF Inv, durable, Resolve
<1>1. TypeOK'
  BY DEF TypeOK, PCs, Open, TaskStates
<1>2. ClosuresHold'
  BY DEF TypeOK, ClosuresHold
<1>3. CommittedRow'
  BY DEF TypeOK, CommittedRow
<1>4. OutcomesTruthful'
  BY DEF TypeOK, OutcomesTruthful, Failed, Abstract!Failed, Truthful,
         Abstract!Truthful
<1>5. (/\ JoinersSameKey /\ NoOrphanEntry /\ AnswersTruthful
       /\ AuditNeverFabricated /\ MainCountsMoves)'
  BY DEF JoinersSameKey, NoOrphanEntry, Leading, AnswersTruthful,
         AuditNeverFabricated, MainCountsMoves, MovedKeys
<1>. QED  BY <1>1, <1>2, <1>3, <1>4, <1>5

(* The slot is taken only when it is free.                                 *)
LEMMA TakeSlotStep ==
    ASSUME Inv, NEW r \in Requests, TakeSlot(r)
    PROVE  Inv'
<1>. USE LandJoinAssumption, NoneAssumption, OutcomeTypes
    DEF Inv, durable, TakeSlot, Return
<1>1. TypeOK'
  BY DEF TypeOK, TaskStates
<1>2. ClosuresHold'
  BY DEF TypeOK, ClosuresHold
<1>3. CommittedRow'
  BY DEF TypeOK, CommittedRow
<1>4. OutcomesTruthful'
  BY DEF TypeOK, OutcomesTruthful, Failed, Abstract!Failed, Truthful,
         Abstract!Truthful
<1>5. (/\ JoinersSameKey /\ NoOrphanEntry /\ AnswersTruthful
       /\ AuditNeverFabricated /\ MainCountsMoves)'
  BY DEF JoinersSameKey, NoOrphanEntry, AnswersTruthful, AuditNeverFabricated,
         MainCountsMoves, MovedKeys
<1>. QED  BY <1>1, <1>2, <1>3, <1>4, <1>5

(* A settled key is answered from its row.                                 *)
LEMMA ReplayRowStep ==
    ASSUME Inv, NEW r \in Requests, ReplayRow(r)
    PROVE  Inv'
<1>. USE LandJoinAssumption, NoneAssumption, OutcomeTypes
    DEF Inv, durable, ReplayRow, Leave, Return
<1>1. TypeOK'
  BY DEF TypeOK, TaskStates
<1>2. ClosuresHold'
  BY DEF TypeOK, ClosuresHold
<1>3. OutcomesTruthful'
  BY DEF TypeOK, OutcomesTruthful, Open, Done, SettledAs, Failed, Abstract!Done,
         Abstract!SettledAs, Truthful, Abstract!Truthful
<1>4. (/\ CommittedRow /\ JoinersSameKey /\ NoOrphanEntry
       /\ AnswersTruthful /\ AuditNeverFabricated /\ MainCountsMoves)'
  BY DEF CommittedRow, JoinersSameKey, NoOrphanEntry, AnswersTruthful,
         AuditNeverFabricated, MainCountsMoves, MovedKeys
<1>. QED  BY <1>1, <1>2, <1>3, <1>4

(* A refused land leaves no trace but its outcome.                         *)
LEMMA RefuseStep ==
    ASSUME Inv, NEW r \in Requests, Refuse(r)
    PROVE  Inv'
<1>. USE LandJoinAssumption, NoneAssumption, OutcomeTypes
    DEF Inv, durable, Refuse, Leave, Return
<1>1. TypeOK'
  BY DEF TypeOK, TaskStates
<1>2. ClosuresHold'
  BY DEF TypeOK, ClosuresHold
<1>3. OutcomesTruthful'
  BY DEF OutcomesTruthful, Failed, Abstract!Failed, Truthful, Abstract!Truthful
<1>4. (/\ CommittedRow /\ JoinersSameKey /\ NoOrphanEntry
       /\ AnswersTruthful /\ AuditNeverFabricated /\ MainCountsMoves)'
  BY DEF CommittedRow, JoinersSameKey, NoOrphanEntry, AnswersTruthful,
         AuditNeverFabricated, MainCountsMoves, MovedKeys
<1>. QED  BY <1>1, <1>2, <1>3, <1>4

(* The result of a committed land is its row, and its audit row follows.   *)
LEMMA FinishStep ==
    ASSUME Inv, NEW r \in Requests, Finish(r)
    PROVE  Inv'
<1>. USE LandJoinAssumption, NoneAssumption, OutcomeTypes
    DEF Inv, durable, Finish, Leave, Return
<1>1. TypeOK'
  BY DEF TypeOK, TaskStates, CommittedRow
<1>2. ClosuresHold'
  BY DEF TypeOK, ClosuresHold
<1>3. CommittedRow'
  BY DEF TypeOK, CommittedRow, ClosuresHold
<1>4. OutcomesTruthful'
  BY DEF TypeOK, OutcomesTruthful, Open, Done, Failed, Abstract!Done,
         Abstract!SettledAs, Truthful, Abstract!Truthful, CommittedRow
<1>5. AuditNeverFabricated'
  BY DEF TypeOK, AuditNeverFabricated, CommittedRow
<1>6. (JoinersSameKey /\ NoOrphanEntry /\ AnswersTruthful /\ MainCountsMoves)'
  BY DEF JoinersSameKey, NoOrphanEntry, AnswersTruthful, MainCountsMoves,
         MovedKeys
<1>. QED  BY <1>1, <1>2, <1>3, <1>4, <1>5, <1>6

(* A panic frees the slot; what was committed stands.                      *)
LEMMA PanicStep ==
    ASSUME Inv, NEW r \in Requests, Panic(r)
    PROVE  Inv'
<1>. USE LandJoinAssumption, NoneAssumption, OutcomeTypes
    DEF Inv, durable, Panic, Leave, Return
<1>1. TypeOK'
  BY DEF TypeOK, TaskStates
<1>2. ClosuresHold'
  BY DEF TypeOK, ClosuresHold
<1>3. OutcomesTruthful'
  BY DEF OutcomesTruthful, Failed, Abstract!Failed, Truthful, Abstract!Truthful
<1>4. (/\ CommittedRow /\ JoinersSameKey /\ NoOrphanEntry
       /\ AnswersTruthful /\ AuditNeverFabricated /\ MainCountsMoves)'
  BY DEF CommittedRow, JoinersSameKey, NoOrphanEntry, AnswersTruthful,
         AuditNeverFabricated, MainCountsMoves, MovedKeys
<1>. QED  BY <1>1, <1>2, <1>3, <1>4

(* Another writer touches the slot only when no closure of a land has it.  *)
LEMMA OtherWriterStep ==
    ASSUME Inv, OtherWriter
    PROVE  Inv'
<1>. USE LandJoinAssumption, NoneAssumption, OutcomeTypes
    DEF Inv, durable, OtherWriter
<1>1. (/\ TypeOK /\ ClosuresHold /\ CommittedRow /\ OutcomesTruthful /\ JoinersSameKey
       /\ NoOrphanEntry /\ AnswersTruthful /\ AuditNeverFabricated /\ MainCountsMoves)'
  BY DEF TypeOK, ClosuresHold, CommittedRow, OutcomesTruthful, JoinersSameKey,
         NoOrphanEntry, AnswersTruthful, AuditNeverFabricated, MainCountsMoves,
         MovedKeys
<1>. QED  BY <1>1

(* publish: the true outcome becomes the one the joiners see.              *)
LEMMA PublishStep ==
    ASSUME Inv, NEW r \in Requests, Publish(r)
    PROVE  Inv'
<1>. USE LandJoinAssumption, NoneAssumption, OutcomeTypes
    DEF Inv, durable, Publish
<1>1. TypeOK'
  BY DEF TypeOK, PCs, Open
<1>2. OutcomesTruthful'
  BY DEF TypeOK, OutcomesTruthful
<1>3. (/\ ClosuresHold /\ CommittedRow /\ JoinersSameKey /\ NoOrphanEntry
       /\ AnswersTruthful /\ AuditNeverFabricated /\ MainCountsMoves)'
  BY DEF ClosuresHold, CommittedRow, JoinersSameKey, NoOrphanEntry, Leading,
         AnswersTruthful, AuditNeverFabricated, MainCountsMoves, MovedKeys
<1>. QED  BY <1>1, <1>2, <1>3

(* The leader answers what it published and its entry goes.                *)
LEMMA RespondStep ==
    ASSUME Inv, NEW r \in Requests, Respond(r)
    PROVE  Inv'
<1>. USE LandJoinAssumption, NoneAssumption, OutcomeTypes
    DEF Inv, durable, Respond, Deregistered
<1>1. TypeOK'
  BY DEF TypeOK, PCs, OutcomesTruthful
<1>2. NoOrphanEntry'
  BY DEF TypeOK, NoOrphanEntry, OutcomesTruthful
<1>3. AnswersTruthful'
  BY DEF AnswersTruthful, OutcomesTruthful, Truthful
<1>4. (/\ ClosuresHold /\ CommittedRow /\ OutcomesTruthful
       /\ JoinersSameKey /\ AuditNeverFabricated /\ MainCountsMoves)'
  BY DEF ClosuresHold, CommittedRow, OutcomesTruthful, JoinersSameKey,
         AuditNeverFabricated, MainCountsMoves, MovedKeys
<1>. QED  BY <1>1, <1>2, <1>3, <1>4

(* A dropped leader removes its own entry.                                 *)
LEMMA CancelLeaderStep ==
    ASSUME Inv, NEW r \in Requests, CancelLeader(r)
    PROVE  Inv'
<1>. USE LandJoinAssumption, NoneAssumption, OutcomeTypes
    DEF Inv, durable, CancelLeader, Deregistered
<1>1. TypeOK'
  BY DEF TypeOK, PCs, Open
<1>2. OutcomesTruthful'
  BY DEF TypeOK, OutcomesTruthful
<1>3. NoOrphanEntry'
  BY DEF TypeOK, NoOrphanEntry
<1>4. (/\ ClosuresHold /\ CommittedRow /\ JoinersSameKey
       /\ AnswersTruthful /\ AuditNeverFabricated /\ MainCountsMoves)'
  BY DEF ClosuresHold, CommittedRow, JoinersSameKey, AnswersTruthful,
         AuditNeverFabricated, MainCountsMoves, MovedKeys
<1>. QED  BY <1>1, <1>2, <1>3, <1>4

(* The guard fails the joiners that were left without an outcome.          *)
LEMMA FailJoinersStep ==
    ASSUME Inv, NEW r \in Requests, FailJoiners(r)
    PROVE  Inv'
<1>. USE LandJoinAssumption, NoneAssumption, OutcomeTypes
    DEF Inv, durable, FailJoiners
<1>1. TypeOK'
  BY DEF TypeOK, PCs
<1>2. OutcomesTruthful'
  BY DEF OutcomesTruthful, Failed, Abstract!Failed, Truthful, Abstract!Truthful
<1>3. NoOrphanEntry'
  BY DEF TypeOK, NoOrphanEntry, Leading
<1>4. AnswersTruthful'
  BY DEF AnswersTruthful, Failed, Abstract!Failed, Abstract!Truthful
<1>5. (/\ ClosuresHold /\ CommittedRow /\ JoinersSameKey
       /\ AuditNeverFabricated /\ MainCountsMoves)'
  BY DEF ClosuresHold, CommittedRow, JoinersSameKey, AuditNeverFabricated,
         MainCountsMoves, MovedKeys
<1>. QED  BY <1>1, <1>2, <1>3, <1>4, <1>5

(* join_in_flight: the outcome, judged by the head of the joiner.          *)
LEMMA ObserveStep ==
    ASSUME Inv, NEW r \in Requests, Observe(r)
    PROVE  Inv'
<1>. USE LandJoinAssumption, NoneAssumption, OutcomeTypes
    DEF Inv, durable, Observe, Answered, JoinOutcome
<1>1. TypeOK'
  BY DEF TypeOK, PCs, Open, JoinersSameKey
<1>2. ClosuresHold'
  BY DEF TypeOK, ClosuresHold
<1>3. OutcomesTruthful'
  BY DEF TypeOK, OutcomesTruthful
<1>4. JoinersSameKey'
  BY DEF TypeOK, JoinersSameKey, OutcomesTruthful, Truthful, Abstract!Truthful
<1>5. NoOrphanEntry'
  BY DEF TypeOK, NoOrphanEntry, Leading, JoinersSameKey
<1>6. AnswersTruthful'
  BY DEF TypeOK, AnswersTruthful, OutcomesTruthful, JoinersSameKey, SettledAs,
         Abstract!SettledAs, Truthful, Abstract!Truthful
<1>7. (CommittedRow /\ AuditNeverFabricated /\ MainCountsMoves)'
  BY DEF CommittedRow, AuditNeverFabricated, MainCountsMoves, MovedKeys
<1>. QED  BY <1>1, <1>2, <1>3, <1>4, <1>5, <1>6, <1>7

(* settled_replay: the row is the one the leader was refused for.          *)
LEMMA SettledReplayStep ==
    ASSUME Inv, NEW r \in Requests, SettledReplay(r)
    PROVE  Inv'
<1>. USE LandJoinAssumption, NoneAssumption, OutcomeTypes
    DEF Inv, durable, SettledReplay, Answered
<1>1. TypeOK'
  BY DEF TypeOK, PCs
<1>2. AnswersTruthful'
  BY DEF TypeOK, AnswersTruthful, OutcomesTruthful, JoinersSameKey,
         CommittedRow, Done, Failed, Abstract!Done, Abstract!SettledAs,
         Truthful, Abstract!Truthful
<1>3. (/\ ClosuresHold /\ CommittedRow /\ OutcomesTruthful /\ JoinersSameKey
       /\ NoOrphanEntry /\ AuditNeverFabricated /\ MainCountsMoves)'
  BY DEF ClosuresHold, CommittedRow, OutcomesTruthful, JoinersSameKey,
         NoOrphanEntry, Leading, AuditNeverFabricated, MainCountsMoves,
         MovedKeys
<1>. QED  BY <1>1, <1>2, <1>3

(* A join that runs into its deadline promises nothing.                    *)
LEMMA JoinDeadlineStep ==
    ASSUME Inv, NEW r \in Requests, JoinDeadline(r)
    PROVE  Inv'
<1>. USE LandJoinAssumption, NoneAssumption, OutcomeTypes
    DEF Inv, durable, JoinDeadline, Answered
<1>1. TypeOK'
  BY DEF TypeOK, PCs
<1>2. AnswersTruthful'
  BY DEF AnswersTruthful, Failed, Abstract!Failed, Abstract!Truthful
<1>3. (/\ ClosuresHold /\ CommittedRow /\ OutcomesTruthful /\ JoinersSameKey
       /\ NoOrphanEntry /\ AuditNeverFabricated /\ MainCountsMoves)'
  BY DEF ClosuresHold, CommittedRow, OutcomesTruthful, JoinersSameKey,
         NoOrphanEntry, Leading, AuditNeverFabricated, MainCountsMoves,
         MovedKeys
<1>. QED  BY <1>1, <1>2, <1>3

(* Nor does one whose client is gone.                                      *)
LEMMA CancelJoinerStep ==
    ASSUME Inv, NEW r \in Requests, CancelJoiner(r)
    PROVE  Inv'
<1>. USE LandJoinAssumption, NoneAssumption, OutcomeTypes
    DEF Inv, durable, CancelJoiner, Answered
<1>1. TypeOK'
  BY DEF TypeOK, PCs
<1>2. AnswersTruthful'
  BY DEF AnswersTruthful, Failed, Abstract!Failed, Abstract!Truthful
<1>3. (/\ ClosuresHold /\ CommittedRow /\ OutcomesTruthful /\ JoinersSameKey
       /\ NoOrphanEntry /\ AuditNeverFabricated /\ MainCountsMoves)'
  BY DEF ClosuresHold, CommittedRow, OutcomesTruthful, JoinersSameKey,
         NoOrphanEntry, Leading, AuditNeverFabricated, MainCountsMoves,
         MovedKeys
<1>. QED  BY <1>1, <1>2, <1>3

(* A crash empties the registry and ends every open request.               *)
LEMMA CrashStep ==
    ASSUME Inv, Crash
    PROVE  Inv'
<1>. USE LandJoinAssumption, NoneAssumption, OutcomeTypes
    DEF Inv, durable, Crash
<1>1. TypeOK'
  BY DEF TypeOK, PCs, Open, TaskStates
<1>2. NoOrphanEntry'
  BY DEF NoOrphanEntry, Open
<1>3. AnswersTruthful'
  BY DEF AnswersTruthful, Failed, Abstract!Failed, Abstract!Truthful
<1>4. (/\ ClosuresHold /\ CommittedRow /\ OutcomesTruthful
       /\ JoinersSameKey /\ AuditNeverFabricated /\ MainCountsMoves)'
  BY DEF ClosuresHold, CommittedRow, OutcomesTruthful, JoinersSameKey,
         AuditNeverFabricated, MainCountsMoves, MovedKeys
<1>. QED  BY <1>1, <1>2, <1>3, <1>4

(* A row that is there stays: what was truthful stays truthful *)
LEMMA TruthfulStays ==
    ASSUME NEW rows, NEW rows2, NEW o, NEW q,
           rows[q.key] # None => rows2[q.key] = rows[q.key],
           Truthful(o, q, rows)
    PROVE  Truthful(o, q, rows2)
BY DEF Truthful, Abstract!Truthful

(* The commit settles a key that was not settled: the slot excludes a      *)
(* second one, and one more key has moved main, or none.                   *)
LEMMA CommitStep ==
    ASSUME Inv, NEW r \in Requests, Commit(r)
    PROVE  Inv'
<1>. USE LandJoinAssumption, NoneAssumption
<1>. DEFINE k == ask[r].key
<1>. UNCHANGED <<split, registry, chan, slot, out, pc, joined, crashes, ask, answer>>
  BY DEF Commit
<1>1. k \in Keys /\ ask[r].head \in Heads /\ pc[r] # "new" /\ slot = r /\ lands[k] = None
  BY DEF Inv, TypeOK, ClosuresHold, Commit
<1>2. PICK moved \in BOOLEAN:
        /\ main' = (IF moved THEN main + 1 ELSE main)
        /\ lands' = [lands EXCEPT ![k] =
             [head |-> ask[r].head, res |-> [landed |-> main', moved |-> moved]]]
  BY DEF Commit, Settled
<1>3. main \in Nat /\ main' \in Nat
  BY <1>2 DEF Inv, TypeOK
<1>4. [landed |-> main', moved |-> moved] \in Results
  BY <1>3 DEF Results
<1>5. lands' \in [Keys -> [head: Heads, res: Results] \cup {None}]
  BY <1>1, <1>2, <1>4 DEF Inv, TypeOK
<1>6. /\ lands'[k] = [head |-> ask[r].head, res |-> [landed |-> main', moved |-> moved]]
      /\ lands'[k] # None
      /\ \A j \in Keys: j # k => lands'[j] = lands[j]
  <2>1. lands'[k] = [head |-> ask[r].head, res |-> [landed |-> main', moved |-> moved]]
    BY <1>1, <1>2 DEF Inv, TypeOK
  <2>2. lands'[k] \in [head: Heads, res: Results]
    BY <2>1, <1>1, <1>4
  <2>. QED  BY <2>1, <2>2, <1>2 DEF Inv, TypeOK
<1>7. \A j \in Keys: lands[j] # None => lands'[j] = lands[j]
  BY <1>1, <1>6
<1>8. TypeOK'
  BY <1>1, <1>3, <1>5 DEF Inv, TypeOK, Commit, TaskStates
<1>9. ClosuresHold'
  BY <1>1 DEF Inv, TypeOK, ClosuresHold, Commit
<1>10. \A s \in Requests: s # r => task[s] # "committed"
  BY <1>1 DEF Inv, ClosuresHold
<1>11. CommittedRow'
  <2>. SUFFICES ASSUME NEW s \in Requests, task'[s] = "committed"
                PROVE  /\ lands'[ask[s].key] # None
                       /\ lands'[ask[s].key].head = ask[s].head
                       /\ split => audit'[ask[s].key] = 0
    BY DEF CommittedRow
  <2>1. s = r
    BY <1>10 DEF Inv, TypeOK, Commit
  <2>. QED  BY <2>1, <1>1, <1>6 DEF Inv, TypeOK, AuditNeverFabricated, Commit
<1>12. \A s \in Requests: \A o: pc[s] # "new" /\ Truthful(o, ask[s], lands)
                                => Truthful(o, ask[s], lands')
  <2>. SUFFICES ASSUME NEW s \in Requests, NEW o, pc[s] # "new", Truthful(o, ask[s], lands)
                PROVE  Truthful(o, ask[s], lands')
    OBVIOUS
  <2>1. ask[s].key \in Keys
    BY DEF Inv, TypeOK
  <2>. QED  BY <2>1, <1>7, TruthfulStays
<1>13. OutcomesTruthful'
  BY <1>12 DEF Inv, OutcomesTruthful
<1>14. JoinersSameKey'
  BY <1>7 DEF Inv, TypeOK, JoinersSameKey
<1>15. NoOrphanEntry'
  BY DEF Inv, NoOrphanEntry
<1>16. AnswersTruthful'
  BY <1>12 DEF Inv, TypeOK, AnswersTruthful, Truthful
<1>17. AuditNeverFabricated'
  BY <1>1, <1>6 DEF Inv, TypeOK, AuditNeverFabricated, Commit
<1>18. MainCountsMoves'
  <2>1. IsFiniteSet(MovedKeys) /\ k \notin MovedKeys
    BY <1>1, FS_Subset DEF MovedKeys
  <2>2. MovedKeys' = IF moved THEN MovedKeys \cup {k} ELSE MovedKeys
    BY <1>1, <1>6 DEF MovedKeys
  <2>3. Cardinality(MovedKeys \cup {k}) = Cardinality(MovedKeys) + 1
    BY <2>1, FS_AddElement
  <2>. QED  BY <1>2, <2>2, <2>3 DEF Inv, MainCountsMoves
<1>. QED
  BY <1>8, <1>9, <1>11, <1>13, <1>14, <1>15, <1>16, <1>17, <1>18 DEF Inv

(* Nothing changes.                                                        *)
LEMMA StutterStep ==
    ASSUME Inv, UNCHANGED vars
    PROVE  Inv'
BY DEF Inv, vars, TypeOK, ClosuresHold, CommittedRow, OutcomesTruthful,
       JoinersSameKey, NoOrphanEntry, AnswersTruthful, AuditNeverFabricated,
       MainCountsMoves, MovedKeys, Truthful

(* The invariant is preserved, action by action.                           *)
LEMMA NextStep == Inv /\ [Next]_vars => Inv'
<1>. SUFFICES ASSUME Inv, [Next]_vars PROVE Inv'
  OBVIOUS
<1>1. ASSUME NEW r \in Requests, Begin(r) \/ Write(r) \/ Lead(r) \/ Join(r) \/ GiveUp(r)
      PROVE  Inv'
  <2>1. CASE Begin(r)
    BY <2>1, BeginStep
  <2>2. CASE Write(r)
    BY <2>2, TakeSlotStep, ReplayRowStep, CommitStep, RefuseStep, FinishStep, PanicStep
       DEF Write
  <2>3. CASE Lead(r)
    BY <2>3, ResolveStep, PublishStep, RespondStep, FailJoinersStep DEF Lead
  <2>4. CASE Join(r)
    BY <2>4, ObserveStep, SettledReplayStep DEF Join
  <2>5. CASE GiveUp(r)
    BY <2>5, CancelLeaderStep, JoinDeadlineStep, CancelJoinerStep DEF GiveUp
  <2>. QED  BY <1>1, <2>1, <2>2, <2>3, <2>4, <2>5
<1>. QED
  BY <1>1, OtherWriterStep, CrashStep, StutterStep DEF Next

(* The inductive invariant holds in every reachable state. *)
THEOREM Invariance == Spec => []Inv
BY InitInv, NextStep, PTL DEF Spec

(* Every variable keeps its type and every request its life cycle: it is   *)
(* answered once, when its handler ends (routes/land.rs `land`).           *)
THEOREM TypeCorrect == Spec => []TypeOK
<1>1. Inv => TypeOK
  BY DEF Inv
<1>. QED  BY <1>1, Invariance, PTL

(* Whatever interleaving of leaders, joiners, detached writes, timeouts,   *)
(* panics and crashes: a 200 carries the settled row of the key for the    *)
(* head asked for, and a settled-409 names the head of that row.           *)
THEOREM AnswersAreTruthful == Spec => []AnswersTruthful
<1>1. Inv => AnswersTruthful
  BY DEF Inv
<1>. QED  BY <1>1, Invariance, PTL

(* Main moves exactly once for each key whose settlement says it moved. *)
THEOREM MainMovesOnce == Spec => []MainCountsMoves
<1>1. Inv => MainCountsMoves
  BY DEF Inv
<1>. QED  BY <1>1, Invariance, PTL

(* The audit log holds no land that did not commit, none twice, and in the *)
(* single layout none is missing.                                          *)
THEOREM AuditIsSound == Spec => []AuditNeverFabricated
<1>1. Inv => AuditNeverFabricated
  BY DEF Inv
<1>. QED  BY <1>1, Invariance, PTL

(* No entry outlives its leader, and no joiner waits for a dead one. *)
THEOREM RegistryIsSound == Spec => []NoOrphanEntry
<1>1. Inv => NoOrphanEntry
  BY DEF Inv
<1>. QED  BY <1>1, Invariance, PTL

(* One answer, truthful by the invariant of the state after it, is a Reply *)
LEMMA AnsweringIsReply ==
    ASSUME Inv, Inv', NEW r \in Requests, pc[r] \in Open,
           UNCHANGED <<ask, lands>>,
           NEW o \in Outcome, answer' = [answer EXCEPT ![r] = o]
    PROVE  Abstract!Reply(r)
<1>1. ask[r] # None /\ answer[r] = None /\ answer'[r] = o
  BY DEF Inv, TypeOK, Open
<1>2. o # None
  BY NoneAssumption
<1>3. Abstract!Truthful(answer'[r], ask[r], lands)
  BY <1>1, <1>2 DEF Inv, AnswersTruthful
<1>. QED  BY <1>1, <1>3 DEF Abstract!Reply, Outcome

(* Every step is a step of SettleOnce or changes nothing it sees: Begin    *)
(* asks, Commit settles, the answers reply, Crash loses all that is open.  *)
LEMMA StepRefines == Inv /\ Inv' /\ [Next]_vars => [Abstract!Next]_(Abstract!vars)
<1>. SUFFICES ASSUME Inv, Inv', [Next]_vars
              PROVE  Abstract!Next \/ UNCHANGED <<ask, lands, answer>>
  BY DEF Abstract!vars
<1>. USE DEF Abstract!Next
<1>1. ASSUME NEW r \in Requests, Begin(r)
      PROVE  Abstract!Next
  <2>1. Abstract!Ask(r)
    BY <1>1 DEF Begin, durable, Inv, TypeOK, Abstract!Ask
  <2>. QED  BY <2>1
<1>2. ASSUME NEW r \in Requests, Write(r)
      PROVE  Abstract!Next \/ UNCHANGED <<ask, lands, answer>>
  <2>1. CASE Commit(r)
    <3>. DEFINE k == ask[r].key
    <3>1. k \in Keys /\ lands[k] = None
      BY <2>1 DEF Commit, Inv, TypeOK, ClosuresHold
    <3>2. PICK row: lands' = [lands EXCEPT ![k] = row]
      BY <2>1 DEF Commit, Settled
    <3>3. lands'[k] = row
      BY <3>1, <3>2 DEF Inv, TypeOK
    <3>4. lands'[k] # None
      BY <2>1 DEF Inv, CommittedRow, Commit, TypeOK
    <3>5. Abstract!Settle(k)
      BY <2>1, <3>1, <3>2, <3>3, <3>4 DEF Commit, Inv, TypeOK, Abstract!Settle
    <3>. QED  BY <3>1, <3>5
  <2>2. CASE ~Commit(r)
    BY <1>2, <2>2 DEF Write, TakeSlot, ReplayRow, Refuse, Finish, Panic, durable
  <2>. QED  BY <2>1, <2>2
<1>3. ASSUME NEW r \in Requests, Lead(r)
      PROVE  Abstract!Next \/ UNCHANGED <<ask, lands, answer>>
  <2>1. CASE Resolve(r) \/ Publish(r)
    BY <2>1 DEF Resolve, Publish, durable
  <2>2. CASE Respond(r)
    <3>1. chan[r] \in Outcome /\ pc[r] \in Open
      BY <2>2 DEF Respond, Open, Inv, TypeOK, OutcomesTruthful
    <3>. QED  BY <2>2, <3>1, AnsweringIsReply DEF Respond, durable
  <2>3. CASE FailJoiners(r)
    BY <2>3, AnsweringIsReply, OutcomeTypes DEF FailJoiners, Open, durable
  <2>. QED  BY <1>3, <2>1, <2>2, <2>3 DEF Lead
<1>4. ASSUME NEW r \in Requests, Join(r) \/ GiveUp(r)
      PROVE  Abstract!Next \/ UNCHANGED <<ask, lands, answer>>
  <2>1. CASE Observe(r)
    <3>. DEFINE o == JoinOutcome(r)
    <3>1. CASE answer' = [answer EXCEPT ![r] = o]
      <4>1. chan[joined[r]] \in Outcome /\ ask[joined[r]].head \in Heads /\ pc[r] \in Open
        BY <2>1 DEF Observe, Open, Inv, TypeOK, JoinersSameKey
      <4>2. o \in Outcome
        BY <4>1, OutcomeTypes DEF JoinOutcome
      <4>. QED  BY <2>1, <3>1, <4>1, <4>2, AnsweringIsReply DEF Observe, durable
    <3>2. CASE answer' # [answer EXCEPT ![r] = o]
      BY <2>1, <3>2 DEF Observe, Answered, durable
    <3>. QED  BY <3>1, <3>2
  <2>2. CASE SettledReplay(r)
    <3>. DEFINE row == lands[ask[r].key]
                o == IF row # None /\ row.head = ask[r].head THEN Done(row.res) ELSE Failed
    <3>1. o \in Outcome
      BY <2>2, OutcomeTypes DEF SettledReplay, Inv, TypeOK
    <3>. QED  BY <2>2, <3>1, AnsweringIsReply
    DEF SettledReplay, Answered, Open, durable
  <2>3. CASE JoinDeadline(r) \/ CancelJoiner(r)
    BY <2>3, AnsweringIsReply, OutcomeTypes
    DEF JoinDeadline, CancelJoiner, Answered, Open, durable
  <2>4. CASE CancelLeader(r)
    BY <2>4 DEF CancelLeader, durable
  <2>. QED  BY <1>4, <2>1, <2>2, <2>3, <2>4 DEF Join, GiveUp
<1>5. CASE OtherWriter
  BY <1>5 DEF OtherWriter, durable
<1>6. CASE Crash
  <2>1. \A r \in Requests: pc[r] \in Open <=> ask[r] # None /\ answer[r] = None
    BY DEF Inv, TypeOK, PCs, Open
  <2>2. Abstract!LoseAll
    BY <1>6, <2>1 DEF Crash, durable, Abstract!LoseAll, Failed
  <2>. QED  BY <2>2
<1>. QED  BY <1>1, <1>2, <1>3, <1>4, <1>5, <1>6 DEF Next, vars

(* The land route with its join registry implements SettleOnce: keys       *)
(* settle once and for all, every request is answered at most once, and    *)
(* truthfully.                                                             *)
THEOREM Refinement == Spec => ImplementsSettleOnce
<1>1. Init => Abstract!Init
  BY DEF Init, Abstract!Init
<1>. QED
  BY <1>1, StepRefines, Invariance, PTL
    DEF Spec, ImplementsSettleOnce, Abstract!Spec

=============================================================================
