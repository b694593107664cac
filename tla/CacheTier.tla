----------------------------- MODULE CacheTier -----------------------------
(***************************************************************************)
(* The cache tier (cache_tier.rs) in front of one repo of the origin       *)
(* (routes/tickets.rs membership and epoch, db.rs tombstone_epoch and      *)
(* cache_membership).                                                      *)
(*                                                                         *)
(* A request looks up the membership snapshot of its ticket's tree.  With  *)
(* none, it walks the origin: the walk reads the tombstone epoch, then the *)
(* blobs, in two reads, and inserts the snapshot.  With one, it probes the *)
(* epoch, and either trusts the snapshot or walks again.  The map's mutex  *)
(* is never held across an await, so every await is a step and other       *)
(* requests insert and evict between.  Marks arrive at the origin at any   *)
(* time; rows of marked ids stay, so the epoch is the number of marks.     *)
(***************************************************************************)
EXTENDS Naturals, FiniteSets, Sequences, SequencesExt

CONSTANTS Requests, Trees, Blobs, None,
          In,           \* In[t]: the blobs of tree t this repo references
          MaxEntries    \* MEMBERSHIP_MAX_ENTRIES

VARIABLES
    marks,      \* origin: ids with a redaction row, active or purged
    map,        \* the membership snapshots, oldest fetched first
    local,      \* ids in the tier's own store
    pc,         \* pc[r]: where r's handler is
    ask,        \* ask[r]: the ticket's tree and the wanted id
    recorded,   \* recorded[r]: the epoch r read from the snapshot
    walk,       \* walk[r]: the epoch and blobs of r's walk so far
    answer,     \* answer[r]: what r was answered
    before,     \* history: the marks when r began
    swapped     \* history: the snapshot r trusted has not the epoch r probed

vars == <<marks, map, local, pc, ask, recorded, walk, answer, before, swapped>>
history == <<before, swapped>>

Epochs == 0..Cardinality(Blobs)
Answers == {"bytes", "missing", "gone", "error", "panic"}
PCs == {"idle", "look", "read", "probe", "reread", "walk1", "walk2", "insert",
        "serve", "fetch", "store", "delegate", "erase"}
Entry == [tree: Trees, epoch: Epochs, blobs: SUBSET Blobs]
Ask == [tree: Trees, id: Blobs]
Walk == [epoch: Epochs, blobs: SUBSET Blobs]

(* What the proofs assume of the constants.                                *)
CacheAssumption ==
    /\ IsFiniteSet(Blobs) /\ In \in [Trees -> SUBSET Blobs]
    /\ MaxEntries \in Nat
    /\ None \notin Answers

(* The types of the state, and the bound of the map: one entry past the    *)
(* cap, since bound_membership runs before the insert.                     *)
TypeOK ==
    /\ marks \subseteq Blobs
    /\ map \in Seq(Entry)
    /\ Len(map) <= MaxEntries + 1
    /\ \A i, j \in DOMAIN map: map[i].tree = map[j].tree => i = j
    /\ local \subseteq Blobs
    /\ pc \in [Requests -> PCs]
    /\ ask \in [Requests -> Ask \cup {None}]
    /\ recorded \in [Requests -> Epochs \cup {None}]
    /\ walk \in [Requests -> Walk \cup {None}]
    /\ answer \in [Requests -> Answers \cup {None}]
    /\ before \in [Requests -> SUBSET Blobs]
    /\ swapped \in [Requests -> BOOLEAN]

Init ==
    /\ marks = {}
    /\ map = <<>>
    /\ local = {}
    /\ pc = [r \in Requests |-> "idle"]
    /\ ask = [r \in Requests |-> None]
    /\ recorded = [r \in Requests |-> None]
    /\ walk = [r \in Requests |-> None]
    /\ answer = [r \in Requests |-> None]
    /\ before = [r \in Requests |-> {}]
    /\ swapped = [r \in Requests |-> FALSE]

Standing(t) == {i \in DOMAIN map: map[i].tree = t}
HasSnapshot(t) == Standing(t) # {}
Snapshot(t) == map[CHOOSE i \in Standing(t): TRUE]

-----------------------------------------------------------------------------
(* The origin.                                                             *)

TombstoneEpoch == Cardinality(marks)
CacheMembership(t) == In[t] \ marks

Mark(b) ==
    /\ marks' = marks \cup {b}
    /\ b \notin marks
    /\ UNCHANGED <<map, local, pc, ask, recorded, walk, answer, history>>

-----------------------------------------------------------------------------
(* The handler.  The ticket was verified: it binds the tree.               *)

Goto(r, label) == pc' = [pc EXCEPT ![r] = label]

(* The request is over: its locals go with it.                             *)
Answer(r, a) ==
    /\ Goto(r, "idle")
    /\ answer' = [answer EXCEPT ![r] = a]
    /\ recorded' = [recorded EXCEPT ![r] = None]
    /\ walk' = [walk EXCEPT ![r] = None]

GetObject(r) ==
    /\ pc[r] = "idle"
    /\ \E t \in Trees, b \in Blobs: ask' = [ask EXCEPT ![r] = [tree |-> t, id |-> b]]
    /\ Goto(r, "look")
    /\ answer' = [answer EXCEPT ![r] = None]
    /\ before' = [before EXCEPT ![r] = marks]
    /\ swapped' = [swapped EXCEPT ![r] = FALSE]
    /\ UNCHANGED <<marks, map, local, recorded, walk>>

(* contains_key, under the mutex *)
ScopeLook(r) ==
    /\ pc[r] = "look"
    /\ Goto(r, IF HasSnapshot(ask[r].tree) THEN "read" ELSE "walk1")
    /\ UNCHANGED <<marks, map, local, ask, recorded, walk, answer, history>>

(* The recorded epoch, under the mutex taken anew: expect("checked above") *)
ReadRecorded(r) ==
    /\ pc[r] = "read"
    /\ IF HasSnapshot(ask[r].tree)
         THEN /\ recorded' = [recorded EXCEPT ![r] = Snapshot(ask[r].tree).epoch]
              /\ Goto(r, "probe")
              /\ UNCHANGED <<walk, answer>>
         ELSE Answer(r, "panic")
    /\ UNCHANGED <<marks, map, local, ask, history>>

ProbeEpoch(r) ==
    /\ pc[r] = "probe"
    /\ Goto(r, IF TombstoneEpoch = recorded[r] THEN "reread" ELSE "walk1")
    /\ UNCHANGED <<marks, map, local, ask, recorded, walk, answer, history>>

(* The epoch stands: expect("snapshot stands") on the map taken anew *)
RereadSnapshot(r) ==
    /\ pc[r] = "reread"
    /\ IF ~HasSnapshot(ask[r].tree)
         THEN Answer(r, "panic")
         ELSE IF ask[r].id \in Snapshot(ask[r].tree).blobs
         THEN /\ Goto(r, "serve")
              /\ UNCHANGED <<recorded, walk, answer>>
         ELSE Answer(r, "missing")
    /\ swapped' = [swapped EXCEPT ![r] =
                     HasSnapshot(ask[r].tree) /\ Snapshot(ask[r].tree).epoch # recorded[r]]
    /\ UNCHANGED <<marks, map, local, ask, before>>

(* The order of the membership walk's two reads at the origin *)
WalkReversed == <<"blobs", "epoch">>
WalkReads == <<"epoch", "blobs">>

WalkRead(r) ==
    \E i \in {1, 2}:
        /\ pc[r] = <<"walk1", "walk2">>[i]
        /\ LET seen == IF i = 1 THEN [epoch |-> 0, blobs |-> {}] ELSE walk[r] IN
             walk' = [walk EXCEPT ![r] =
                        IF WalkReads[i] = "epoch"
                          THEN [seen EXCEPT !.epoch = TombstoneEpoch]
                          ELSE [seen EXCEPT !.blobs = CacheMembership(ask[r].tree)]]
        /\ Goto(r, <<"walk2", "insert">>[i])
        /\ UNCHANGED <<marks, map, local, ask, recorded, answer, history>>

(* Entries past their TTL and the oldest above the cap go: both are the    *)
(* oldest fetched, so a prefix that leaves at most MaxEntries.             *)
BoundMembership ==
    {SubSeq(map, k + 1, Len(map)): k \in {k \in 0..Len(map): Len(map) - k <= MaxEntries}}

(* The map without the entry of a tree, which has at most one               *)
Without(entries, t) ==
    IF \E i \in DOMAIN entries: entries[i].tree = t
    THEN RemoveAt(entries, CHOOSE i \in DOMAIN entries: entries[i].tree = t)
    ELSE entries

Insert(r) ==
    LET t == ask[r].tree
        entry == [tree |-> t, epoch |-> walk[r].epoch, blobs |-> walk[r].blobs]
    IN  /\ pc[r] = "insert"
        /\ \E kept \in BoundMembership:
             map' = Append(Without(kept, t), entry)
        /\ IF ask[r].id \in walk[r].blobs
             THEN /\ Goto(r, "serve")
                  /\ UNCHANGED <<recorded, walk, answer>>
             ELSE IF recorded[r] = None      \* the first walk of this tree
             THEN Answer(r, "missing")
             ELSE /\ Goto(r, "delegate")     \* vanished from the fresh walk
                  /\ UNCHANGED <<recorded, walk, answer>>
        /\ UNCHANGED <<marks, local, ask, history>>

(* serve_in_scope: a local copy that reads and hashes is served *)
ServeLocal(r) ==
    /\ pc[r] = "serve"
    /\ ask[r].id \in local
    /\ Answer(r, "bytes")
    /\ UNCHANGED <<marks, map, local, ask, history>>

(* ... a missing or corrupt one is fetched from the origin *)
LocalFails(r) ==
    /\ pc[r] = "serve"
    /\ Goto(r, "fetch")
    /\ UNCHANGED <<marks, map, local, ask, recorded, walk, answer, history>>

(* The origin's own gate: 410 when marked, the bytes otherwise *)
FetchObject(r) ==
    /\ pc[r] = "fetch"
    /\ IF ask[r].id \in marks
         THEN Answer(r, "gone")
         ELSE /\ Goto(r, "store")
              /\ UNCHANGED <<recorded, walk, answer>>
    /\ UNCHANGED <<marks, map, local, ask, history>>

FetchAndStore(r) ==
    /\ pc[r] = "store"
    /\ local' = local \cup {ask[r].id}
    /\ Answer(r, "bytes")
    /\ UNCHANGED <<marks, map, ask, history>>

(* DelegateToOrigin: 410 when marked, else bytes, or 404 of a non-member *)
FetchPassthrough(r) ==
    /\ pc[r] = "delegate"
    /\ IF ask[r].id \in marks
         THEN /\ Goto(r, "erase")
              /\ UNCHANGED <<recorded, walk, answer>>
         ELSE Answer(r, IF \E t \in Trees: ask[r].id \in In[t] THEN "bytes" ELSE "missing")
    /\ UNCHANGED <<marks, map, local, ask, history>>

(* delete_local, after the 410 *)
DeleteLocal(r) ==
    /\ pc[r] = "erase"
    /\ local' = local \ {ask[r].id}
    /\ Answer(r, "gone")
    /\ UNCHANGED <<marks, map, ask, history>>

(* An origin call without an answer: 503, fail closed *)
OriginUnreachable(r) ==
    /\ pc[r] \in {"probe", "walk1", "fetch", "delegate"}
    /\ Answer(r, "error")
    /\ UNCHANGED <<marks, map, local, ask, history>>

(* The tier restarts: the map is memory, the store is not *)
Restart ==
    /\ map' = <<>>
    /\ pc' = [r \in Requests |-> "idle"]
    /\ answer' = [r \in Requests |-> IF pc[r] = "idle" THEN answer[r] ELSE "error"]
    /\ recorded' = [r \in Requests |-> None]
    /\ walk' = [r \in Requests |-> None]
    /\ UNCHANGED <<marks, local, ask, history>>

Step(r) ==
    \/ GetObject(r) \/ ScopeLook(r) \/ ReadRecorded(r) \/ ProbeEpoch(r)
    \/ RereadSnapshot(r) \/ WalkRead(r) \/ Insert(r)
    \/ ServeLocal(r) \/ LocalFails(r) \/ FetchObject(r) \/ FetchAndStore(r)
    \/ FetchPassthrough(r) \/ DeleteLocal(r) \/ OriginUnreachable(r)

Next ==
    \/ \E b \in Blobs: Mark(b)
    \/ \E r \in Requests: Step(r)
    \/ Restart

Spec == Init /\ [][Next]_vars

-----------------------------------------------------------------------------
(* What the epoch is for: a snapshot whose epoch is the origin's present   *)
(* one holds exactly what the origin would let out.  The walk reads the    *)
(* epoch before the blobs, so a mark between the two makes the epoch old,  *)
(* never the blobs.                                                        *)
EpochTellsMarks ==
    \A i \in DOMAIN map:
        map[i].epoch = TombstoneEpoch => map[i].blobs = In[map[i].tree] \ marks

(* An id marked when the request began is let out on one path only: the    *)
(* snapshot whose epoch was probed was replaced, before it was trusted, by *)
(* one of another epoch.  Requests may overlap, evict and insert as they   *)
(* like otherwise.                                                         *)
HonestUnlessSwapped ==
    \A r \in Requests:
        answer[r] = "bytes" /\ ~swapped[r] => ask[r].id \notin before[r]

(* The promise without the exception: a mark that stands when a request    *)
(* begins is seen by it ("a tombstoned id never serves", unconditionally,  *)
(* but for a mark between the probe and the bytes).                        *)
TombstonedNeverServes ==
    \A r \in Requests: answer[r] = "bytes" => ask[r].id \notin before[r]

(* No answer carries bytes outside the ticket's tree, unless the origin    *)
(* itself gave them to the ticket after the fresh walk had dropped them.   *)
ScopeKept ==
    \A r \in Requests: pc[r] \in {"serve", "fetch", "store"} => ask[r].id \in In[ask[r].tree]

(* A snapshot of the present epoch holds what the origin would let out; a  *)
(* request that trusts the snapshot it probed, or walks anew, gets nothing *)
(* marked before it began; and no request gets what is not in its tree.    *)
TierHonest == EpochTellsMarks /\ HonestUnlessSwapped /\ ScopeKept

=============================================================================
