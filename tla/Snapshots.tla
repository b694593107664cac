----------------------------- MODULE Snapshots -----------------------------
(***************************************************************************)
(* Snapshots and their expiry (routes/snapshots.rs, snapshots_gc.rs, the   *)
(* ephemeral store).                                                       *)
(*                                                                         *)
(* The blobs of a snapshot are put, without a slot and without a row, in   *)
(* the directory of its id; the POST commits tree rows and the snapshot    *)
(* row in the repo's slot.  A collection pass reads the clock once, then   *)
(* the expired rows, the old directories, which of them have a row,        *)
(* deletes directories outside every slot, and ends in a coordinated batch *)
(* that purges rows and sweeps trees.  Passes run on an interval and after *)
(* every POST: two of them, and requests, interleave.                      *)
(***************************************************************************)
EXTENDS Naturals, FiniteSets

CONSTANTS Repos, Snaps, Principals, Trees, Blobs, Passes, None,
          Ttls,         \* the ttl_secs a POST may ask for
          DefaultTtl,   \* SNAPSHOT_DEFAULT_TTL_SECS, the rowless threshold
          Children,     \* Children[t]: the subtrees of t
          Files,        \* Files[t]: the blobs of t's own entries
          Kept,         \* trees history keeps: a junction row or a changeset root
          FileOf,       \* FileOf[r]: the database file of repo r
          MaxClock

DbFiles == {FileOf[r]: r \in Repos}
Row == [repo: Repos, tree: Trees, owner: Principals, created: 0..MaxClock, ttl: Ttls]
Post == [snap: Snaps, row: Row]
Dir == [mtime: 0..MaxClock, blobs: SUBSET Blobs]

SnapshotsAssumption ==
    /\ MaxClock \in Nat /\ Ttls \subseteq Nat
    /\ Kept \subseteq Trees /\ Children \in [Trees -> SUBSET Trees]
    /\ None \notin Row /\ None \notin Post /\ None \notin Dir

VARIABLES
    clock,
    rows,       \* rows[f][s]: the snapshot row of s in file f, or None
    dir,        \* dir[s]: modification time and blobs of ephemeral/<s>, or None
    treeRows,   \* treeRows[f]: trees with rows
    redacted,   \* redacted[r]: blobs tombstoned in r
    post,       \* the POST between its clock and its slot, or None
    pass        \* pass[g]: the collection pass g

vars == <<clock, rows, dir, treeRows, redacted, post, pass>>

NoPass == [pc |-> "idle", now |-> 0, expired |-> {}, rowless |-> {}, deleted |-> {}]

(* The types of the state; a pass deletes only what it selected.           *)
TypeOK ==
    /\ clock \in 0..MaxClock
    /\ rows \in [DbFiles -> [Snaps -> Row \cup {None}]]
    /\ dir \in [Snaps -> Dir \cup {None}]
    /\ \A s \in Snaps: dir[s] # None => dir[s].mtime <= clock /\ dir[s].blobs # {}
    /\ treeRows \in [DbFiles -> SUBSET Trees]
    /\ redacted \in [Repos -> SUBSET Blobs]
    /\ post \in Post \cup {None}
    /\ \A g \in Passes:
          /\ pass[g].pc \in {"idle", "list", "check", "delete", "write"}
          /\ pass[g].now \in 0..clock
          /\ pass[g].deleted \subseteq pass[g].expired \cup pass[g].rowless

Init ==
    /\ clock = 0
    /\ rows = [f \in DbFiles |-> [s \in Snaps |-> None]]
    /\ dir = [s \in Snaps |-> None]
    /\ treeRows = [f \in DbFiles |-> Kept]
    /\ redacted = [r \in Repos |-> {}]
    /\ post = None
    /\ pass = [g \in Passes |-> NoPass]

Tick ==
    /\ clock < MaxClock
    /\ clock' = clock + 1
    /\ UNCHANGED <<rows, dir, treeRows, redacted, post, pass>>

-----------------------------------------------------------------------------
(* Trees.  A closure reaches two levels here.                              *)

Closure(t) == {t} \cup Children[t] \cup UNION {Children[c]: c \in Children[t]}
WalkClosure(t) == UNION {Files[c]: c \in Closure(t)}

Expires(row) == row.created + row.ttl
Live(row, now) == row # None /\ Expires(row) > now

UnprotectedRoots(f, now, held) ==
    {t \in treeRows[f] \ Kept: \A s \in Snaps: Live(held[s], now) => t # held[s].tree}

(* unprotected_trees: rows without a junction that no live snapshot reaches *)
UnprotectedTrees(f, now, held) ==
    {t \in treeRows[f] \ Kept:
        /\ \A s \in Snaps: Live(held[s], now) => t \notin Closure(held[s].tree)
        /\ \A k \in Kept: t \notin Closure(k)}

-----------------------------------------------------------------------------
(* Requests.                                                               *)

(* The first put makes the directory; later ones write below it and leave  *)
(* its modification time                                                   *)
PutBlob(r, s, b) ==
    /\ b \notin redacted[r]
    /\ dir' = [dir EXCEPT ![s] = IF @ = None THEN [mtime |-> clock, blobs |-> {b}]
                                 ELSE [@ EXCEPT !.blobs = dir[s].blobs \cup {b}]]
    /\ UNCHANGED <<clock, rows, treeRows, redacted, post, pass>>

CreateBegin(r, s, t, p, ttl) ==
    /\ post = None
    /\ post' = [snap |-> s, row |-> [repo |-> r, tree |-> t, owner |-> p,
                                     created |-> clock, ttl |-> ttl]]
    /\ UNCHANGED <<clock, rows, dir, treeRows, redacted, pass>>

(* In the slot.  A row of this repo answers the POST without a write; an   *)
(* id another repo of the same file holds fails on the primary key.        *)
Admissible(new, s) ==
    LET f == FileOf[new.repo] IN
    /\ rows[f][s] = None
    /\ WalkClosure(new.tree) \cap redacted[new.repo] = {}
    /\ dir[s] # None \/ WalkClosure(new.tree) = {}
    /\ dir[s] # None => WalkClosure(new.tree) \subseteq dir[s].blobs

CreateCommit ==
    LET new == post.row  s == post.snap  f == FileOf[new.repo] IN
    /\ post # None
    /\ post' = None
    /\ IF Admissible(new, s)
         THEN /\ rows' = [rows EXCEPT ![f][s] = new]
              /\ treeRows' = [treeRows EXCEPT ![f] = @ \cup Closure(new.tree)]
         ELSE UNCHANGED <<rows, treeRows>>
    /\ UNCHANGED <<clock, dir, redacted, pass>>

Redact(r, b) ==
    /\ redacted' = [redacted EXCEPT ![r] = @ \cup {b}]
    /\ redacted' # redacted
    /\ UNCHANGED <<clock, rows, dir, treeRows, post, pass>>

(* load_owned_unexpired, then get_blob and get_snapshot_tree *)
OwnedUnexpired(r, s, p) ==
    LET row == rows[FileOf[r]][s] IN
    Live(row, clock) /\ row.repo = r /\ row.owner = p
GetBlob(r, s, p, b) ==
    /\ b \notin redacted[r]
    /\ OwnedUnexpired(r, s, p)
    /\ dir[s] # None /\ b \in dir[s].blobs
GetSnapshotTree(r, s, p, t) ==
    /\ OwnedUnexpired(r, s, p)
    /\ t \in Closure(rows[FileOf[r]][s].tree)
    /\ t \in treeRows[FileOf[r]]

-----------------------------------------------------------------------------
(* gc_snapshots.                                                           *)

SnapshotsExpired(now) ==
    {s \in Snaps: \E f \in DbFiles: rows[f][s] # None /\ ~Live(rows[f][s], now)}
SnapshotsExist(s) == \E f \in DbFiles: rows[f][s] # None

GcBegin(g) ==
    /\ pass[g].pc = "idle"
    /\ pass' = [pass EXCEPT ![g] = [NoPass EXCEPT !.pc = "list", !.now = clock,
                                                  !.expired = SnapshotsExpired(clock)]]
    /\ UNCHANGED <<clock, rows, dir, treeRows, redacted, post>>

(* rowless_dirs: older than the default TTL by the directory's own time *)
RowlessDirs(now) == {s \in Snaps: dir[s] # None /\ dir[s].mtime + DefaultTtl < now}

GcList(g) ==
    /\ pass[g].pc = "list"
    /\ pass' = [pass EXCEPT ![g].pc = "check", ![g].rowless = RowlessDirs(pass[g].now)]
    /\ UNCHANGED <<clock, rows, dir, treeRows, redacted, post>>

GcCheck(g) ==
    /\ pass[g].pc = "check"
    /\ pass' = [pass EXCEPT ![g].pc = "delete",
                            ![g].rowless = {s \in @: ~SnapshotsExist(s)}]
    /\ UNCHANGED <<clock, rows, dir, treeRows, redacted, post>>

(* delete_snapshot, one directory after the other; one that fails is left  *)
(* to the next pass                                                        *)
GcDelete(g, s) ==
    /\ pass[g].pc = "delete"
    /\ s \in (pass[g].expired \cup pass[g].rowless) \ pass[g].deleted
    /\ dir' = [dir EXCEPT ![s] = None]
    /\ pass' = [pass EXCEPT ![g].deleted = @ \cup {s}]
    /\ UNCHANGED <<clock, rows, treeRows, redacted, post>>

GcDeleted(g) ==
    /\ pass[g].pc = "delete"
    /\ pass' = [pass EXCEPT ![g].pc = "write"]
    /\ UNCHANGED <<clock, rows, dir, treeRows, redacted, post>>

(* The batch: with something to purge, or a tree without a junction *)
NeedsWrite(g) ==
    \/ pass[g].deleted # {}
    \/ \E f \in DbFiles: treeRows[f] \ Kept # {}

GcWrite(g) ==
    LET purgable == pass[g].expired \cap pass[g].deleted
        kept(f) == [s \in Snaps |-> IF s \in purgable THEN None ELSE rows[f][s]]
    IN
    /\ pass[g].pc = "write"
    /\ IF NeedsWrite(g)
         THEN /\ rows' = [f \in DbFiles |-> kept(f)]
              /\ treeRows' = [f \in DbFiles |->
                    treeRows[f] \ UnprotectedTrees(f, pass[g].now, kept(f))]
         ELSE UNCHANGED <<rows, treeRows>>
    /\ pass' = [pass EXCEPT ![g] = NoPass]
    /\ UNCHANGED <<clock, dir, redacted, post>>

Collecting(g) ==
    \/ GcBegin(g) \/ GcList(g) \/ GcCheck(g) \/ GcDeleted(g) \/ GcWrite(g)
    \/ \E s \in Snaps: GcDelete(g, s)

Next ==
    \/ Tick
    \/ \E r \in Repos, s \in Snaps, b \in Blobs: PutBlob(r, s, b)
    \/ \E r \in Repos, s \in Snaps, t \in Trees, p \in Principals, ttl \in Ttls:
          CreateBegin(r, s, t, p, ttl)
    \/ CreateCommit
    \/ \E r \in Repos, b \in Blobs: Redact(r, b)
    \/ \E g \in Passes: Collecting(g)

Spec == Init /\ [][Next]_vars

-----------------------------------------------------------------------------
(* The owner of an unexpired snapshot reads every tree of it: a sweep that *)
(* started before the POST, and the expiry of another snapshot that shares *)
(* a subtree, take none of its rows.                                       *)
LiveTreesServe ==
    \A r \in Repos, s \in Snaps, p \in Principals:
        OwnedUnexpired(r, s, p) =>
            \A t \in Closure(rows[FileOf[r]][s].tree): GetSnapshotTree(r, s, p, t)

(* The collector's rule a re-POST relies on: the owner of an unexpired     *)
(* snapshot reads every blob of it that is not tombstoned, because an      *)
(* unexpired row's directory is never swept.                               *)
LiveBlobsServe ==
    \A r \in Repos, s \in Snaps, p \in Principals:
        OwnedUnexpired(r, s, p) =>
            \A b \in WalkClosure(rows[FileOf[r]][s].tree) \ redacted[r]: GetBlob(r, s, p, b)
=============================================================================
