------------------------------ MODULE Serving -------------------------------
(***************************************************************************)
(* The server's components that share no state with each other here, side  *)
(* by side: a behaviour is one of them at work.  Each keeps variables of   *)
(* its own.  What they have in common is their constants: the repos, the   *)
(* blobs, the trees, the changesets.                                       *)
(***************************************************************************)
EXTENDS Integers

CONSTANTS
    None,
    Parts,                      \* the components that may be at work
    Requests, Repos, Blobs, Trees, Changesets,
    In, MaxEntries,                                             \* the cache tier
    Keys, Cap, IatSkew, MaxSkew, MaxNow,                        \* tickets
    Names, Tokens, Root, RootToken, MaxAudit,                   \* access
    Credentials, Window, PerKeyLimit, GlobalRowCap,             \* failures
    FailClock, MaxRows,
    RedChangesets, Owner, RedParent, Changes, Refs, BatchBlobs, \* redaction
    MaxMarks, MaxCrashes,
    SnapRepos, Snaps, Principals, Passes, Ttls, DefaultTtl,     \* snapshots
    Children, Files, Kept, FileOf, SnapClock,
    Parents, Generation, Eagers, MaxAttempts, MaxFaults,        \* the derive queue
    MaxQueueMarks,
    Foci, MaxNodes, Branching, Contents, Limit, MaxTombs,       \* history
    MaxFailures, MaxVersion

VARIABLES
    part,
    cacheMarks, map, local, cachePc, cacheAsk, recorded, walk, cacheAnswer, before, swapped,
    list, secret, initRow, verb, fresh, tierKeys, skew, now, allowed, lastAllowed, dropped,
    ticket, served,
    exists, principals, tokens, grants, audit, pc, ask, auth, answer, minted, dead, erased,
    failClock, buckets, rowWindow, failRows, stepped,
    tomb, marked, marking, csRows, trees, pinned, member, objects, touched, bytes, upload,
    purge, marks, crashes,
    snapClock, snapRows, dir, treeRows, redacted, post, pass,
    up, eager, imports, changesets, row, marker, inflight, unqueued, backfill, cursor, queue,
    csMarks, strikes, faults,
    focus, parents, gen, content, tombs, blobTombs, graphRow, skips, state, touches, reader, ref

Cache == INSTANCE CacheTier WITH
    marks <- cacheMarks, pc <- cachePc, ask <- cacheAsk, answer <- cacheAnswer
Ticket == INSTANCE Tickets
Acc == INSTANCE Access
Fail == INSTANCE AuthFailures WITH MaxClock <- FailClock, clock <- failClock, rows <- failRows
Red == INSTANCE Redaction WITH
    Changesets <- RedChangesets, Parent <- RedParent, rows <- csRows
Snap == INSTANCE Snapshots WITH
    Repos <- SnapRepos, MaxClock <- SnapClock, clock <- snapClock, rows <- snapRows
Queue == INSTANCE DeriveQueue WITH MaxMarks <- MaxQueueMarks, marks <- csMarks
Hist == INSTANCE History WITH MaxMarks <- MaxTombs, row <- graphRow

-----------------------------------------------------------------------------
cacheVars == <<cacheMarks, map, local, cachePc, cacheAsk, recorded, walk, cacheAnswer, before,
              swapped>>
ticketsVars == <<list, secret, initRow, verb, fresh, tierKeys, skew, now, allowed, lastAllowed,
                dropped, ticket, served>>
accessVars == <<exists, principals, tokens, grants, audit, pc, ask, auth, answer, minted, dead,
               erased>>
failuresVars == <<failClock, buckets, rowWindow, failRows, stepped>>
redactionVars == <<tomb, marked, marking, csRows, trees, pinned, member, objects, touched,
                  bytes, upload, purge, marks, crashes>>
snapshotsVars == <<snapClock, snapRows, dir, treeRows, redacted, post, pass>>
queueVars == <<up, eager, imports, changesets, row, marker, inflight, unqueued, backfill,
              cursor, queue, csMarks, strikes, faults>>
historyVars == <<focus, parents, gen, content, tombs, blobTombs, graphRow, skips, state, touches,
                reader, ref>>

(* A component that is not at work has no state.                           *)
NoCache ==
    /\ cacheMarks = None /\ map = None /\ local = None /\ cachePc = None
    /\ cacheAsk = None /\ recorded = None /\ walk = None /\ cacheAnswer = None
    /\ before = None /\ swapped = None
NoTickets ==
    /\ list = None /\ secret = None /\ initRow = None /\ verb = None /\ fresh = None
    /\ tierKeys = None /\ skew = None /\ now = None /\ allowed = None
    /\ lastAllowed = None /\ dropped = None /\ ticket = None /\ served = None
NoAccess ==
    /\ exists = None /\ principals = None /\ tokens = None /\ grants = None
    /\ audit = None /\ pc = [q \in Requests |-> "idle"] /\ ask = None /\ auth = None
    /\ answer = None /\ minted = None /\ dead = None /\ erased = None
NoFailures ==
    /\ failClock = None /\ buckets = None /\ rowWindow = None /\ failRows = None
    /\ stepped = None
NoRedaction ==
    /\ tomb = [q \in Repos |-> [i \in Red!Ids |-> "none"]]
    /\ marked = None /\ marking = None /\ csRows = None /\ trees = None
    /\ pinned = None /\ member = None /\ objects = None /\ touched = None
    /\ bytes = None /\ upload = None /\ purge = None /\ marks = None
    /\ crashes = None
NoSnapshots ==
    /\ snapClock = None /\ snapRows = None /\ dir = None /\ treeRows = None
    /\ redacted = None /\ post = None /\ pass = None
NoQueue ==
    /\ up = None /\ eager = None /\ imports = None /\ changesets = None
    /\ row = None /\ marker = None /\ inflight = None /\ unqueued = None
    /\ backfill = None /\ cursor = None /\ queue = None /\ csMarks = None
    /\ strikes = None /\ faults = None
NoHistory ==
    /\ focus = None /\ parents = None /\ gen = None /\ content = None
    /\ tombs = None /\ blobTombs = None /\ graphRow = None /\ skips = None
    /\ state = None /\ touches = None /\ reader = None /\ ref = None

Init ==
    /\ part \in Parts
    /\ IF part = "cache" THEN Cache!Init ELSE NoCache
    /\ IF part = "tickets" THEN Ticket!Init ELSE NoTickets
    /\ IF part = "access" THEN Acc!Init ELSE NoAccess
    /\ IF part = "failures" THEN Fail!Init ELSE NoFailures
    /\ IF part = "redaction" THEN Red!Init ELSE NoRedaction
    /\ IF part = "snapshots" THEN Snap!Init ELSE NoSnapshots
    /\ IF part = "queue" THEN Queue!Init ELSE NoQueue
    /\ IF part = "history" THEN Hist!Init ELSE NoHistory

Next ==
    \/ /\ part = "cache" /\ Cache!Next
       /\ UNCHANGED <<part, ticketsVars, accessVars, failuresVars, redactionVars,
                      snapshotsVars, queueVars, historyVars>>
    \/ /\ part = "tickets" /\ Ticket!Next
       /\ UNCHANGED <<part, cacheVars, accessVars, failuresVars, redactionVars,
                      snapshotsVars, queueVars, historyVars>>
    \/ /\ part = "access" /\ Acc!Next
       /\ UNCHANGED <<part, cacheVars, ticketsVars, failuresVars, redactionVars,
                      snapshotsVars, queueVars, historyVars>>
    \/ /\ part = "failures" /\ Fail!Next
       /\ UNCHANGED <<part, cacheVars, ticketsVars, accessVars, redactionVars,
                      snapshotsVars, queueVars, historyVars>>
    \/ /\ part = "redaction" /\ Red!Next
       /\ UNCHANGED <<part, cacheVars, ticketsVars, accessVars, failuresVars,
                      snapshotsVars, queueVars, historyVars>>
    \/ /\ part = "snapshots" /\ Snap!Next
       /\ UNCHANGED <<part, cacheVars, ticketsVars, accessVars, failuresVars,
                      redactionVars, queueVars, historyVars>>
    \/ /\ part = "queue" /\ Queue!Next
       /\ UNCHANGED <<part, cacheVars, ticketsVars, accessVars, failuresVars,
                      redactionVars, snapshotsVars, historyVars>>
    \/ /\ part = "history" /\ Hist!Next
       /\ UNCHANGED <<part, cacheVars, ticketsVars, accessVars, failuresVars,
                      redactionVars, snapshotsVars, queueVars>>

vars == <<part, cacheVars, ticketsVars, accessVars, failuresVars,
          redactionVars, snapshotsVars, queueVars, historyVars>>

Spec == Init /\ [][Next]_vars

-----------------------------------------------------------------------------
(* The types of every component's state.                                   *)
TypeOK ==
    /\ part \in Parts
    /\ part = "cache" => Cache!TypeOK
    /\ part = "tickets" => Ticket!TypeOK
    /\ part = "access" => Acc!TypeOK
    /\ part = "failures" => Fail!TypeOK
    /\ part = "redaction" => Red!TypeOK
    /\ part = "snapshots" => Snap!TypeOK
    /\ part = "queue" => Queue!TypeOK
    /\ part = "history" => Hist!TypeOK

(* The components' properties, stated and explained in their modules.  The *)
(* cache tier: the epoch tells every mark, a request that trusts the       *)
(* snapshot it probed gets nothing marked before it began, and a tree's    *)
(* scope is kept.                                                          *)
TierHonest == part = "cache" => Cache!TierHonest

(* Tickets: access ends with the grant and the ticket's life, whatever the *)
(* clocks' skew; the key that signs is listed whatever verb died, and what *)
(* is minted verifies until it expires.                                    *)
TicketsHonest == part = "tickets" => Ticket!TicketsHonest

(* Access: an erased principal's name leaves the audit log,                *)
ErasureReachesTheLog == part = "access" => Acc!ErasureReachesTheLog

(* a token that died stays dead, and a private repo answers as an absent   *)
(* one, whatever commits between the steps of a request.                   *)
RequestsGated == Acc!RequestsGated

(* A flood of failed authentications writes a bounded number of rows.      *)
FloodBounded == part = "failures" => Fail!FloodBounded

(* The purge leaves no changeset without its bytes, and what it stamps     *)
(* purged is gone, though it may be cut anywhere;                          *)
PurgeSound == part = "redaction" => Red!PurgeSound

(* what a repo tombstoned comes back to it only by inheritance.            *)
TombstonedGainsNothing == Red!TombstonedGainsNothing

(* A live snapshot's trees are there.                                      *)
LiveTreesServe == part = "snapshots" => Snap!LiveTreesServe

(* The derive queue: the backfill marker is honest but for creates whose   *)
(* enqueue failed, contention costs no attempt, nothing waits for a        *)
(* changeset that is gone, and what derives from a quarantined one is      *)
(* tainted.                                                                *)
QueueSound == part = "queue" => Queue!QueueSound

(* The history reads: the merge base is that of the graph whatever skips a *)
(* walk takes, a finished blame and path history say what a walk of the    *)
(* changesets would, nothing tombstoned is named, and the pages of a log   *)
(* cover it.                                                               *)
HistoryExact ==
    part = "history" =>
        /\ Hist!MergeBaseExact /\ Hist!BlameExact
        /\ Hist!NamesNothingRedacted /\ Hist!PagesCover

(* A ref only moves forward, a version at a time, and never to what is     *)
(* redacted.                                                               *)
RefAdvances == Hist!RefAdvances

(* What the source's comments promise and the code does not keep: a live   *)
(* snapshot's blobs are there,                                             *)
LiveBlobsServe == part = "snapshots" => Snap!LiveBlobsServe
(* the cache tier never serves what was marked before the request,         *)
TombstonedNeverServes == part = "cache" => Cache!TombstonedNeverServes
(* the marker covers every changeset that is committed,                    *)
MarkerComplete == part = "queue" => Queue!MarkerComplete
(* and the backfill outlives everything but a failure.                     *)
BackfillSurvives == Queue!BackfillSurvives
=============================================================================
