------------------------------- MODULE Adopt -------------------------------
(***************************************************************************)
(* naatre migrate-db-per-repo (adopt.rs): the conversion of a store in one *)
(* database to a catalog with one file per repo, against servers that      *)
(* start, write and die, commands that fail or die halfway, a second       *)
(* command, and the operator's cutover.                                    *)
(*                                                                         *)
(* A row is known by the table it is in: a repo's, a global one, or the    *)
(* table of access grants, which the catalog keeps.                        *)
(***************************************************************************)
EXTENDS Naturals, FiniteSets

CONSTANTS None, Repos,
          Commands,   \* the adoption commands an operator may have running
          MaxRows,    \* bound on the rows that servers write
          MaxRuns,    \* bound on the adoptions that get past their guards
          MaxCrashes  \* bound on the processes that die

VARIABLES
    mode,       \* the layout backend.toml selects
    db,         \* naatre.db: [repos, rows], or None
    hot,        \* a killed server left the database's log unrecovered
    catalog,    \* catalog.db: [repos, rows, adopted], or None
    files,      \* repos/: the rows of each repo file there, or None
    lock,       \* the holder of the data dir's flock, or None
    server,     \* [stage, layout]
    adopt,      \* adopt[c]: its stage, the repos it still has to copy, and the one at hand
    acked,      \* rows some server has acknowledged
    overtaken,  \* a server opened the layout its guard saw, and no longer the one there
    runs, crashes

vars == <<mode, db, hot, catalog, files, lock, server, adopt, acked, overtaken, runs, crashes>>

Layouts == {"single", "split"}
RowsOf(r) == [table: {"repo", "access"}, repo: {r}, n: 1..MaxRows]
Admin == [table |-> "global", repo |-> None, n |-> 0]
Rows == (UNION {RowsOf(r): r \in Repos}) \cup [table: {"global"}, repo: {None}, n: 0..MaxRows]

Down == [stage |-> "down", layout |-> None]
Idle == [stage |-> "idle", todo |-> {}, at |-> None]
Created == [repos |-> {}, rows |-> {}, adopted |-> FALSE]
Stages == {"idle", "guarded", "create", "source", "register", "rows", "verify", "mark"}

Single == [repos: SUBSET Repos, rows: SUBSET Rows]
Catalog == [repos: SUBSET Repos, rows: SUBSET Rows, adopted: BOOLEAN]
Files == UNION {[held -> SUBSET Rows]: held \in SUBSET Repos}

(* What the proofs assume of the constants.                                *)
AdoptAssumption ==
    /\ MaxRows \in Nat /\ MaxRuns \in Nat /\ MaxCrashes \in Nat
    /\ None \notin Repos \cup Commands \cup Layouts \cup {"server"}
    /\ "server" \notin Commands
    /\ None \notin Single /\ None \notin Catalog /\ None \notin Files

(* The types of the state; the flock has the holder that is at work.       *)
TypeOK ==
    /\ mode \in Layouts /\ hot \in BOOLEAN /\ overtaken \in BOOLEAN
    /\ db \in Single \cup {None}
    /\ catalog \in Catalog \cup {None}
    /\ files \in Files \cup {None}
    /\ files # None => \A r \in DOMAIN files: files[r] \subseteq [table: {"repo"}, repo: {r}, n: 1..MaxRows]
    /\ server \in [stage: {"down", "checked", "up"}, layout: Layouts \cup {None}]
    /\ adopt \in [Commands -> [stage: Stages, todo: SUBSET Repos, at: Repos \cup {None}]]
    /\ lock \in {None, "server"} \cup Commands
    /\ (lock = "server") <=> (server.stage = "up")
    /\ \A c \in Commands: (lock = c) <=> (adopt[c].stage \notin {"idle", "guarded"})
    /\ acked \subseteq Rows /\ runs \in 0..MaxRuns /\ crashes \in 0..MaxCrashes

Init ==
    /\ mode = "single"
    /\ db = [repos |-> {}, rows |-> {Admin}] /\ hot = FALSE
    /\ catalog = None /\ files = None
    /\ lock = None /\ server = Down /\ adopt = [c \in Commands |-> Idle]
    /\ acked = {Admin} /\ overtaken = FALSE
    /\ runs = 0 /\ crashes = 0

-----------------------------------------------------------------------------
(* The server.                                                             *)

detect == IF catalog # None THEN "split" ELSE "single"

(* The catalog carries the adoption's marker.                              *)
Adopted == catalog # None /\ catalog.adopted

(* check_data_dir_backend: the layout configured is the one on disk, and   *)
(* whole.  It runs before the flock is taken.                              *)
ServerCheck ==
    /\ server.stage = "down"
    /\ detect = mode
    /\ IF mode = "split" THEN Adopted ELSE db # None
    /\ server' = [stage |-> "checked", layout |-> mode]
    /\ UNCHANGED <<mode, db, hot, catalog, files, lock, adopt, acked, overtaken, runs, crashes>>

(* lock_or_fail refuses a data dir that is held.                           *)
ServerRefused ==
    /\ server.stage = "checked" /\ lock # None
    /\ server' = Down
    /\ UNCHANGED <<mode, db, hot, catalog, files, lock, adopt, acked, overtaken, runs, crashes>>

(* Store::open recovers the log.                                           *)
ServerOpenSingle ==
    /\ server.stage = "checked" /\ lock = None /\ server.layout = "single"
    /\ server' = [server EXCEPT !.stage = "up"]
    /\ lock' = "server"
    /\ hot' = FALSE
    /\ overtaken' = (overtaken \/ detect = "split")
    /\ UNCHANGED <<mode, db, catalog, files, adopt, acked, runs, crashes>>

(* Every repo of the registry has its file; open_repo_db_existing makes    *)
(* none.                                                                   *)
FilesPresent == catalog.repos = {} \/ (files # None /\ catalog.repos \subseteq DOMAIN files)

(* open_catalog creates the file when it is not there, and asks for the    *)
(* marker again; then the walk over the repo files.                        *)
ServerOpenSplit ==
    /\ server.stage = "checked" /\ lock = None /\ server.layout = "split"
    /\ catalog' = IF catalog = None THEN Created ELSE catalog
    /\ IF Adopted /\ FilesPresent
         THEN server' = [server EXCEPT !.stage = "up"] /\ lock' = "server"
         ELSE server' = Down /\ lock' = None
    /\ UNCHANGED <<mode, db, hot, files, adopt, acked, overtaken, runs, crashes>>

(* repo create: in the split layout the registry row and the file.         *)
CreateRepo(r) ==
    /\ server.stage = "up"
    /\ IF server.layout = "single"
         THEN /\ r \notin db.repos
              /\ db' = [db EXCEPT !.repos = @ \cup {r}]
              /\ UNCHANGED <<catalog, files>>
         ELSE /\ r \notin catalog.repos
              /\ catalog' = [catalog EXCEPT !.repos = @ \cup {r}]
              /\ files' = [q \in {r} \cup (IF files = None THEN {} ELSE DOMAIN files) |->
                             IF q = r THEN {} ELSE files[q]]
              /\ UNCHANGED db
    /\ UNCHANGED <<mode, hot, lock, server, adopt, acked, overtaken, runs, crashes>>

(* A write of a row: into the one database, or into the catalog or the     *)
(* file of the row's repo.                                                 *)
Write(row) ==
    /\ server.stage = "up"
    /\ row.n = Cardinality(acked)
    /\ IF server.layout = "single"
         THEN /\ row.repo \in db.repos \cup {None}
              /\ db' = [db EXCEPT !.rows = @ \cup {row}]
              /\ UNCHANGED <<catalog, files>>
         ELSE /\ row.repo \in catalog.repos \cup {None}
              /\ UNCHANGED db
              /\ IF row.table = "repo"
                   THEN /\ files' = [files EXCEPT ![row.repo] = @ \cup {row}]
                        /\ UNCHANGED catalog
                   ELSE /\ catalog' = [catalog EXCEPT !.rows = @ \cup {row}]
                        /\ UNCHANGED files
    /\ acked' = acked \cup {row}
    /\ UNCHANGED <<mode, hot, lock, server, adopt, overtaken, runs, crashes>>

ServerStop ==
    /\ server.stage = "up"
    /\ server' = Down /\ lock' = None
    /\ UNCHANGED <<mode, db, hot, catalog, files, adopt, acked, overtaken, runs, crashes>>

ServerDies ==
    /\ server.stage = "up" /\ crashes < MaxCrashes
    /\ server' = Down /\ lock' = None
    /\ hot' = (hot \/ server.layout = "single")
    /\ crashes' = crashes + 1
    /\ UNCHANGED <<mode, db, catalog, files, adopt, acked, overtaken, runs>>

-----------------------------------------------------------------------------
(* The command.                                                            *)

At(c, stage) == adopt[c].stage = stage
Goes(c, stage) == adopt' = [adopt EXCEPT ![c].stage = stage]

(* The guards: a source, and no catalog or repos/ from an earlier run.     *)
(* They too run before the flock is taken.                                 *)
AdoptGuards(c) ==
    /\ At(c, "idle") /\ runs < MaxRuns
    /\ db # None /\ catalog = None /\ files = None
    /\ Goes(c, "guarded")
    /\ runs' = runs + 1
    /\ UNCHANGED <<mode, db, hot, catalog, files, lock, server, acked, overtaken, crashes>>

AdoptLock(c) ==
    /\ At(c, "guarded")
    /\ IF lock = None THEN lock' = c /\ Goes(c, "create")
                      ELSE Goes(c, "idle") /\ UNCHANGED lock
    /\ UNCHANGED <<mode, db, hot, catalog, files, server, acked, overtaken, runs, crashes>>

(* The catalog, opened or created, with its tables.                        *)
AdoptCreate(c) ==
    /\ At(c, "create")
    /\ catalog' = IF catalog = None THEN Created ELSE catalog
    /\ Goes(c, "source")
    /\ UNCHANGED <<mode, db, hot, files, lock, server, acked, overtaken, runs, crashes>>

(* The source, attached read-only: its registry, and the directory for the *)
(* files.  A log that is not recovered may make the read fail (AdoptFails) *)
AdoptSource(c) ==
    /\ At(c, "source") /\ db # None
    /\ files' = IF files = None THEN [r \in {} |-> {}] ELSE files
    /\ adopt' = [adopt EXCEPT ![c] = [stage |-> "register", todo |-> db.repos, at |-> None]]
    /\ UNCHANGED <<mode, db, hot, catalog, lock, server, acked, overtaken, runs, crashes>>

(* INSERT ... SELECT of rows that must be new, and the parity of the       *)
(* counts.                                                                 *)
Copied(into, rows) ==
    /\ into \cap rows = {}
    /\ Cardinality(into \cup rows) = Cardinality(rows)

(* One repo: its file with the tables, and its row in the registry, which  *)
(* must be new there.                                                      *)
AdoptRepo(c) ==
    /\ At(c, "register")
    /\ \E r \in adopt[c].todo \ catalog.repos:
         /\ catalog' = [catalog EXCEPT !.repos = @ \cup {r}]
         /\ files' = [q \in DOMAIN files \cup {r} |-> IF q \in DOMAIN files THEN files[q] ELSE {}]
         /\ adopt' = [adopt EXCEPT ![c] = [stage |-> "rows", todo |-> @.todo \ {r}, at |-> r]]
    /\ UNCHANGED <<mode, db, hot, lock, server, acked, overtaken, runs, crashes>>

RepoRows(r) == {row \in db.rows: row.table = "repo" /\ row.repo = r}

(* Its rows, table by table.                                               *)
AdoptRows(c) ==
    /\ At(c, "rows")
    /\ LET r == adopt[c].at IN
         /\ Copied(files[r], RepoRows(r))
         /\ files' = [files EXCEPT ![r] = @ \cup RepoRows(r)]
    /\ adopt' = [adopt EXCEPT ![c].stage = "register", ![c].at = None]
    /\ UNCHANGED <<mode, db, hot, catalog, lock, server, acked, overtaken, runs, crashes>>

(* The tables of CATALOG_TABLES: the grants are in none of the lists.      *)
CatalogRows == {row \in db.rows: row.table = "global"}

(* The global rows, after the last repo.                                   *)
AdoptGlobals(c) ==
    /\ At(c, "register") /\ adopt[c].todo = {}
    /\ Copied(catalog.rows, CatalogRows)
    /\ catalog' = [catalog EXCEPT !.rows = @ \cup CatalogRows]
    /\ Goes(c, "verify")
    /\ UNCHANGED <<mode, db, hot, files, lock, server, acked, overtaken, runs, crashes>>

(* The split store opened without the marker, and an fsck that is clean;   *)
(* one that is not is an AdoptFails.                                       *)
AdoptVerify(c) ==
    /\ At(c, "verify") /\ FilesPresent
    /\ Goes(c, "mark")
    /\ UNCHANGED <<mode, db, hot, catalog, files, lock, server, acked, overtaken, runs, crashes>>

(* The marker is the last write.                                           *)
AdoptMark(c) ==
    /\ At(c, "mark")
    /\ catalog' = [catalog EXCEPT !.adopted = TRUE]
    /\ adopt' = [adopt EXCEPT ![c] = Idle] /\ lock' = None
    /\ UNCHANGED <<mode, db, hot, files, server, acked, overtaken, runs, crashes>>

(* cleanup removes the catalog and repos/, or says what it could not       *)
(* remove.                                                                 *)
cleanup == catalog' \in {None, catalog} /\ files' \in {None, files}

(* Any step may fail.                                                      *)
AdoptFails(c) ==
    /\ lock = c
    /\ cleanup
    /\ adopt' = [adopt EXCEPT ![c] = Idle] /\ lock' = None
    /\ UNCHANGED <<mode, db, hot, server, acked, overtaken, runs, crashes>>

AdoptDies(c) ==
    /\ ~At(c, "idle") /\ crashes < MaxCrashes
    /\ adopt' = [adopt EXCEPT ![c] = Idle]
    /\ lock' = IF lock = c THEN None ELSE lock
    /\ crashes' = crashes + 1
    /\ UNCHANGED <<mode, db, hot, catalog, files, server, acked, overtaken, runs>>

-----------------------------------------------------------------------------
(* The operator, who waits for the commands to end and the server to be    *)
(* stopped: the cutover steps, where no command has reported that repos/   *)
(* is gone, and the remedy the refusals name.                              *)

Quiet == server = Down /\ \A c \in Commands: At(c, "idle")

FlipConfig ==
    /\ Quiet /\ mode = "single" /\ Adopted
    /\ mode' = "split"
    /\ UNCHANGED <<db, hot, catalog, files, lock, server, adopt, acked, overtaken, runs, crashes>>

DeleteSource ==
    /\ Quiet /\ mode = "split" /\ Adopted /\ FilesPresent /\ db # None
    /\ db' = None /\ hot' = FALSE
    /\ UNCHANGED <<mode, catalog, files, lock, server, adopt, acked, overtaken, runs, crashes>>

RemovePartial ==
    /\ Quiet /\ ~Adopted
    /\ catalog # None \/ files # None
    /\ catalog' = None /\ files' = None
    /\ UNCHANGED <<mode, db, hot, lock, server, adopt, acked, overtaken, runs, crashes>>

Next ==
    \/ ServerCheck \/ ServerRefused \/ ServerOpenSingle \/ ServerOpenSplit
    \/ ServerStop \/ ServerDies
    \/ \E r \in Repos: CreateRepo(r)
    \/ \E row \in Rows: Write(row)
    \/ \E c \in Commands:
         \/ AdoptGuards(c) \/ AdoptLock(c) \/ AdoptCreate(c) \/ AdoptSource(c)
         \/ AdoptRepo(c) \/ AdoptRows(c) \/ AdoptGlobals(c) \/ AdoptVerify(c)
         \/ AdoptMark(c) \/ AdoptFails(c) \/ AdoptDies(c)
    \/ FlipConfig \/ DeleteSource \/ RemovePartial

Spec == Init /\ [][Next]_vars

-----------------------------------------------------------------------------
Served ==
    IF server.layout = "single" THEN db.rows
    ELSE catalog.rows \cup UNION {files[r]: r \in catalog.repos}

(* A server that is up serves every row it or another has acknowledged,    *)
(* whatever died on the way: open_catalog and the guards let no partial    *)
(* copy through.  Apart from the grants, and from a server whose guard was *)
(* overtaken by a whole adoption before it had the flock.                  *)
ServedWhole ==
    server.stage = "up" /\ ~overtaken =>
        {row \in acked: row.table # "access"} \subseteq Served

(* As long as the source was not deleted it can be served: no command      *)
(* writes naatre.db, and whatever the adoption left, the refusals' remedy  *)
(* leads back to it or to a whole copy.                                    *)
NothingLost ==
    ~overtaken =>
        \/ db # None /\ {row \in acked: row.table # "access"} \subseteq db.rows
        \/ Adopted /\ FilesPresent
           /\ {row \in acked: row.table # "access"} \subseteq
                  catalog.rows \cup UNION {files[r]: r \in catalog.repos}

(* A store that was adopted is whole, however the commands ended.          *)
StoresWhole == ServedWhole /\ NothingLost

(* A repo that was made private stays so: adopt.rs says the catalog gets   *)
(* the global tables, and catalog.rs that the grants are among them.       *)
GrantsServed ==
    server.stage = "up" /\ ~overtaken =>
        {row \in acked: row.table = "access"} \subseteq Served
=============================================================================
