--------------------------- MODULE DatabaseSetup ---------------------------
(***************************************************************************)
(* How the server opens its database of files, brings an older one up to   *)
(* date, and, in the build with a memory database, loads and flushes it:   *)
(* get_dbs(), get_db(), make_tables(), pdb_backup(), pdb_restore() and     *)
(* cleanup_db() of pseudo_db.c.                                            *)
(*                                                                         *)
(* Every SQL statement is a transaction of its own, and the server may be  *)
(* killed between any two; files.db is then what the statements so far     *)
(* have made of it.  (The build on disk uses a write-ahead log, so that a  *)
(* statement that is cut off has no effect; the build with a memory        *)
(* database uses no journal, and a statement cut off in the middle is      *)
(* outside this module.)  Of the rows of table files only their number     *)
(* is kept, since the requests are the subject of module PseudoOp.         *)
(***************************************************************************)
EXTENDS Integers, Sequences

CONSTANTS
    Builds,         \* "disk", or "memory" when USE_MEMORY_DB is defined
    Attributes,     \* the extended attributes an old database may hold
    Databases,      \* files.db as an earlier release, or no release, left it
    MaxUpdates,     \* bound: requests that change the database
    MaxCrashes      \* bound: times the server is killed, or a statement fails

None == [a \in Attributes |-> 0]

TableNames == {"files", "xattrs", "migrations"}

\* the indexes of file_indexes, and the two that the migrations create
IndexNames == {"files__path_dev_ino", "files__dev_ino", "migration__version",
               "xattrs_dev_ino", "xattrs_dev_ino_name",
               "xattrs__dev_ino", "xattrs__dev_ino_name"}

\* files has the column deleting or is older; xattrs belongs to a file_id when
\* it is old; attrs and attrsNew count the rows of xattrs and xattrs_new for
\* each attribute; an index is its name and its table; unversioned is a ghost: a
\* release that kept no record of its migrations wrote the database
Database ==
    [files : {"none", "old", "new"}, xattrs : {"none", "old", "new"},
     xattrs_new : BOOLEAN, migrations : BOOLEAN,
     attrs : [Attributes -> Nat], attrsNew : [Attributes -> Nat],
     versions : SUBSET (0..8), indexes : SUBSET (IndexNames \X TableNames), rows : Nat,
     unversioned : BOOLEAN]

Empty ==
    [files |-> "none", xattrs |-> "none", xattrs_new |-> FALSE,
     migrations |-> FALSE, attrs |-> None, attrsNew |-> None,
     versions |-> {}, indexes |-> {}, rows |-> 0, unversioned |-> FALSE]

\* What the recorded versions say of the tables of a release that records them:
\* a migration that is recorded was done, and a database without the table of
\* migrations is one that this release began to create.
Versioned(d) ==
    /\ (\E v \in d.versions : v >= 2) => d.files = "new"
    /\ (\E v \in d.versions : v >= 6) => d.xattrs = "new" /\ ~d.xattrs_new
    /\ 8 \in d.versions => \A a \in Attributes : d.attrs[a] <= 1
    /\ ~d.migrations => /\ d.files # "old" /\ d.xattrs # "old" /\ ~d.xattrs_new
                        /\ \A a \in Attributes : d.attrs[a] <= 1

Recorded(d) ==
    /\ ~d.unversioned => Versioned(d)
    /\ 4 \in d.versions /\ 5 \notin d.versions =>
          \A a \in Attributes : d.attrs[a] > 0 => d.attrsNew[a] > 0
    /\ d.xattrs = "none" => d.attrs = None

ASSUME DatabaseAssumption ==
    /\ Builds \subseteq {"disk", "memory"}
    /\ \A d \in Databases : /\ d \in Database /\ Recorded(d)
                            /\ d.unversioned => ~d.migrations
    /\ MaxUpdates \in Nat /\ MaxCrashes \in Nat

VARIABLES
    build,
    disk,       \* files.db
    mem,        \* the memory database
    pc,         \* where the server is
    n,          \* the table, index or migration it is at
    already,    \* already_loaded, of get_dbs()
    open,       \* the handles log_db, real_file_db and file_db that are set
    rc,         \* what make_tables() returned for files.db
    dirty,      \* file_db_dirty
    failed,     \* files.db could not be opened, loaded or written
    updates, crashes

handles == << already, open, rc >>
bounds  == << updates, crashes >>
vars == << build, disk, mem, pc, n, handles, dirty, failed, bounds >>
-----------------------------------------------------------------------------
(* file_tables, file_indexes, file_migrations *)

Tables == << "files", "xattrs", "migrations" >>

file_indexes ==
    << << "files__path_dev_ino", "files" >>, << "files__dev_ino", "files" >>,
       << "migration__version", "migrations" >>,
       << "xattrs_dev_ino", "xattrs" >>, << "xattrs_dev_ino_name", "xattrs" >> >>

Exists(d, t) ==
    CASE t = "files"      -> d.files # "none"
      [] t = "xattrs"     -> d.xattrs # "none"
      [] t = "migrations" -> d.migrations

CreateTable(d, t) ==
    CASE t = "files"      -> [d EXCEPT !.files = "new"]
      [] t = "xattrs"     -> [d EXCEPT !.xattrs = "new", !.attrs = None]
      [] t = "migrations" -> [d EXCEPT !.migrations = TRUE, !.versions = {}]

LastMigration == 8

\* files_default_migrations: a new table says that every migration is done
Populate(d, t) ==
    IF t = "migrations" THEN [d EXCEPT !.versions = {LastMigration}] ELSE d

HasIndex(d, name) == \E i \in d.indexes : i[1] = name
Index(d, name, t) == [d EXCEPT !.indexes = @ \cup {<< name, t >>}]
OnTable(d, t) == {i \in d.indexes : i[2] = t}

\* What statement m of file_migrations needs, and what it does.  A column that
\* is there is not added again, xattrs has file_id in its old form only, a table
\* or an index is not created over one of the same name, and a unique index
\* needs rows that differ.
MigrationFits(m, d) ==
    CASE m = 0 -> ~d.migrations
      [] m = 1 -> ~HasIndex(d, "migration__version")
      [] m = 2 -> d.files = "old"
      [] m = 3 -> ~d.xattrs_new
      [] m = 4 -> d.xattrs = "old" /\ d.xattrs_new
      [] m = 5 -> d.xattrs # "none"
      [] m = 6 -> d.xattrs = "none" /\ d.xattrs_new
      [] m = 7 -> ~HasIndex(d, "xattrs__dev_ino")
      [] m = 8 -> /\ ~HasIndex(d, "xattrs__dev_ino_name")
                  /\ \A a \in Attributes : d.attrs[a] <= 1

CopyAttributes(d) ==
    [d EXCEPT !.attrsNew = [a \in Attributes |-> @[a] + d.attrs[a]]]

DropXattrs(d) ==
    [d EXCEPT !.xattrs = "none", !.attrs = None,
              !.indexes = @ \ OnTable(d, "xattrs")]

RenameXattrs(d) ==
    [d EXCEPT !.xattrs = "new", !.attrs = d.attrsNew,
              !.xattrs_new = FALSE, !.attrsNew = None]

Migrated_DropFirst(m, d) ==
    CASE m = 0 -> CreateTable(d, "migrations")
      [] m = 1 -> Index(d, "migration__version", "migrations")
      [] m = 2 -> [d EXCEPT !.files = "new"]
      [] m = 3 -> [d EXCEPT !.xattrs_new = TRUE]
      [] m = 4 -> DropXattrs(d)
      [] m = 5 -> CopyAttributes(d)
      [] m = 6 -> RenameXattrs(d)
      [] m = 7 -> Index(d, "xattrs__dev_ino", "xattrs")
      [] m = 8 -> Index(d, "xattrs__dev_ino_name", "xattrs")

Migrated(m, d) ==
    CASE m = 0 -> CreateTable(d, "migrations")
      [] m = 1 -> Index(d, "migration__version", "migrations")
      [] m = 2 -> [d EXCEPT !.files = "new"]
      [] m = 3 -> [d EXCEPT !.xattrs_new = TRUE]
      [] m = 4 -> CopyAttributes(d)
      [] m = 5 -> DropXattrs(d)
      [] m = 6 -> RenameXattrs(d)
      [] m = 7 -> Index(d, "xattrs__dev_ino", "xattrs")
      [] m = 8 -> Index(d, "xattrs__dev_ino_name", "xattrs")

\* SELECT MAX(version): of an empty table this is one row that holds NULL, and
\* NULL is read as 0
Version(d) ==
    IF d.versions = {} THEN 0
    ELSE CHOOSE v \in d.versions : \A w \in d.versions : w <= v

\* what make_tables() makes of an empty database
Fresh ==
    Populate(CreateTable(CreateTable(CreateTable(
        [Empty EXCEPT !.indexes = {file_indexes[i] : i \in DOMAIN file_indexes}],
        "files"), "xattrs"), "migrations"), "migrations")
-----------------------------------------------------------------------------
(* get_dbs(), which a request calls as long as the handle it needs is not  *)
(* set: logs.db, files.db, in one build the memory database, the restore.  *)

\* the database the requests work on
Current(b, d, m) == IF b = "memory" THEN m ELSE d
file_db == Current(build, disk, mem)

\* a request about a file needs file_db, and one that is logged needs log_db
get_dbs ==
    /\ pc = "up" /\ ~({"log", "file"} \subseteq open)
    /\ already' = ("file" \in open)
    /\ pc' = "logs"
    /\ UNCHANGED << build, disk, mem, n, open, rc, dirty, failed, bounds >>

OpenLog ==
    /\ pc = "logs"
    /\ \/ open' = open \cup {"log"}
       \/ "log" \notin open /\ UNCHANGED open
    /\ pc' = "files"
    /\ UNCHANGED << build, disk, mem, n, already, rc, dirty, failed, bounds >>

\* the handle of files.db
Handle == IF build = "memory" THEN "real" ELSE "file"

\* a handle that is set is left alone; a new one is set before the tables are
\* looked at, and stays set when make_tables() fails
OpenFiles ==
    /\ pc = "files"
    /\ \/ /\ Handle \in open
          /\ pc' = "memory" /\ UNCHANGED << n, open, rc, failed >>
       \/ /\ Handle \notin open
          /\ open' = open \cup {Handle} /\ n' = 1
          /\ pc' = "table" /\ UNCHANGED << rc, failed >>
       \/ /\ Handle \notin open
          /\ rc' = 1 /\ failed' = TRUE
          /\ pc' = "memory" /\ UNCHANGED << n, open >>
    /\ UNCHANGED << build, disk, mem, already, dirty, bounds >>

OpenMemory ==
    /\ pc = "memory"
    /\ \/ build = "memory" /\ "file" \notin open
          /\ open' = open \cup {"file"} /\ mem' = Fresh
       \/ (build = "disk" \/ "file" \in open) /\ UNCHANGED << open, mem >>
    /\ pc' = "restore"
    /\ UNCHANGED << build, disk, n, already, rc, dirty, failed, bounds >>

\* a database that is in use already is not loaded again
Restores_Always == build = "memory" /\ {"file", "real"} \subseteq open
Restores == build = "memory" /\ ~already /\ {"file", "real"} \subseteq open

pdb_restore ==
    /\ pc = "restore"
    /\ \/ Restores /\ dirty' = FALSE /\ mem' = disk /\ UNCHANGED failed
       \/ Restores /\ dirty' = FALSE /\ failed' = TRUE /\ UNCHANGED mem
       \/ ~Restores /\ UNCHANGED << mem, dirty, failed >>
    /\ already' = FALSE
    /\ pc' = "up"
    /\ UNCHANGED << build, disk, n, open, rc, bounds >>
-----------------------------------------------------------------------------
(* make_tables() *)

\* the next table that is missing is created, filled and indexed
MakeTable ==
    /\ pc = "table" /\ n \in DOMAIN Tables
    /\ \/ Exists(disk, Tables[n]) /\ n' = n + 1 /\ UNCHANGED << disk, pc >>
       \/ /\ ~Exists(disk, Tables[n])
          /\ disk' = CreateTable(disk, Tables[n])
          /\ pc' = "populate" /\ UNCHANGED n
    /\ UNCHANGED << build, mem, handles, dirty, failed, bounds >>

PopulateTable ==
    /\ pc = "populate"
    /\ disk' = Populate(disk, Tables[n])
    /\ pc' = "index"
    /\ UNCHANGED << build, mem, n, handles, dirty, failed, bounds >>

MakeIndex ==
    /\ pc = "index"
    /\ LET missing == {i \in DOMAIN file_indexes : file_indexes[i][2] = Tables[n]
                          /\ file_indexes[i] \notin disk.indexes}
       IN  \/ \E i \in missing :
                 /\ \A j \in missing : i <= j
                 /\ disk' = Index(disk, file_indexes[i][1], Tables[n])
                 /\ UNCHANGED << pc, n >>
           \/ missing = {} /\ n' = n + 1 /\ pc' = "table" /\ UNCHANGED disk
    /\ UNCHANGED << build, mem, handles, dirty, failed, bounds >>

ReadVersion ==
    /\ pc = "table" /\ n > Len(Tables)
    /\ n' = Version(disk) + 1
    /\ pc' = "migrate"
    /\ UNCHANGED << build, disk, mem, handles, dirty, failed, bounds >>

RunMigration_Ignored ==
    /\ pc = "migrate" /\ n <= LastMigration
    /\ disk' = IF MigrationFits(n, disk) THEN Migrated(n, disk) ELSE disk
    /\ pc' = "record"
    /\ UNCHANGED << build, mem, n, handles, dirty, failed, bounds >>

RunMigration ==
    /\ pc = "migrate" /\ n <= LastMigration
    /\ \/ /\ MigrationFits(n, disk)
          /\ disk' = Migrated(n, disk)
          /\ pc' = "record" /\ UNCHANGED rc
       \/ /\ ~MigrationFits(n, disk)
          /\ rc' = 1 /\ pc' = "memory" /\ UNCHANGED disk
    /\ UNCHANGED << build, mem, n, already, open, dirty, failed, bounds >>

RecordMigration ==
    /\ pc = "record"
    /\ disk' = [disk EXCEPT !.versions = @ \cup {n}]
    /\ n' = n + 1
    /\ pc' = "migrate"
    /\ UNCHANGED << build, mem, handles, dirty, failed, bounds >>

TablesMade ==
    /\ pc = "migrate" /\ n > LastMigration
    /\ rc' = 0
    /\ pc' = "memory"
    /\ UNCHANGED << build, disk, mem, n, already, open, dirty, failed, bounds >>

\* a statement fails for want of space or memory: make_tables() gives up
MakeTablesFails ==
    /\ \/ pc \in {"table", "populate", "index", "record"}
       \/ pc = "migrate" /\ n <= LastMigration
    /\ crashes < MaxCrashes /\ crashes' = crashes + 1
    /\ rc' = 1
    /\ pc' = "memory"
    /\ UNCHANGED << build, disk, mem, n, already, open, dirty, failed, updates >>
-----------------------------------------------------------------------------
(* The server's life *)

\* a request that changes the database; a statement that names a column which
\* is not there cannot be prepared, and the request fails
Update ==
    /\ pc = "up" /\ "file" \in open /\ updates < MaxUpdates
    /\ file_db.files = "new"
    /\ IF build = "memory" THEN mem' = [mem EXCEPT !.rows = @ + 1] /\ UNCHANGED disk
                           ELSE disk' = [disk EXCEPT !.rows = @ + 1] /\ UNCHANGED mem
    /\ dirty' = TRUE
    /\ updates' = updates + 1
    /\ UNCHANGED << build, pc, n, handles, failed, crashes >>

\* the flag is cleared even when the backup has failed
pdb_backup ==
    IF build = "memory" /\ {"file", "real"} \subseteq open /\ dirty
    THEN /\ \/ disk' = mem /\ UNCHANGED failed
            \/ failed' = TRUE /\ UNCHANGED disk
         /\ dirty' = FALSE
    ELSE UNCHANGED << disk, dirty, failed >>

\* every tenth time that the server has nothing to do, and when it refuses to
\* shut down
pdb_maybe_backup ==
    /\ pc = "up" /\ dirty
    /\ pdb_backup
    /\ UNCHANGED << build, mem, pc, n, handles, bounds >>

Stopped ==
    /\ pc' = "down" /\ n' = 0 /\ already' = FALSE /\ open' = {} /\ rc' = 0
    /\ mem' = Empty

\* exit()
cleanup_db ==
    /\ pc = "up"
    /\ pdb_backup
    /\ Stopped
    /\ UNCHANGED << build, bounds >>

Crash ==
    /\ pc # "down" /\ crashes < MaxCrashes
    /\ crashes' = crashes + 1
    /\ Stopped
    /\ dirty' = FALSE
    /\ UNCHANGED << build, disk, failed, updates >>

Start ==
    /\ pc = "down"
    /\ pc' = "up" /\ dirty' = FALSE
    /\ UNCHANGED << build, disk, mem, n, handles, failed, bounds >>

Init ==
    /\ build \in Builds
    /\ disk \in Databases /\ mem = Empty
    /\ pc = "down" /\ n = 0
    /\ already = FALSE /\ open = {} /\ rc = 0
    /\ dirty = FALSE /\ failed = FALSE
    /\ updates = 0 /\ crashes = 0

Next ==
    \/ Start \/ get_dbs \/ OpenLog \/ OpenFiles \/ OpenMemory \/ pdb_restore
    \/ MakeTable \/ PopulateTable \/ MakeIndex
    \/ ReadVersion \/ RunMigration \/ RecordMigration \/ TablesMade \/ MakeTablesFails
    \/ Update \/ pdb_maybe_backup \/ cleanup_db \/ Crash

Spec == Init /\ [][Next]_vars
-----------------------------------------------------------------------------
(* Types of the variables. *)
TypeOK ==
    /\ build \in Builds /\ disk \in Database /\ mem \in Database
    /\ pc \in {"down", "up", "logs", "files", "table", "populate", "index",
               "migrate", "record", "memory", "restore"}
    /\ n \in Nat /\ rc \in {0, 1}
    /\ already \in BOOLEAN /\ dirty \in BOOLEAN /\ failed \in BOOLEAN
    /\ open \subseteq {"log", "real", "file"}
    /\ updates \in 0..MaxUpdates /\ crashes \in 0..MaxCrashes

(* make_tables() says it succeeded only when it did ("We then perform, and *)
(* then record, each migration in sequence"): a server that has opened     *)
(* files.db without an error works on the tables of this release, with     *)
(* each attribute once, whichever release that recorded its migrations     *)
(* wrote the database and wherever earlier servers were killed or failed   *)
(* while they created or migrated it.  It is not so for a database without *)
(* the table of migrations: the comment at pseudo_db.c:202 takes it for    *)
(* version -1, and the code creates the table with version 8.              *)
SetUpRight ==
    pc = "up" /\ Handle \in open /\ rc = 0 /\ ~disk.unversioned =>
        /\ disk.files = "new" /\ disk.xattrs = "new" /\ ~disk.xattrs_new
        /\ Version(disk) = LastMigration
        /\ \A a \in Attributes : disk.attrs[a] <= 1

Holds(d, a) == d.attrs[a] + d.attrsNew[a] > 0

(* No attribute is lost on the way from the old table to the new one       *)
(* (file_migrations 3 to 6, the tables that make_tables() creates), at     *)
(* whatever statement a server is killed and however many try again.  (A   *)
(* memory database that could not be loaded overwrites files.db.)  Kept is *)
(* not readable: a server killed after migration 5 is recorded leaves the  *)
(* attributes in xattrs_new, the next one creates an empty xattrs, and     *)
(* from then on migration 6 fails.                                         *)
AttributesKept ==
    [][\/ \A a \in Attributes : Holds(disk, a) => Holds(disk', a)
       \/ build = "memory" /\ failed]_vars

\* what a client that looks finds, or would find after a restart
Loaded  == "file" \in open /\ (pc = "up" \/ already)
Content == IF Loaded THEN file_db.rows ELSE disk.rows

(* No row is lost (already_loaded in get_dbs, file_db_dirty, cleanup_db,   *)
(* the write-ahead log): neither by opening databases again because one of *)
(* them is missing, nor by an exit and a restart, nor, on disk, by a       *)
(* crash.  A memory database loses what was not flushed when the server is *)
(* killed, and more when files.db could not be read or written.            *)
RowsKept ==
    [][\/ Content' >= Content
       \/ build = "memory" /\ ((crashes' > crashes /\ pc' = "down") \/ failed')]_vars
=============================================================================
