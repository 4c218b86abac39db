------------------------ MODULE DatabaseSetup_proof ------------------------
(***************************************************************************)
(* Theorems about DatabaseSetup, for any databases, attributes, changes    *)
(* and crashes.                                                            *)
(*                                                                         *)
(* A start says that it succeeded when the last migration is recorded, so  *)
(* SetUpRight rests on Recorded: whatever is recorded was done.  That is   *)
(* kept because the record is written after the statement, and because a   *)
(* table of migrations that says "all done" is created only over tables    *)
(* of this release, except for a database from before the record, which    *)
(* the invariant carries along as unversioned.  The memory database adds   *)
(* that it is a copy of files.db, up to the rows that are still to be      *)
(* flushed, as long as nothing has failed.                                 *)
(***************************************************************************)
EXTENDS DatabaseSetup, TLAPS

Making == {"table", "populate", "index", "migrate", "record"}

OneEach(d) == \A a \in Attributes : d.attrs[a] <= 1
CopiedAll(d) == \A a \in Attributes : d.attrs[a] > 0 => d.attrsNew[a] > 0

\* How far make_tables() has come with the tables.
TablesInv ==
    pc \in {"table", "populate", "index"} =>
        /\ n \in 1..4 /\ (pc # "table" => n <= 3)
        /\ n >= 2 => disk.files # "none"
        /\ n >= 3 => disk.xattrs # "none"
        /\ n = 4 => disk.migrations
        /\ pc # "table" => Exists(disk, Tables[n])
        /\ pc = "populate" /\ n = 3 /\ ~disk.unversioned =>
              /\ disk.files = "new" /\ disk.xattrs = "new" /\ ~disk.xattrs_new
              /\ OneEach(disk)

\* How far it has come with the migrations: the one before n is recorded, and at
\* "record" n itself is done.
MigrateInv ==
    pc \in {"migrate", "record"} =>
        /\ disk.migrations /\ n \in 1..9
        /\ \A v \in disk.versions : v < n
        /\ n > 1 => n - 1 \in disk.versions
        /\ pc = "record" =>
              /\ n <= 8
              /\ ~disk.unversioned =>
                    /\ n >= 2 => disk.files = "new"
                    /\ n >= 6 => disk.xattrs = "new" /\ ~disk.xattrs_new
                    /\ n = 8 => OneEach(disk)
              /\ n = 4 => CopiedAll(disk)

\* The handles.  A handle of files.db without an error stands for a database
\* that is up to date; the memory database is, too, unless it was loaded from
\* one that is not.
HandleInv ==
    /\ pc = "down" => open = {}
    /\ already => "file" \in open
    /\ pc = "up" => ~already
    /\ pc \in Making => Handle \in open
    /\ pc = "restore" /\ build = "memory" => "file" \in open
    /\ Handle \in open /\ rc = 0 /\ pc \notin Making /\ pc # "down" => 8 \in disk.versions
    /\ build = "memory" /\ "file" \in open =>
          \/ 8 \in mem.versions
          \/ rc = 1 /\ "real" \in open /\ pc \notin Making

\* The memory database, as long as nothing has failed.
MemoryInv ==
    build = "memory" /\ ~failed =>
        /\ pc \in {"memory", "restore"} \/ "file" \in open => "real" \in open
        /\ pc \in Making => "file" \notin open
        /\ Loaded => mem.attrs = disk.attrs /\ mem.attrsNew = disk.attrsNew
        /\ Loaded /\ ~dirty => mem.rows = disk.rows

IInv == /\ TypeOK /\ Recorded(disk) /\ Recorded(mem)
        /\ TablesInv /\ MigrateInv /\ HandleInv /\ MemoryInv
-----------------------------------------------------------------------------
(* What the statements do to a database *)

\* No attribute in either table
LEMMA NoneFacts == /\ None \in [Attributes -> Nat]
                   /\ \A a \in Attributes : None[a] = 0
  BY DEF None

\* The tables of two databases, apart from the records and the indexes
SameFiles(d, e)  == e.files = d.files /\ e.rows = d.rows
SameXattrs(d, e) == /\ e.xattrs = d.xattrs /\ e.xattrs_new = d.xattrs_new
                    /\ e.attrs = d.attrs /\ e.attrsNew = d.attrsNew
SameRecord(d, e) == /\ e.migrations = d.migrations /\ e.versions = d.versions
                    /\ e.unversioned = d.unversioned

\* What each field of a database holds
LEMMA DatabaseFields ==
  ASSUME NEW d \in Database
  PROVE  /\ d.files \in {"none", "old", "new"} /\ d.xattrs \in {"none", "old", "new"}
         /\ d.xattrs_new \in BOOLEAN /\ d.migrations \in BOOLEAN
         /\ d.attrs \in [Attributes -> Nat] /\ d.attrsNew \in [Attributes -> Nat]
         /\ d.versions \subseteq 0..8
         /\ d.indexes \subseteq IndexNames \X TableNames
         /\ d.rows \in Nat /\ d.unversioned \in BOOLEAN
  BY DEF Database

\* CREATE TABLE of the three tables
LEMMA CreateFiles ==
  ASSUME NEW d \in Database, NEW e, e = CreateTable(d, "files")
  PROVE  /\ e \in Database /\ e.files = "new" /\ e.rows = d.rows
         /\ SameXattrs(d, e) /\ SameRecord(d, e)
  BY DEF CreateTable, Database, SameXattrs, SameRecord

LEMMA CreateXattrs ==
  ASSUME NEW d \in Database, NEW e, e = CreateTable(d, "xattrs")
  PROVE  /\ e \in Database /\ e.xattrs = "new" /\ e.attrs = None
         /\ e.xattrs_new = d.xattrs_new /\ e.attrsNew = d.attrsNew
         /\ SameFiles(d, e) /\ SameRecord(d, e)
  BY NoneFacts DEF CreateTable, Database, SameFiles, SameRecord

LEMMA CreateMigrations ==
  ASSUME NEW d \in Database, NEW e, e = CreateTable(d, "migrations")
  PROVE  /\ e \in Database /\ e.migrations = TRUE /\ e.versions = {}
         /\ e.unversioned = d.unversioned
         /\ SameFiles(d, e) /\ SameXattrs(d, e)
  BY DEF CreateTable, Database, SameFiles, SameXattrs

\* The first row of the table of migrations
LEMMA PopulateMigrations ==
  ASSUME NEW d \in Database, NEW e, e = Populate(d, "migrations")
  PROVE  /\ e \in Database /\ e.migrations = d.migrations /\ e.versions = {8}
         /\ e.unversioned = d.unversioned
         /\ SameFiles(d, e) /\ SameXattrs(d, e)
  BY DEF Populate, LastMigration, Database, SameFiles, SameXattrs

\* An index
LEMMA IndexFacts ==
  ASSUME NEW d \in Database, NEW name \in IndexNames, NEW t \in TableNames,
         NEW e, e = Index(d, name, t)
  PROVE  /\ e \in Database
         /\ SameFiles(d, e) /\ SameXattrs(d, e) /\ SameRecord(d, e)
  BY DEF Index, Database, SameFiles, SameXattrs, SameRecord

\* The record of a migration
LEMMA RecordFacts ==
  ASSUME NEW d \in Database, NEW m \in 0..8,
         NEW e, e = [d EXCEPT !.versions = @ \cup {m}]
  PROVE  /\ e \in Database
         /\ e.migrations = d.migrations /\ e.versions = d.versions \cup {m}
         /\ e.unversioned = d.unversioned
         /\ SameFiles(d, e) /\ SameXattrs(d, e)
  BY DEF Database, SameFiles, SameXattrs

\* A request that adds a row
LEMMA RowFacts ==
  ASSUME NEW d \in Database, NEW e, e = [d EXCEPT !.rows = @ + 1]
  PROVE  /\ e \in Database /\ e.files = d.files /\ e.rows = d.rows + 1
         /\ SameXattrs(d, e) /\ SameRecord(d, e)
  BY DEF Database, SameXattrs, SameRecord

\* The migrations of table files and of table xattrs
LEMMA MigratedFiles ==
  ASSUME NEW d \in Database, NEW e, e = Migrated(2, d)
  PROVE  /\ e \in Database /\ e.files = "new" /\ e.rows = d.rows
         /\ SameXattrs(d, e) /\ SameRecord(d, e)
  BY DEF Migrated, Database, SameXattrs, SameRecord

LEMMA MigratedNewTable ==
  ASSUME NEW d \in Database, NEW e, e = Migrated(3, d)
  PROVE  /\ e \in Database /\ SameFiles(d, e) /\ SameRecord(d, e)
         /\ e.xattrs = d.xattrs /\ e.xattrs_new = TRUE
         /\ e.attrs = d.attrs /\ e.attrsNew = d.attrsNew
<1>1. e = [d EXCEPT !.xattrs_new = TRUE]
  BY DEF Migrated
<1>. QED
  BY <1>1 DEF Database, SameFiles, SameRecord

LEMMA MigratedCopy ==
  ASSUME NEW d \in Database, NEW e, e = Migrated(4, d)
  PROVE  /\ e \in Database /\ SameFiles(d, e) /\ SameRecord(d, e)
         /\ e.xattrs = d.xattrs /\ e.xattrs_new = d.xattrs_new
         /\ e.attrs = d.attrs
         /\ \A a \in Attributes : e.attrsNew[a] = d.attrsNew[a] + d.attrs[a]
<1>1. e = CopyAttributes(d)
  BY DEF Migrated
<1>. DEFINE f == [a \in Attributes |-> d.attrsNew[a] + d.attrs[a]]
<1>2. f \in [Attributes -> Nat] /\ \A a \in Attributes : f[a] = d.attrsNew[a] + d.attrs[a]
  BY DatabaseFields
<1>3. e = [d EXCEPT !.attrsNew = f]
  BY <1>1 DEF CopyAttributes, Database
<1>. QED
  <2>. HIDE DEF f
  <2>. QED BY <1>2, <1>3 DEF Database, SameFiles, SameRecord

LEMMA MigratedDrop ==
  ASSUME NEW d \in Database, NEW e, e = Migrated(5, d)
  PROVE  /\ e \in Database /\ SameFiles(d, e) /\ SameRecord(d, e)
         /\ e.xattrs = "none" /\ e.xattrs_new = d.xattrs_new
         /\ e.attrs = None /\ e.attrsNew = d.attrsNew
<1>1. e = DropXattrs(d)
  BY DEF Migrated
<1>. QED
  BY <1>1, NoneFacts DEF DropXattrs, OnTable, Database, SameFiles, SameRecord

LEMMA MigratedRename ==
  ASSUME NEW d \in Database, NEW e, e = Migrated(6, d)
  PROVE  /\ e \in Database /\ SameFiles(d, e) /\ SameRecord(d, e)
         /\ e.xattrs = "new" /\ e.xattrs_new = FALSE
         /\ e.attrs = d.attrsNew /\ e.attrsNew = None
<1>1. e = RenameXattrs(d)
  BY DEF Migrated
<1>. QED
  BY <1>1, NoneFacts DEF RenameXattrs, Database, SameFiles, SameRecord

\* The migrations that create an index
LEMMA MigratedIndex ==
  ASSUME NEW d \in Database, NEW m \in {1, 7, 8}, NEW e, e = Migrated(m, d)
  PROVE  /\ e \in Database
         /\ SameFiles(d, e) /\ SameXattrs(d, e) /\ SameRecord(d, e)
<1>1. CASE m = 1
  <2>1. e = Index(d, "migration__version", "migrations")
    BY <1>1 DEF Migrated
  <2>2. "migration__version" \in IndexNames /\ "migrations" \in TableNames
    BY DEF IndexNames, TableNames
  <2>. QED BY <2>1, <2>2, IndexFacts
<1>2. CASE m = 7
  <2>1. e = Index(d, "xattrs__dev_ino", "xattrs")
    BY <1>2 DEF Migrated
  <2>2. "xattrs__dev_ino" \in IndexNames /\ "xattrs" \in TableNames
    BY DEF IndexNames, TableNames
  <2>. QED BY <2>1, <2>2, IndexFacts
<1>3. CASE m = 8
  <2>1. e = Index(d, "xattrs__dev_ino_name", "xattrs")
    BY <1>3 DEF Migrated
  <2>2. "xattrs__dev_ino_name" \in IndexNames /\ "xattrs" \in TableNames
    BY DEF IndexNames, TableNames
  <2>. QED BY <2>1, <2>2, IndexFacts
<1>. QED BY <1>1, <1>2, <1>3
-----------------------------------------------------------------------------
(* The databases to begin with, and the last version *)

LEMMA EmptyFacts ==
  /\ Empty \in Database /\ Recorded(Empty)
  /\ Empty.rows = 0 /\ Empty.versions = {}
<1>1. /\ Empty \in Database /\ Empty.rows = 0 /\ Empty.versions = {}
      /\ Empty.files = "none" /\ Empty.xattrs = "none" /\ Empty.xattrs_new = FALSE
      /\ Empty.attrs = None /\ Empty.attrsNew = None /\ Empty.migrations = FALSE
  BY NoneFacts DEF Empty, Database
<1>. QED
  BY <1>1, NoneFacts DEF Recorded, Versioned

\* The indexes of file_indexes
LEMMA IndexesNamed ==
  /\ DOMAIN file_indexes = 1..5
  /\ \A i \in 1..5 : file_indexes[i] \in IndexNames \X TableNames
<1>1. DOMAIN file_indexes = 1..5
  BY DEF file_indexes
<1>2. /\ file_indexes[1] = << "files__path_dev_ino", "files" >>
      /\ file_indexes[2] = << "files__dev_ino", "files" >>
      /\ file_indexes[3] = << "migration__version", "migrations" >>
      /\ file_indexes[4] = << "xattrs_dev_ino", "xattrs" >>
      /\ file_indexes[5] = << "xattrs_dev_ino_name", "xattrs" >>
  BY DEF file_indexes
<1>3. file_indexes[1] \in IndexNames \X TableNames  BY <1>2 DEF IndexNames, TableNames
<1>4. file_indexes[2] \in IndexNames \X TableNames  BY <1>2 DEF IndexNames, TableNames
<1>5. file_indexes[3] \in IndexNames \X TableNames  BY <1>2 DEF IndexNames, TableNames
<1>6. file_indexes[4] \in IndexNames \X TableNames  BY <1>2 DEF IndexNames, TableNames
<1>7. file_indexes[5] \in IndexNames \X TableNames  BY <1>2 DEF IndexNames, TableNames
<1>. HIDE DEF file_indexes
<1>. QED BY <1>1, <1>3, <1>4, <1>5, <1>6, <1>7

LEMMA FreshFacts ==
  Fresh \in Database /\ Recorded(Fresh) /\ 8 \in Fresh.versions
<1>. DEFINE S == {file_indexes[i] : i \in DOMAIN file_indexes}
            d0 == [Empty EXCEPT !.indexes = S]
            d1 == CreateTable(d0, "files")
            d2 == CreateTable(d1, "xattrs")
            d3 == CreateTable(d2, "migrations")
<1>1. S \subseteq IndexNames \X TableNames
  BY IndexesNamed
<1>2. d0 \in Database /\ d0.xattrs_new = FALSE
  <2>. HIDE DEF S
  <2>. QED BY <1>1, NoneFacts DEF Empty, Database
<1>. HIDE DEF d0
<1>3. d1 \in Database /\ d1.files = "new" /\ d1.xattrs_new = FALSE
  BY <1>2, CreateFiles DEF SameXattrs
<1>. HIDE DEF d1
<1>4. /\ d2 \in Database /\ d2.files = "new" /\ d2.xattrs_new = FALSE
      /\ d2.xattrs = "new" /\ d2.attrs = None
  BY <1>3, CreateXattrs DEF SameFiles
<1>. HIDE DEF d2
<1>5. /\ d3 \in Database /\ d3.files = "new" /\ d3.xattrs_new = FALSE
      /\ d3.xattrs = "new" /\ d3.attrs = None /\ d3.migrations = TRUE
  BY <1>4, CreateMigrations DEF SameFiles, SameXattrs
<1>. HIDE DEF d3
<1>6. Fresh = Populate(d3, "migrations")
  BY DEF Fresh, S, d0, d1, d2, d3
<1>7. /\ Fresh \in Database /\ Fresh.files = "new" /\ Fresh.xattrs_new = FALSE
      /\ Fresh.xattrs = "new" /\ Fresh.attrs = None /\ Fresh.migrations = TRUE
      /\ Fresh.versions = {8}
  BY <1>5, <1>6, PopulateMigrations DEF SameFiles, SameXattrs
<1>. QED
  BY <1>7, NoneFacts DEF Recorded, Versioned

\* Version() is a version that is recorded, and none is later
LEMMA VersionFacts ==
  ASSUME NEW d \in Database
  PROVE  /\ Version(d) \in 0..8
         /\ \A v \in d.versions : v <= Version(d)
         /\ Version(d) > 0 => Version(d) \in d.versions
<1>. DEFINE top(v) == v \in d.versions /\ \A w \in d.versions : w <= v
<1>1. d.versions \subseteq 0..8
  BY DatabaseFields
<1>2. CASE d.versions = {}
  BY <1>2 DEF Version
<1>3. CASE d.versions # {}
  <2>1. \E v \in d.versions : \A w \in d.versions : w <= v
    <3>1. CASE 8 \in d.versions  BY <1>1, <3>1
    <3>2. CASE 8 \notin d.versions /\ 7 \in d.versions  BY <1>1, <3>2
    <3>3. CASE {7, 8} \cap d.versions = {} /\ 6 \in d.versions  BY <1>1, <3>3
    <3>4. CASE {6, 7, 8} \cap d.versions = {} /\ 5 \in d.versions  BY <1>1, <3>4
    <3>5. CASE {5, 6, 7, 8} \cap d.versions = {} /\ 4 \in d.versions  BY <1>1, <3>5
    <3>6. CASE {4, 5, 6, 7, 8} \cap d.versions = {} /\ 3 \in d.versions  BY <1>1, <3>6
    <3>7. CASE {3, 4, 5, 6, 7, 8} \cap d.versions = {} /\ 2 \in d.versions  BY <1>1, <3>7
    <3>8. CASE {2, 3, 4, 5, 6, 7, 8} \cap d.versions = {} /\ 1 \in d.versions
      BY <1>1, <3>8
    <3>9. CASE {1, 2, 3, 4, 5, 6, 7, 8} \cap d.versions = {}  BY <1>1, <1>3, <3>9
    <3>. QED BY <3>1, <3>2, <3>3, <3>4, <3>5, <3>6, <3>7, <3>8, <3>9
  <2>2. /\ Version(d) \in d.versions
        /\ \A w \in d.versions : w <= Version(d)
    BY <1>3, <2>1 DEF Version
  <2>. QED BY <1>1, <2>2
<1>. QED BY <1>2, <1>3

\* With the last migration recorded, the database is up to date
LEMMA UpToDate ==
  ASSUME NEW d \in Database, Recorded(d), 8 \in d.versions, ~d.unversioned
  PROVE  /\ d.files = "new" /\ d.xattrs = "new" /\ ~d.xattrs_new
         /\ Version(d) = 8 /\ OneEach(d)
<1>1. Version(d) = 8
  BY VersionFacts
<1>. QED
  BY <1>1 DEF Recorded, Versioned, OneEach
-----------------------------------------------------------------------------
(* Every step keeps the invariant *)

\* A server that starts has no handle yet.
LEMMA StartInv == IInv /\ Start => IInv'
<1>. SUFFICES ASSUME IInv, Start PROVE IInv'
  OBVIOUS
<1>1. UNCHANGED << disk, mem, build >>
  BY DEF Start
<1>2. TypeOK'
  BY DEF IInv, Start, TypeOK, handles, bounds
<1>3. Recorded(disk)' /\ Recorded(mem)'
  BY <1>1 DEF IInv
<1>4. TablesInv'
  BY <1>1 DEF IInv, Start, TypeOK, TablesInv, handles, Tables, Exists, OneEach
<1>5. MigrateInv'
  BY <1>1 DEF IInv, Start, TypeOK, TablesInv, MigrateInv, handles, LastMigration, Tables
<1>6. HandleInv'
  BY <1>1 DEF IInv, Start, TypeOK, MigrateInv, HandleInv, handles, Handle, Making,
              LastMigration
<1>7. MemoryInv'
  BY <1>1 DEF IInv, Start, TypeOK, HandleInv, MemoryInv, handles, Handle, Making, Loaded
<1>. QED BY <1>2, <1>3, <1>4, <1>5, <1>6, <1>7 DEF IInv

\* get_dbs() notes whether the requests' database was there already.
LEMMA GetDbsInv == IInv /\ get_dbs => IInv'
<1>. SUFFICES ASSUME IInv, get_dbs PROVE IInv'
  OBVIOUS
<1>1. UNCHANGED << disk, mem, build >>
  BY DEF get_dbs
<1>2. TypeOK'
  BY DEF IInv, get_dbs, TypeOK, handles, bounds
<1>3. Recorded(disk)' /\ Recorded(mem)'
  BY <1>1 DEF IInv
<1>4. TablesInv'
  BY <1>1 DEF IInv, get_dbs, TypeOK, TablesInv, handles, Tables, Exists, OneEach
<1>5. MigrateInv'
  BY <1>1 DEF IInv, get_dbs, TypeOK, TablesInv, MigrateInv, handles, LastMigration, Tables
<1>6. HandleInv'
  BY <1>1 DEF IInv, get_dbs, TypeOK, MigrateInv, HandleInv, handles, Handle, Making,
              LastMigration
<1>7. MemoryInv'
  BY <1>1 DEF IInv, get_dbs, TypeOK, HandleInv, MemoryInv, handles, Handle, Making, Loaded
<1>. QED BY <1>2, <1>3, <1>4, <1>5, <1>6, <1>7 DEF IInv

\* logs.db, with or without success.
LEMMA OpenLogInv == IInv /\ OpenLog => IInv'
<1>. SUFFICES ASSUME IInv, OpenLog PROVE IInv'
  OBVIOUS
<1>1. UNCHANGED << disk, mem, build >>
  BY DEF OpenLog
<1>2. TypeOK'
  BY DEF IInv, OpenLog, TypeOK, handles, bounds
<1>3. Recorded(disk)' /\ Recorded(mem)'
  BY <1>1 DEF IInv
<1>4. TablesInv'
  BY <1>1 DEF IInv, OpenLog, TypeOK, TablesInv, handles, Tables, Exists, OneEach
<1>5. MigrateInv'
  BY <1>1 DEF IInv, OpenLog, TypeOK, TablesInv, MigrateInv, handles, LastMigration, Tables
<1>6. HandleInv'
  BY <1>1 DEF IInv, OpenLog, TypeOK, MigrateInv, HandleInv, handles, Handle, Making,
              LastMigration
<1>7. MemoryInv'
  BY <1>1 DEF IInv, OpenLog, TypeOK, HandleInv, MemoryInv, handles, Handle, Making, Loaded
<1>. QED BY <1>2, <1>3, <1>4, <1>5, <1>6, <1>7 DEF IInv

\* Success is reported when the last migration is recorded.
LEMMA TablesMadeInv == IInv /\ TablesMade => IInv'
<1>. SUFFICES ASSUME IInv, TablesMade PROVE IInv'
  OBVIOUS
<1>1. UNCHANGED << disk, mem, build >>
  BY DEF TablesMade
<1>2. TypeOK'
  BY DEF IInv, TablesMade, TypeOK, handles, bounds
<1>3. Recorded(disk)' /\ Recorded(mem)'
  BY <1>1 DEF IInv
<1>4. TablesInv'
  BY <1>1 DEF IInv, TablesMade, TypeOK, TablesInv, handles, Tables, Exists, OneEach
<1>5. MigrateInv'
  BY <1>1 DEF IInv, TablesMade, TypeOK, TablesInv, MigrateInv, handles, LastMigration, Tables
<1>6. HandleInv'
  BY <1>1 DEF IInv, TablesMade, TypeOK, MigrateInv, HandleInv, handles, Handle, Making,
              LastMigration
<1>7. MemoryInv'
  BY <1>1 DEF IInv, TablesMade, TypeOK, HandleInv, MemoryInv, handles, Handle, Making, Loaded
<1>. QED BY <1>2, <1>3, <1>4, <1>5, <1>6, <1>7 DEF IInv

\* A statement that fails leaves the database as it was, and is reported.
LEMMA MakeTablesFailsInv == IInv /\ MakeTablesFails => IInv'
<1>. SUFFICES ASSUME IInv, MakeTablesFails PROVE IInv'
  OBVIOUS
<1>1. UNCHANGED << disk, mem, build >>
  BY DEF MakeTablesFails
<1>2. TypeOK'
  <2>1. crashes' \in 0..MaxCrashes
    BY DatabaseAssumption DEF IInv, MakeTablesFails, TypeOK
  <2>. QED BY <2>1 DEF IInv, MakeTablesFails, TypeOK, handles
<1>3. Recorded(disk)' /\ Recorded(mem)'
  BY <1>1 DEF IInv
<1>4. TablesInv'
  BY <1>1 DEF IInv, MakeTablesFails, TypeOK, TablesInv, handles, Tables, Exists, OneEach
<1>5. MigrateInv'
  BY <1>1 DEF IInv, MakeTablesFails, TypeOK, TablesInv, MigrateInv, handles, LastMigration, Tables
<1>6. HandleInv'
  BY <1>1 DEF IInv, MakeTablesFails, TypeOK, MigrateInv, HandleInv, handles, Handle, Making,
              LastMigration
<1>7. MemoryInv'
  BY <1>1 DEF IInv, MakeTablesFails, TypeOK, HandleInv, MemoryInv, handles, Handle, Making, Loaded
<1>. QED BY <1>2, <1>3, <1>4, <1>5, <1>6, <1>7 DEF IInv

\* files.db: its handle is set before the tables are looked at.
LEMMA OpenFilesInv == IInv /\ OpenFiles => IInv'
<1>. SUFFICES ASSUME IInv, OpenFiles PROVE IInv'
  OBVIOUS
<1>1. UNCHANGED << disk, mem, build >>
  BY DEF OpenFiles
<1>2. TypeOK'
  <2>1. UNCHANGED << build, disk, mem, already, dirty, updates, crashes >>
    BY DEF OpenFiles, bounds
  <2>2. open' \subseteq {"log", "real", "file"} /\ n' \in Nat
    <3>1. Handle \in {"real", "file"}
      BY DEF Handle
    <3>2. open \subseteq {"log", "real", "file"} /\ n \in Nat
      BY DEF IInv, TypeOK
    <3>3. (open' = open \/ open' = open \cup {Handle}) /\ (n' = n \/ n' = 1)
      BY DEF OpenFiles
    <3>4. open' \subseteq {"log", "real", "file"}
      <4>1. \A x \in open' : x \in open \/ x = Handle
        BY <3>3
      <4>. QED BY <3>1, <3>2, <4>1
    <3>. QED BY <3>2, <3>3, <3>4
  <2>3. /\ pc' \in {"memory", "table"} /\ rc' \in {0, 1}
        /\ failed' = failed \/ failed' = TRUE
    BY DEF IInv, TypeOK, OpenFiles
  <2>. QED BY <2>1, <2>2, <2>3 DEF IInv, TypeOK
<1>3. Recorded(disk)' /\ Recorded(mem)'
  BY <1>1 DEF IInv
<1>4. TablesInv'
  <2>1. pc' = "memory" \/ (pc' = "table" /\ n' = 1)
    BY DEF OpenFiles
  <2>. QED BY <2>1 DEF TablesInv
<1>5. MigrateInv'
  BY <1>1 DEF IInv, OpenFiles, TypeOK, TablesInv, MigrateInv, handles, LastMigration, Tables
<1>6. HandleInv'
  BY <1>1 DEF IInv, OpenFiles, TypeOK, MigrateInv, HandleInv, handles, Handle, Making,
              LastMigration
<1>7. MemoryInv'
  BY <1>1 DEF IInv, OpenFiles, TypeOK, HandleInv, MemoryInv, handles, Handle, Making, Loaded
<1>. QED BY <1>2, <1>3, <1>4, <1>5, <1>6, <1>7 DEF IInv

\* The migrations begin after the last one that is recorded.
LEMMA ReadVersionInv == IInv /\ ReadVersion => IInv'
<1>. SUFFICES ASSUME IInv, ReadVersion PROVE IInv'
  OBVIOUS
<1>0. Version(disk) \in 0..8 /\ n' = Version(disk) + 1 /\ n = 4
  <2>1. n > Len(Tables) /\ Len(Tables) = 3
    BY DEF ReadVersion, Tables
  <2>. QED BY <2>1, VersionFacts DEF IInv, TypeOK, TablesInv, ReadVersion
<1>1. UNCHANGED << disk, mem, build >>
  BY DEF ReadVersion
<1>2. TypeOK'
  BY <1>0 DEF IInv, ReadVersion, TypeOK, handles, bounds
<1>3. Recorded(disk)' /\ Recorded(mem)'
  BY <1>1 DEF IInv
<1>4. TablesInv'
  BY DEF ReadVersion, TablesInv
<1>5. MigrateInv'
  <2>1. disk.migrations
    BY <1>0 DEF IInv, TablesInv, ReadVersion
  <2>2. \A v \in disk.versions : v \in 0..8
    BY DatabaseFields DEF IInv, TypeOK
  <2>. QED BY <1>0, <1>1, <2>1, <2>2, VersionFacts DEF IInv, TypeOK, ReadVersion, MigrateInv
<1>6. HandleInv'
  BY <1>1 DEF IInv, ReadVersion, TypeOK, MigrateInv, HandleInv, handles, Handle, Making,
              LastMigration
<1>7. MemoryInv'
  BY <1>1 DEF IInv, ReadVersion, TypeOK, HandleInv, MemoryInv, handles, Handle, Making, Loaded
<1>. QED BY <1>2, <1>3, <1>4, <1>5, <1>6, <1>7 DEF IInv

\* Recorded does not look at the rows or the indexes.
LEMMA RecordedSame ==
  ASSUME NEW d, NEW e, Recorded(d),
         e.files = d.files, SameXattrs(d, e), SameRecord(d, e)
  PROVE  Recorded(e)
  BY DEF Recorded, Versioned, SameXattrs, SameRecord

\* The memory database begins as make_tables() leaves an empty one.
LEMMA OpenMemoryInv == IInv /\ OpenMemory => IInv'
<1>. SUFFICES ASSUME IInv, OpenMemory PROVE IInv'
  OBVIOUS
<1>1. /\ UNCHANGED << disk, build, n, already, rc, dirty, failed, updates, crashes >>
      /\ pc = "memory" /\ pc' = "restore"
  BY DEF OpenMemory, bounds
<1>2. \/ /\ build = "memory" /\ "file" \notin open
         /\ open' = open \cup {"file"} /\ mem' = Fresh
      \/ /\ build = "disk" \/ "file" \in open
         /\ UNCHANGED << open, mem >>
  BY DEF OpenMemory
<1>3. TypeOK'
  BY <1>1, <1>2, FreshFacts DEF IInv, TypeOK
<1>4. Recorded(disk)' /\ Recorded(mem)'
  <2>1. mem' = mem \/ mem' = Fresh
    BY <1>2
  <2>. QED BY <1>1, <2>1, FreshFacts DEF IInv
<1>5. TablesInv' /\ MigrateInv'
  BY <1>1 DEF TablesInv, MigrateInv
<1>6. HandleInv'
  <2>1. build \in {"disk", "memory"}
    BY DatabaseAssumption DEF IInv, TypeOK
  <2>. QED BY <1>1, <1>2, <2>1, FreshFacts DEF IInv, HandleInv, Handle, Making
<1>7. MemoryInv'
  <2>1. build \in {"disk", "memory"}
    BY DatabaseAssumption DEF IInv, TypeOK
  <2>. QED BY <1>1, <1>2, <2>1 DEF IInv, HandleInv, MemoryInv, Making, Loaded
<1>. QED BY <1>3, <1>4, <1>5, <1>6, <1>7 DEF IInv

\* It is loaded unless it is in use already.
LEMMA RestoreInv == IInv /\ pdb_restore => IInv'
<1>. SUFFICES ASSUME IInv, pdb_restore PROVE IInv'
  OBVIOUS
<1>1. /\ UNCHANGED << disk, build, n, open, rc, updates, crashes >>
      /\ pc = "restore" /\ pc' = "up" /\ already' = FALSE
  BY DEF pdb_restore, bounds
<1>2. \/ Restores /\ dirty' = FALSE /\ mem' = disk /\ failed' = failed
      \/ Restores /\ dirty' = FALSE /\ failed' = TRUE /\ mem' = mem
      \/ ~Restores /\ UNCHANGED << mem, dirty, failed >>
  BY DEF pdb_restore
<1>3. TypeOK'
  BY <1>1, <1>2 DEF IInv, TypeOK
<1>4. Recorded(disk)' /\ Recorded(mem)'
  <2>1. mem' = mem \/ mem' = disk
    BY <1>2
  <2>. QED BY <1>1, <2>1 DEF IInv
<1>5. TablesInv' /\ MigrateInv'
  BY <1>1 DEF TablesInv, MigrateInv
<1>6. HandleInv'
  <2>1. rc \in {0, 1}
    BY DEF IInv, TypeOK
  <2>. QED BY <1>1, <1>2, <2>1 DEF IInv, HandleInv, Handle, Making, Restores
<1>7. MemoryInv'
  <2>1. CASE Restores
    BY <1>1, <1>2, <2>1 DEF IInv, TypeOK, HandleInv, MemoryInv, Making, Loaded, Restores
  <2>2. CASE ~Restores
    BY <1>1, <1>2, <2>2 DEF IInv, TypeOK, HandleInv, MemoryInv, Making, Loaded, Restores
  <2>. QED BY <2>1, <2>2
<1>. QED BY <1>3, <1>4, <1>5, <1>6, <1>7 DEF IInv

\* A request adds a row to the database in use.
LEMMA UpdateInv == IInv /\ Update => IInv'
<1>. SUFFICES ASSUME IInv, Update PROVE IInv'
  OBVIOUS
<1>1. /\ UNCHANGED << build, pc, n, already, open, rc, failed, crashes >>
      /\ pc = "up" /\ dirty' = TRUE /\ updates' = updates + 1 /\ updates < MaxUpdates
  BY DEF Update, handles
<1>2. \/ build = "memory" /\ mem' = [mem EXCEPT !.rows = @ + 1] /\ disk' = disk
      \/ build # "memory" /\ disk' = [disk EXCEPT !.rows = @ + 1] /\ mem' = mem
  BY DEF Update
<1>3. disk \in Database /\ mem \in Database /\ Recorded(disk) /\ Recorded(mem)
  BY DEF IInv, TypeOK
<1>4. /\ mem' \in Database /\ Recorded(mem')
      /\ mem'.versions = mem.versions
      /\ mem'.attrs = mem.attrs /\ mem'.attrsNew = mem.attrsNew
  <2>1. CASE mem' = mem
    BY <1>3, <2>1
  <2>2. CASE mem' = [mem EXCEPT !.rows = @ + 1]
    <3>1. mem' \in Database /\ mem'.files = mem.files /\ SameXattrs(mem, mem') /\ SameRecord(mem, mem')
      BY <1>3, <2>2, RowFacts
    <3>. QED BY <1>3, <3>1, RecordedSame DEF SameXattrs, SameRecord
  <2>. QED BY <1>2, <2>1, <2>2
<1>5. /\ disk' \in Database /\ Recorded(disk')
      /\ disk'.versions = disk.versions
      /\ disk'.attrs = disk.attrs /\ disk'.attrsNew = disk.attrsNew
  <2>1. CASE disk' = disk
    BY <1>3, <2>1
  <2>2. CASE disk' = [disk EXCEPT !.rows = @ + 1]
    <3>1. disk' \in Database /\ disk'.files = disk.files /\ SameXattrs(disk, disk') /\ SameRecord(disk, disk')
      BY <1>3, <2>2, RowFacts
    <3>. QED BY <1>3, <3>1, RecordedSame DEF SameXattrs, SameRecord
  <2>. QED BY <1>2, <2>1, <2>2
<1>6. TypeOK'
  <2>1. MaxUpdates \in Nat
    BY DatabaseAssumption
  <2>. QED BY <1>1, <1>4, <1>5, <2>1 DEF IInv, TypeOK
<1>7. TablesInv' /\ MigrateInv'
  BY <1>1 DEF TablesInv, MigrateInv
<1>8. HandleInv'
  BY <1>1, <1>4, <1>5 DEF IInv, HandleInv, Handle, Making
<1>9. MemoryInv'
  BY <1>1, <1>4, <1>5 DEF IInv, HandleInv, MemoryInv, Making, Loaded
<1>. QED BY <1>4, <1>5, <1>6, <1>7, <1>8, <1>9 DEF IInv

\* pdb_backup() leaves files.db alone or makes it a copy of the memory database.
LEMMA BackupFacts ==
  ASSUME IInv, pdb_backup
  PROVE  /\ disk' \in Database /\ Recorded(disk')
         /\ dirty' \in BOOLEAN /\ failed' \in BOOLEAN
         /\ \/ disk' = disk /\ (failed' = failed \/ failed')
            \/ /\ build = "memory" /\ {"file", "real"} \subseteq open
               /\ disk' = mem /\ failed' = failed
         /\ dirty' = dirty \/ failed' \/ disk' = mem
<1>1. disk \in Database /\ mem \in Database /\ Recorded(disk) /\ Recorded(mem)
  BY DEF IInv, TypeOK
<1>2. dirty \in BOOLEAN /\ failed \in BOOLEAN
  BY DEF IInv, TypeOK
<1>. DEFINE copies == build = "memory" /\ {"file", "real"} \subseteq open /\ dirty
<1>3. CASE copies
  <2>1. (disk' = mem /\ failed' = failed) \/ (failed' = TRUE /\ disk' = disk)
    BY <1>3 DEF pdb_backup
  <2>2. dirty' = FALSE
    BY <1>3 DEF pdb_backup
  <2>. QED BY <1>1, <1>2, <1>3, <2>1, <2>2
<1>4. CASE ~copies
  <2>1. UNCHANGED << disk, dirty, failed >>
    BY <1>4 DEF pdb_backup
  <2>. QED BY <1>1, <1>2, <2>1
<1>. QED BY <1>3, <1>4

\* The backup of a server that has nothing else to do.
LEMMA MaybeBackupInv == IInv /\ pdb_maybe_backup => IInv'
<1>. SUFFICES ASSUME IInv, pdb_maybe_backup PROVE IInv'
  OBVIOUS
<1>1. /\ UNCHANGED << build, mem, pc, n, already, open, rc, updates, crashes >>
      /\ pc = "up" /\ pdb_backup
  BY DEF pdb_maybe_backup, handles, bounds
<1>2. /\ disk' \in Database /\ Recorded(disk')
      /\ dirty' \in BOOLEAN /\ failed' \in BOOLEAN
      /\ \/ disk' = disk /\ (failed' = failed \/ failed')
         \/ /\ build = "memory" /\ {"file", "real"} \subseteq open
            /\ disk' = mem /\ failed' = failed
      /\ dirty' = dirty \/ failed' \/ disk' = mem
  BY <1>1, BackupFacts
<1>3. TypeOK'
  BY <1>1, <1>2 DEF IInv, TypeOK
<1>4. TablesInv' /\ MigrateInv'
  BY <1>1 DEF TablesInv, MigrateInv
<1>5. HandleInv'
  BY <1>1, <1>2 DEF IInv, HandleInv, Handle, Making
<1>6. MemoryInv'
  BY <1>1, <1>2 DEF IInv, TypeOK, HandleInv, MemoryInv, Making, Loaded
<1>. QED BY <1>1, <1>2, <1>3, <1>4, <1>5, <1>6 DEF IInv

\* A server that is gone keeps files.db.
LEMMA StoppedInv ==
  ASSUME IInv, Stopped, disk' \in Database, Recorded(disk'), UNCHANGED << build, updates >>,
         dirty' \in BOOLEAN, failed' \in BOOLEAN, crashes' \in 0..MaxCrashes
  PROVE  IInv'
<1>1. /\ pc' = "down" /\ n' = 0 /\ already' = FALSE /\ open' = {} /\ rc' = 0
      /\ mem' = Empty
  BY DEF Stopped
<1>2. TypeOK'
  BY <1>1, EmptyFacts DEF IInv, TypeOK
<1>3. Recorded(mem)' /\ Recorded(disk)'
  BY <1>1, EmptyFacts
<1>4. TablesInv' /\ MigrateInv' /\ HandleInv' /\ MemoryInv'
  BY <1>1 DEF TablesInv, MigrateInv, HandleInv, MemoryInv, Making, Loaded
<1>. QED BY <1>2, <1>3, <1>4 DEF IInv

LEMMA CleanupInv == IInv /\ cleanup_db => IInv'
<1>. SUFFICES ASSUME IInv, cleanup_db PROVE IInv'
  OBVIOUS
<1>1. pdb_backup /\ Stopped /\ UNCHANGED << build, updates, crashes >>
  BY DEF cleanup_db, bounds
<1>2. crashes' \in 0..MaxCrashes
  BY <1>1 DEF IInv, TypeOK
<1>. QED BY <1>1, <1>2, BackupFacts, StoppedInv

LEMMA CrashInv == IInv /\ Crash => IInv'
<1>. SUFFICES ASSUME IInv, Crash PROVE IInv'
  OBVIOUS
<1>1. /\ Stopped /\ UNCHANGED << build, disk, failed, updates >> /\ dirty' = FALSE
      /\ crashes < MaxCrashes /\ crashes' = crashes + 1
  BY DEF Crash
<1>2. crashes' \in 0..MaxCrashes
  BY <1>1, DatabaseAssumption DEF IInv, TypeOK
<1>3. disk' \in Database /\ Recorded(disk') /\ dirty' \in BOOLEAN /\ failed' \in BOOLEAN
  BY <1>1 DEF IInv, TypeOK
<1>. QED BY <1>1, <1>2, <1>3, StoppedInv

LEMMA InitInv == Init => IInv
<1>. SUFFICES ASSUME Init PROVE IInv
  OBVIOUS
<1>1. /\ build \in Builds /\ disk \in Databases /\ mem = Empty
      /\ pc = "down" /\ n = 0
      /\ already = FALSE /\ open = {} /\ rc = 0
      /\ dirty = FALSE /\ failed = FALSE
      /\ updates = 0 /\ crashes = 0
  BY DEF Init
<1>2. disk \in Database /\ Recorded(disk) /\ mem \in Database /\ Recorded(mem)
  BY <1>1, DatabaseAssumption, EmptyFacts
<1>3. TypeOK
  <2>1. MaxUpdates \in Nat /\ MaxCrashes \in Nat
    BY DatabaseAssumption
  <2>2. updates \in 0..MaxUpdates /\ crashes \in 0..MaxCrashes
    BY <1>1, <2>1
  <2>. QED BY <1>1, <1>2, <2>2 DEF TypeOK
<1>4. TablesInv /\ MigrateInv /\ HandleInv /\ MemoryInv
  BY <1>1 DEF TablesInv, MigrateInv, HandleInv, MemoryInv, Making, Loaded
<1>. QED BY <1>2, <1>3, <1>4 DEF IInv
-----------------------------------------------------------------------------
(* make_tables() *)

\* A step of make_tables() changes files.db and where it is, and no more.
LEMMA MakingStep ==
  ASSUME IInv, pc \in Making, pc' \in Making, disk' \in Database, n' \in Nat,
         Recorded(disk'), UNCHANGED << build, mem, handles, dirty, failed, bounds >>
  PROVE  TypeOK' /\ Recorded(disk)' /\ Recorded(mem)' /\ HandleInv' /\ MemoryInv'
<1>1. UNCHANGED << build, mem, already, open, rc, dirty, failed, updates, crashes >>
  BY DEF handles, bounds
<1>2. TypeOK'
  BY <1>1 DEF IInv, TypeOK, Making
<1>3. Recorded(disk)' /\ Recorded(mem)'
  BY <1>1 DEF IInv
<1>4. HandleInv'
  BY <1>1 DEF IInv, HandleInv, Handle, Making
<1>5. MemoryInv'
  BY <1>1 DEF IInv, HandleInv, MemoryInv, Making, Loaded
<1>. QED BY <1>2, <1>3, <1>4, <1>5

\* The three tables
LEMMA TablesFacts ==
  /\ DOMAIN Tables = 1..3 /\ Len(Tables) = 3
  /\ Tables[1] = "files" /\ Tables[2] = "xattrs" /\ Tables[3] = "migrations"
  /\ \A d : /\ Exists(d, "files") <=> d.files # "none"
            /\ Exists(d, "xattrs") <=> d.xattrs # "none"
            /\ Exists(d, "migrations") <=> d.migrations
<1>1. /\ DOMAIN Tables = 1..3 /\ Len(Tables) = 3
      /\ Tables[1] = "files" /\ Tables[2] = "xattrs" /\ Tables[3] = "migrations"
  BY DEF Tables
<1>2. ASSUME NEW d
      PROVE  /\ Exists(d, "files") <=> d.files # "none"
             /\ Exists(d, "xattrs") <=> d.xattrs # "none"
             /\ Exists(d, "migrations") <=> d.migrations
  BY DEF Exists
<1>. QED BY <1>1, <1>2

\* A missing table is created in the form of this release.
LEMMA MakeTableInv == IInv /\ MakeTable => IInv'
<1>. SUFFICES ASSUME IInv, MakeTable PROVE IInv'
  OBVIOUS
<1>1. /\ pc = "table" /\ n \in 1..3
      /\ UNCHANGED << build, mem, handles, dirty, failed, bounds >>
  BY TablesFacts DEF MakeTable
<1>2. /\ disk \in Database /\ Recorded(disk)
      /\ n >= 2 => disk.files # "none"
      /\ n >= 3 => disk.xattrs # "none"
  BY <1>1 DEF IInv, TypeOK, TablesInv
<1>3. CASE /\ Exists(disk, Tables[n]) /\ n' = n + 1 /\ UNCHANGED << disk, pc >>
  <2>1. TypeOK' /\ Recorded(disk)' /\ Recorded(mem)' /\ HandleInv' /\ MemoryInv'
    BY <1>1, <1>2, <1>3, MakingStep DEF Making
  <2>2. MigrateInv'
    BY <1>1, <1>3 DEF MigrateInv
  <2>3. TablesInv'
    <3>1. /\ n = 1 => disk.files # "none"
          /\ n = 2 => disk.xattrs # "none"
          /\ n = 3 => disk.migrations
      BY <1>3, TablesFacts
    <3>. QED BY <1>1, <1>2, <1>3, <3>1 DEF TablesInv
  <2>. QED BY <2>1, <2>2, <2>3 DEF IInv
<1>4. CASE /\ ~Exists(disk, Tables[n]) /\ disk' = CreateTable(disk, Tables[n])
           /\ pc' = "populate" /\ n' = n
  <2>1. /\ disk' \in Database /\ Recorded(disk')
        /\ n >= 2 => disk'.files # "none"
        /\ n >= 3 => disk'.xattrs # "none"
        /\ Exists(disk', Tables[n])
        /\ n = 3 /\ ~disk'.unversioned =>
              /\ disk'.files = "new" /\ disk'.xattrs = "new" /\ ~disk'.xattrs_new
              /\ OneEach(disk')
    <3>1. CASE n = 1
      <4>1. disk' = CreateTable(disk, "files")
        BY <1>4, <3>1, TablesFacts
      <4>2. /\ disk' \in Database /\ disk'.files = "new"
            /\ SameXattrs(disk, disk') /\ SameRecord(disk, disk')
        BY <1>2, <4>1, CreateFiles
      <4>3. Recorded(disk')
        BY <1>2, <4>2 DEF Recorded, Versioned, SameXattrs, SameRecord
      <4>. QED BY <3>1, <4>2, <4>3, TablesFacts
    <3>2. CASE n = 2
      <4>1. disk' = CreateTable(disk, "xattrs") /\ disk.xattrs = "none"
        BY <1>4, <3>2, TablesFacts
      <4>2. /\ disk' \in Database /\ disk'.xattrs = "new" /\ disk'.attrs = None
            /\ disk'.xattrs_new = disk.xattrs_new /\ disk'.attrsNew = disk.attrsNew
            /\ SameFiles(disk, disk') /\ SameRecord(disk, disk')
        BY <1>2, <4>1, CreateXattrs
      <4>3. Recorded(disk')
        BY <1>2, <4>1, <4>2, NoneFacts DEF Recorded, Versioned, SameFiles, SameRecord
      <4>4. disk'.files # "none"
        BY <1>2, <3>2, <4>2 DEF SameFiles
      <4>. QED BY <3>2, <4>2, <4>3, <4>4, TablesFacts
    <3>3. CASE n = 3
      <4>1. disk' = CreateTable(disk, "migrations") /\ ~disk.migrations
        BY <1>4, <3>3, TablesFacts
      <4>2. /\ disk' \in Database /\ disk'.migrations = TRUE /\ disk'.versions = {}
            /\ disk'.unversioned = disk.unversioned
            /\ SameFiles(disk, disk') /\ SameXattrs(disk, disk')
        BY <1>2, <4>1, CreateMigrations
      <4>3. ~disk.unversioned =>
               /\ disk.files = "new" /\ disk.xattrs = "new" /\ ~disk.xattrs_new
               /\ OneEach(disk)
        BY <1>2, <3>3, <4>1, DatabaseFields DEF Recorded, Versioned, OneEach
      <4>4. Recorded(disk')
        BY <1>2, <4>2, <4>3 DEF Recorded, Versioned, SameXattrs
      <4>5. ~disk'.unversioned =>
               /\ disk'.files = "new" /\ disk'.xattrs = "new" /\ ~disk'.xattrs_new
               /\ OneEach(disk')
        BY <4>2, <4>3 DEF SameFiles, SameXattrs, OneEach
      <4>6. disk'.files # "none" /\ disk'.xattrs # "none"
        BY <1>2, <3>3, <4>2 DEF SameFiles, SameXattrs
      <4>. QED BY <3>3, <4>2, <4>4, <4>5, <4>6, TablesFacts
    <3>. QED BY <1>1, <3>1, <3>2, <3>3
  <2>2. TypeOK' /\ Recorded(disk)' /\ Recorded(mem)' /\ HandleInv' /\ MemoryInv'
    BY <1>1, <1>4, <2>1, MakingStep DEF Making
  <2>3. MigrateInv'
    BY <1>4 DEF MigrateInv
  <2>4. TablesInv'
    BY <1>1, <1>4, <2>1 DEF TablesInv
  <2>. QED BY <2>2, <2>3, <2>4 DEF IInv
<1>. QED BY <1>3, <1>4 DEF MakeTable

\* A table of migrations begins with the last one, over tables of this release.
LEMMA PopulateInv == IInv /\ PopulateTable => IInv'
<1>. SUFFICES ASSUME IInv, PopulateTable PROVE IInv'
  OBVIOUS
<1>1. /\ pc = "populate" /\ pc' = "index" /\ n' = n
      /\ disk' = Populate(disk, Tables[n])
      /\ UNCHANGED << build, mem, handles, dirty, failed, bounds >>
  BY DEF PopulateTable
<1>2. /\ disk \in Database /\ Recorded(disk) /\ n \in 1..3
      /\ n >= 2 => disk.files # "none"
      /\ n >= 3 => disk.xattrs # "none"
      /\ Exists(disk, Tables[n])
      /\ n = 3 /\ ~disk.unversioned =>
            /\ disk.files = "new" /\ disk.xattrs = "new" /\ ~disk.xattrs_new
            /\ OneEach(disk)
  BY <1>1 DEF IInv, TypeOK, TablesInv
<1>3. /\ disk' \in Database /\ Recorded(disk')
      /\ n >= 2 => disk'.files # "none"
      /\ n >= 3 => disk'.xattrs # "none"
      /\ Exists(disk', Tables[n])
  <2>1. CASE n # 3
    <3>1. disk' = disk
      BY <1>1, <1>2, <2>1, TablesFacts DEF Populate
    <3>. QED BY <1>2, <3>1
  <2>2. CASE n = 3
    <3>1. disk' = Populate(disk, "migrations") /\ disk.migrations
      BY <1>1, <1>2, <2>2, TablesFacts
    <3>2. /\ disk' \in Database /\ disk'.migrations = disk.migrations /\ disk'.versions = {8}
          /\ disk'.unversioned = disk.unversioned
          /\ SameFiles(disk, disk') /\ SameXattrs(disk, disk')
      BY <1>2, <3>1, PopulateMigrations
    <3>3. Recorded(disk')
      BY <1>2, <2>2, <3>1, <3>2 DEF Recorded, Versioned, OneEach, SameFiles, SameXattrs
    <3>4. disk'.files # "none" /\ disk'.xattrs # "none"
      BY <1>2, <2>2, <3>2 DEF SameFiles, SameXattrs
    <3>5. disk'.migrations
      BY <3>1, <3>2
    <3>. QED BY <2>2, <3>2, <3>3, <3>4, <3>5, TablesFacts
  <2>. QED BY <2>1, <2>2
<1>4. TypeOK' /\ Recorded(disk)' /\ Recorded(mem)' /\ HandleInv' /\ MemoryInv'
  BY <1>1, <1>2, <1>3, MakingStep DEF Making
<1>5. MigrateInv'
  BY <1>1 DEF MigrateInv
<1>6. TablesInv'
  BY <1>1, <1>2, <1>3 DEF TablesInv
<1>. QED BY <1>4, <1>5, <1>6 DEF IInv

\* The indexes of the table
LEMMA MakeIndexInv == IInv /\ MakeIndex => IInv'
<1>. SUFFICES ASSUME IInv, MakeIndex PROVE IInv'
  OBVIOUS
<1>1. /\ pc = "index"
      /\ UNCHANGED << build, mem, handles, dirty, failed, bounds >>
  BY DEF MakeIndex
<1>2. /\ disk \in Database /\ Recorded(disk) /\ n \in 1..3
      /\ n >= 2 => disk.files # "none"
      /\ n >= 3 => disk.xattrs # "none"
      /\ Exists(disk, Tables[n])
  BY <1>1 DEF IInv, TypeOK, TablesInv
<1>3. CASE n' = n + 1 /\ pc' = "table" /\ disk' = disk
  <2>1. TypeOK' /\ Recorded(disk)' /\ Recorded(mem)' /\ HandleInv' /\ MemoryInv'
    BY <1>1, <1>2, <1>3, MakingStep DEF Making
  <2>2. MigrateInv'
    BY <1>3 DEF MigrateInv
  <2>3. TablesInv'
    <3>1. /\ n = 1 => disk.files # "none"
          /\ n = 2 => disk.xattrs # "none"
          /\ n = 3 => disk.migrations
      BY <1>2, TablesFacts
    <3>. QED BY <1>2, <1>3, <3>1 DEF TablesInv
  <2>. QED BY <2>1, <2>2, <2>3 DEF IInv
<1>4. CASE /\ \E i \in DOMAIN file_indexes :
                 disk' = Index(disk, file_indexes[i][1], Tables[n])
           /\ UNCHANGED << pc, n >>
  <2>1. PICK i \in 1..5 : disk' = Index(disk, file_indexes[i][1], Tables[n])
    BY <1>4, IndexesNamed
  <2>2. file_indexes[i][1] \in IndexNames /\ Tables[n] \in TableNames
    <3>1. file_indexes[i] \in IndexNames \X TableNames
      BY IndexesNamed
    <3>2. Tables[n] \in TableNames
      BY <1>2, TablesFacts DEF TableNames
    <3>. QED BY <3>1, <3>2
  <2>3. /\ disk' \in Database
        /\ SameFiles(disk, disk') /\ SameXattrs(disk, disk') /\ SameRecord(disk, disk')
    BY <1>2, <2>1, <2>2, IndexFacts
  <2>4. Recorded(disk')
    BY <1>2, <2>3, RecordedSame DEF SameFiles
  <2>5. TypeOK' /\ Recorded(disk)' /\ Recorded(mem)' /\ HandleInv' /\ MemoryInv'
    BY <1>1, <1>2, <1>4, <2>3, <2>4, MakingStep DEF Making
  <2>6. MigrateInv'
    BY <1>1, <1>4 DEF MigrateInv
  <2>7. TablesInv'
    <3>1. Exists(disk', Tables[n])
      BY <1>2, <2>3, TablesFacts DEF SameFiles, SameXattrs, SameRecord
    <3>. QED BY <1>1, <1>2, <1>4, <2>3, <3>1 DEF TablesInv, SameFiles, SameXattrs
  <2>. QED BY <2>5, <2>6, <2>7 DEF IInv
<1>. QED BY <1>3, <1>4 DEF MakeIndex

\* What a migration does to a database that is at it: whatever was recorded still
\* holds, and what its own record will say holds too.
LEMMA MigrationDone ==
  ASSUME NEW d \in Database, Recorded(d), NEW m \in 1..8, d.migrations,
         \A v \in d.versions : v < m, m > 1 => m - 1 \in d.versions,
         MigrationFits(m, d), NEW e, e = Migrated(m, d)
  PROVE  /\ e \in Database /\ Recorded(e) /\ SameRecord(d, e) /\ e.rows = d.rows
         /\ ~e.unversioned => /\ m >= 2 => e.files = "new"
                              /\ m >= 6 => e.xattrs = "new" /\ ~e.xattrs_new
                              /\ m = 8 => OneEach(e)
         /\ m = 4 => CopiedAll(e)
<1>1. /\ d.attrs \in [Attributes -> Nat] /\ d.attrsNew \in [Attributes -> Nat]
      /\ d.versions \subseteq 0..8
  BY DatabaseFields
<1>2. CASE m = 1
  <2>1. /\ e \in Database
        /\ SameFiles(d, e) /\ SameXattrs(d, e) /\ SameRecord(d, e)
    BY <1>2, MigratedIndex
  <2>. QED BY <1>2, <2>1, RecordedSame DEF SameFiles
<1>3. CASE m = 2
  <2>1. /\ e \in Database /\ e.files = "new" /\ e.rows = d.rows
        /\ SameXattrs(d, e) /\ SameRecord(d, e)
    BY <1>3, MigratedFiles
  <2>2. Recorded(e)
    BY <1>3, <2>1 DEF Recorded, Versioned, SameXattrs, SameRecord
  <2>. QED BY <1>3, <2>1, <2>2
<1>4. CASE m = 3
  <2>1. /\ e \in Database /\ SameFiles(d, e) /\ SameRecord(d, e)
        /\ e.xattrs = d.xattrs /\ e.xattrs_new = TRUE
        /\ e.attrs = d.attrs /\ e.attrsNew = d.attrsNew
    BY <1>4, MigratedNewTable
  <2>2. ~d.unversioned => d.files = "new"
    BY <1>4 DEF Recorded, Versioned
  <2>3. Recorded(e)
    <3>1. /\ e.migrations /\ (~e.unversioned => e.files = "new")
          /\ \A v \in e.versions : v < 3
      BY <1>4, <2>1, <2>2 DEF SameRecord, SameFiles
    <3>2. e.xattrs = "none" => e.attrs = None
      BY <2>1 DEF Recorded, Versioned
    <3>3. 8 \notin e.versions /\ 4 \notin e.versions /\ ~\E v \in e.versions : v >= 6
      BY <1>1, <2>1, <3>1 DEF SameRecord
    <3>. QED BY <3>1, <3>2, <3>3 DEF Recorded, Versioned
  <2>4. ~e.unversioned => e.files = "new"
    BY <2>1, <2>2 DEF SameFiles, SameRecord
  <2>. QED BY <1>4, <2>1, <2>2, <2>3, <2>4 DEF SameFiles
<1>5. CASE m = 4
  <2>1. /\ e \in Database /\ SameFiles(d, e) /\ SameRecord(d, e)
        /\ e.xattrs = d.xattrs /\ e.xattrs_new = d.xattrs_new
        /\ e.attrs = d.attrs
        /\ \A a \in Attributes : e.attrsNew[a] = d.attrsNew[a] + d.attrs[a]
    BY <1>5, MigratedCopy
  <2>2. ~d.unversioned => d.files = "new"
    BY <1>5 DEF Recorded, Versioned
  <2>3. CopiedAll(e)
    BY <1>1, <2>1 DEF CopiedAll
  <2>4. Recorded(e)
    <3>1. /\ e.migrations /\ (~e.unversioned => e.files = "new")
          /\ \A v \in e.versions : v < 4
      BY <1>5, <2>1, <2>2 DEF SameRecord, SameFiles
    <3>2. e.xattrs = "none" => e.attrs = None
      BY <2>1 DEF Recorded, Versioned
    <3>3. 8 \notin e.versions /\ 4 \notin e.versions /\ ~\E v \in e.versions : v >= 6
      BY <1>1, <2>1, <3>1 DEF SameRecord
    <3>. QED BY <3>1, <3>2, <3>3 DEF Recorded, Versioned
  <2>5. ~e.unversioned => e.files = "new"
    BY <2>1, <2>2 DEF SameFiles, SameRecord
  <2>. QED BY <1>5, <2>1, <2>2, <2>3, <2>4, <2>5 DEF SameFiles
<1>6. CASE m = 5
  <2>1. /\ e \in Database /\ SameFiles(d, e) /\ SameRecord(d, e)
        /\ e.xattrs = "none" /\ e.xattrs_new = d.xattrs_new
        /\ e.attrs = None /\ e.attrsNew = d.attrsNew
    BY <1>6, MigratedDrop
  <2>2. ~d.unversioned => d.files = "new"
    BY <1>6 DEF Recorded, Versioned
  <2>3. Recorded(e)
    <3>1. /\ e.migrations /\ (~e.unversioned => e.files = "new")
          /\ \A v \in e.versions : v < 5
      BY <1>6, <2>1, <2>2 DEF SameRecord, SameFiles
    <3>2. \A a \in Attributes : e.attrs[a] = 0
      BY <2>1, NoneFacts
    <3>3. 8 \notin e.versions /\ ~\E v \in e.versions : v >= 6
      BY <1>1, <2>1, <3>1 DEF SameRecord
    <3>. QED BY <2>1, <3>1, <3>2, <3>3 DEF Recorded, Versioned
  <2>4. ~e.unversioned => e.files = "new"
    BY <2>1, <2>2 DEF SameFiles, SameRecord
  <2>. QED BY <1>6, <2>1, <2>2, <2>3, <2>4 DEF SameFiles
<1>7. CASE m = 6
  <2>1. /\ e \in Database /\ SameFiles(d, e) /\ SameRecord(d, e)
        /\ e.xattrs = "new" /\ e.xattrs_new = FALSE
        /\ e.attrs = d.attrsNew /\ e.attrsNew = None
    BY <1>7, MigratedRename
  <2>2. /\ ~d.unversioned => d.files = "new"
        /\ 5 \in e.versions /\ 8 \notin e.versions /\ e.migrations
    <3>1. 5 \in d.versions /\ 8 \notin d.versions
      BY <1>7
    <3>2. ~d.unversioned => d.files = "new"
      BY <3>1 DEF Recorded, Versioned
    <3>. QED BY <2>1, <3>1, <3>2 DEF SameRecord
  <2>3. Recorded(e)
    BY <2>1, <2>2 DEF Recorded, Versioned, SameFiles, SameRecord
  <2>4. ~e.unversioned => e.files = "new"
    BY <2>1, <2>2 DEF SameFiles, SameRecord
  <2>. QED BY <1>7, <2>1, <2>2, <2>3, <2>4 DEF SameFiles
<1>8. CASE m \in {7, 8}
  <2>1. /\ e \in Database
        /\ SameFiles(d, e) /\ SameXattrs(d, e) /\ SameRecord(d, e)
    BY <1>8, MigratedIndex
  <2>2. ~d.unversioned => d.files = "new" /\ d.xattrs = "new" /\ ~d.xattrs_new
    BY <1>8 DEF Recorded, Versioned
  <2>3. m = 8 => OneEach(d)
    BY DEF MigrationFits, OneEach
  <2>4. m = 8 => OneEach(e)
    BY <2>1, <2>3 DEF OneEach, SameXattrs
  <2>5. ~e.unversioned => e.files = "new" /\ e.xattrs = "new" /\ ~e.xattrs_new
    BY <2>1, <2>2 DEF SameFiles, SameXattrs, SameRecord
  <2>. QED BY <1>8, <2>1, <2>4, <2>5, RecordedSame DEF SameFiles
<1>. QED BY <1>2, <1>3, <1>4, <1>5, <1>6, <1>7, <1>8

\* A migration is run; one that fails ends make_tables() with an error.
LEMMA RunMigrationInv == IInv /\ RunMigration => IInv'
<1>. SUFFICES ASSUME IInv, RunMigration PROVE IInv'
  OBVIOUS
<1>1. /\ pc = "migrate" /\ n <= 8
      /\ UNCHANGED << build, mem, n, already, open, dirty, failed, updates, crashes >>
  BY DEF RunMigration, LastMigration, bounds
<1>2. /\ disk \in Database /\ Recorded(disk) /\ n \in 1..8 /\ disk.migrations
      /\ \A v \in disk.versions : v < n
      /\ n > 1 => n - 1 \in disk.versions
  BY <1>1 DEF IInv, TypeOK, MigrateInv
<1>3. CASE MigrationFits(n, disk) /\ disk' = Migrated(n, disk) /\ pc' = "record" /\ rc' = rc
  <2>1. /\ disk' \in Database /\ Recorded(disk') /\ SameRecord(disk, disk')
        /\ ~disk'.unversioned =>
              /\ n >= 2 => disk'.files = "new"
              /\ n >= 6 => disk'.xattrs = "new" /\ ~disk'.xattrs_new
              /\ n = 8 => OneEach(disk')
        /\ n = 4 => CopiedAll(disk')
    BY <1>2, <1>3, MigrationDone
  <2>2. TypeOK' /\ Recorded(disk)' /\ Recorded(mem)' /\ HandleInv' /\ MemoryInv'
    BY <1>1, <1>2, <1>3, <2>1, MakingStep DEF Making, handles, bounds
  <2>3. TablesInv'
    BY <1>3 DEF TablesInv
  <2>4. MigrateInv'
    BY <1>1, <1>2, <1>3, <2>1 DEF MigrateInv, SameRecord
  <2>. QED BY <2>2, <2>3, <2>4 DEF IInv
<1>4. CASE rc' = 1 /\ pc' = "memory" /\ disk' = disk
  <2>1. TypeOK'
    BY <1>1, <1>4 DEF IInv, TypeOK
  <2>2. Recorded(disk)' /\ Recorded(mem)'
    BY <1>1, <1>4 DEF IInv
  <2>3. TablesInv' /\ MigrateInv'
    BY <1>4 DEF TablesInv, MigrateInv
  <2>4. HandleInv'
    BY <1>1, <1>4 DEF IInv, HandleInv, Handle, Making
  <2>5. MemoryInv'
    BY <1>1, <1>4 DEF IInv, HandleInv, MemoryInv, Handle, Making, Loaded
  <2>. QED BY <2>1, <2>2, <2>3, <2>4, <2>5 DEF IInv
<1>. QED BY <1>3, <1>4 DEF RunMigration

\* It is recorded after it was done.
LEMMA RecordInv == IInv /\ RecordMigration => IInv'
<1>. SUFFICES ASSUME IInv, RecordMigration PROVE IInv'
  OBVIOUS
<1>1. /\ pc = "record" /\ pc' = "migrate" /\ n' = n + 1
      /\ disk' = [disk EXCEPT !.versions = @ \cup {n}]
      /\ UNCHANGED << build, mem, handles, dirty, failed, bounds >>
  BY DEF RecordMigration
<1>2. /\ disk \in Database /\ Recorded(disk) /\ n \in 1..8 /\ disk.migrations
      /\ \A v \in disk.versions : v < n
      /\ ~disk.unversioned =>
            /\ n >= 2 => disk.files = "new"
            /\ n >= 6 => disk.xattrs = "new" /\ ~disk.xattrs_new
            /\ n = 8 => OneEach(disk)
      /\ n = 4 => CopiedAll(disk)
  BY <1>1 DEF IInv, TypeOK, MigrateInv
<1>3. /\ disk' \in Database
      /\ disk'.migrations = disk.migrations /\ disk'.versions = disk.versions \cup {n}
      /\ disk'.unversioned = disk.unversioned
      /\ SameFiles(disk, disk') /\ SameXattrs(disk, disk')
  <2>1. n \in 0..8
    BY <1>2
  <2>. QED BY <1>1, <1>2, <2>1, RecordFacts
<1>4. Recorded(disk')
  <2>. DEFINE V == disk'.versions
  <2>1. \A v \in V : v \in disk.versions \/ v = n
    BY <1>3
  <2>2. ~disk.unversioned /\ (\E v \in V : v >= 2) => disk.files = "new"
    BY <1>2, <2>1 DEF Recorded, Versioned
  <2>3. ~disk.unversioned /\ (\E v \in V : v >= 6) => disk.xattrs = "new" /\ ~disk.xattrs_new
    BY <1>2, <2>1 DEF Recorded, Versioned
  <2>4. ~disk.unversioned /\ 8 \in V => OneEach(disk)
    BY <1>2, <2>1 DEF Recorded, Versioned, OneEach
  <2>5. 4 \in V /\ 5 \notin V => CopiedAll(disk)
    BY <1>2, <1>3, <2>1 DEF Recorded, Versioned, CopiedAll
  <2>6. disk.xattrs = "none" => disk.attrs = None
    BY <1>2 DEF Recorded, Versioned
  <2>. QED
    BY <1>2, <1>3, <2>2, <2>3, <2>4, <2>5, <2>6
       DEF Recorded, Versioned, OneEach, CopiedAll, SameFiles, SameXattrs
<1>5. TypeOK' /\ Recorded(disk)' /\ Recorded(mem)' /\ HandleInv' /\ MemoryInv'
  BY <1>1, <1>2, <1>3, <1>4, MakingStep DEF Making
<1>6. TablesInv'
  BY <1>1 DEF TablesInv
<1>7. MigrateInv'
  <2>1. \A v \in disk'.versions : v < n + 1
    BY <1>2, <1>3, DatabaseFields
  <2>. QED BY <1>1, <1>2, <1>3, <2>1 DEF MigrateInv
<1>. QED BY <1>5, <1>6, <1>7 DEF IInv
-----------------------------------------------------------------------------
LEMMA NextInv == IInv /\ [Next]_vars => IInv'
<1>. SUFFICES ASSUME IInv, [Next]_vars PROVE IInv'
  OBVIOUS
<1>1. CASE Next
  BY <1>1, StartInv, GetDbsInv, OpenLogInv, OpenFilesInv, OpenMemoryInv, RestoreInv,
     MakeTableInv, PopulateInv, MakeIndexInv, ReadVersionInv, RunMigrationInv,
     RecordInv, TablesMadeInv, MakeTablesFailsInv, UpdateInv, MaybeBackupInv,
     CleanupInv, CrashInv
     DEF Next
<1>2. CASE UNCHANGED vars
  <2>1. UNCHANGED << build, disk, mem, pc, n, already, open, rc, dirty, failed,
                     updates, crashes >>
    BY <1>2 DEF vars, handles, bounds
  <2>2. TypeOK' /\ Recorded(disk)' /\ Recorded(mem)'
    BY <2>1 DEF IInv, TypeOK
  <2>3. TablesInv' /\ MigrateInv'
    BY <2>1 DEF IInv, TablesInv, MigrateInv
  <2>4. HandleInv' /\ MemoryInv'
    BY <2>1 DEF IInv, HandleInv, MemoryInv, Handle, Loaded
  <2>. QED BY <2>2, <2>3, <2>4 DEF IInv
<1>. QED BY <1>1, <1>2

(* The invariant: the records are true of the tables, in both databases,   *)
(* wherever get_dbs() and make_tables() are and whenever they were killed. *)
THEOREM Invariant == Spec => []IInv
  BY InitInv, NextInv, PTL DEF Spec

(* Types: no statement of make_tables(), no copy of a database and no      *)
(* restart leaves a database that is none.                                 *)
THEOREM TypeCorrect == Spec => []TypeOK
<1>1. IInv => TypeOK
  BY DEF IInv
<1>. QED BY <1>1, Invariant, PTL

(* make_tables() says it succeeded only when it did: a server whose        *)
(* get_dbs() has opened files.db without an error works on the tables of   *)
(* this release, with every migration recorded and each attribute once, if *)
(* the release that wrote it recorded its migrations.                      *)
THEOREM OpenedUpToDate == Spec => []SetUpRight
<1>1. IInv => SetUpRight
  <2>. SUFFICES ASSUME IInv, pc = "up", Handle \in open, rc = 0, ~disk.unversioned
                PROVE  /\ disk.files = "new" /\ disk.xattrs = "new" /\ ~disk.xattrs_new
                       /\ Version(disk) = LastMigration
                       /\ \A a \in Attributes : disk.attrs[a] <= 1
    BY DEF SetUpRight
  <2>1. 8 \in disk.versions /\ disk \in Database /\ Recorded(disk)
    BY DEF IInv, HandleInv, Making, TypeOK
  <2>. QED BY <2>1, UpToDate DEF LastMigration, OneEach
<1>. QED BY <1>1, Invariant, PTL
-----------------------------------------------------------------------------
(* What no step does *)

Kept(d, e) == \A a \in Attributes : Holds(d, a) => Holds(e, a)

MakingActions ==
  MakeTable \/ PopulateTable \/ MakeIndex \/ RunMigration \/ RecordMigration

QuietActions ==
  \/ Start \/ get_dbs \/ OpenLog \/ OpenFiles \/ OpenMemory \/ pdb_restore
  \/ ReadVersion \/ TablesMade \/ MakeTablesFails \/ Crash

LEMMA SameKept ==
  ASSUME NEW d, NEW e, e.attrs = d.attrs, e.attrsNew = d.attrsNew
  PROVE  Kept(d, e)
  BY DEF Kept, Holds

LEMMA QuietDisk == QuietActions => disk' = disk
  BY DEF QuietActions, Start, get_dbs, OpenLog, OpenFiles, OpenMemory, pdb_restore,
     ReadVersion, TablesMade, MakeTablesFails, Crash

\* A migration moves the attributes, or copies them, and drops the old table when
\* all are copied.
LEMMA MigrationKeeps ==
  ASSUME NEW d \in Database, Recorded(d), NEW m \in 1..8,
         \A v \in d.versions : v < m, m > 1 => m - 1 \in d.versions,
         MigrationFits(m, d), NEW e, e = Migrated(m, d)
  PROVE  Kept(d, e)
<1>1. d.attrs \in [Attributes -> Nat] /\ d.attrsNew \in [Attributes -> Nat]
  BY DatabaseFields
<1>2. CASE m \in {1, 7, 8}
  BY <1>2, MigratedIndex, SameKept DEF SameXattrs
<1>3. CASE m = 2
  BY <1>3, MigratedFiles, SameKept DEF SameXattrs
<1>4. CASE m = 3
  BY <1>4, MigratedNewTable, SameKept
<1>5. CASE m = 4
  <2>1. /\ e.attrs = d.attrs
        /\ \A a \in Attributes : e.attrsNew[a] = d.attrsNew[a] + d.attrs[a]
    BY <1>5, MigratedCopy
  <2>. QED BY <1>1, <2>1 DEF Kept, Holds
<1>6. CASE m = 5
  <2>1. e.attrs = None /\ e.attrsNew = d.attrsNew
    BY <1>6, MigratedDrop
  <2>2. \A a \in Attributes : d.attrs[a] > 0 => d.attrsNew[a] > 0
    <3>1. 4 \in d.versions /\ 5 \notin d.versions
      BY <1>6
    <3>. QED BY <3>1 DEF Recorded, Versioned
  <2>. QED BY <1>1, <2>1, <2>2, NoneFacts DEF Kept, Holds
<1>7. CASE m = 6
  <2>1. e.attrs = d.attrsNew /\ e.attrsNew = None
    BY <1>7, MigratedRename
  <2>2. d.attrs = None
    <3>1. d.xattrs = "none"
      BY <1>7 DEF MigrationFits
    <3>. QED BY <3>1 DEF Recorded, Versioned
  <2>. QED BY <1>1, <2>1, <2>2, NoneFacts DEF Kept, Holds
<1>. QED BY <1>2, <1>3, <1>4, <1>5, <1>6, <1>7

\* make_tables() loses neither a row nor an attribute.
LEMMA MakingKeeps ==
  ASSUME IInv, MakingActions
  PROVE  disk'.rows = disk.rows /\ Kept(disk, disk')
<1>1. disk \in Database /\ Recorded(disk)
  BY DEF IInv, TypeOK
<1>2. CASE MakeTable
  <2>1. CASE disk' = disk
    BY <2>1, SameKept
  <2>2. CASE ~Exists(disk, Tables[n]) /\ disk' = CreateTable(disk, Tables[n])
    <3>1. n \in 1..3
      BY <1>2, TablesFacts DEF MakeTable
    <3>2. CASE n = 1
      <4>1. disk' = CreateTable(disk, "files")
        BY <2>2, <3>2, TablesFacts
      <4>. QED BY <1>1, <4>1, CreateFiles, SameKept DEF SameXattrs
    <3>3. CASE n = 2
      <4>1. disk.xattrs = "none" /\ disk' = CreateTable(disk, "xattrs")
        BY <2>2, <3>3, TablesFacts
      <4>2. disk.attrs = None
        BY <1>1, <4>1 DEF Recorded, Versioned
      <4>. QED BY <1>1, <4>1, <4>2, CreateXattrs, SameKept DEF SameFiles
    <3>4. CASE n = 3
      <4>1. disk' = CreateTable(disk, "migrations")
        BY <2>2, <3>4, TablesFacts
      <4>. QED BY <1>1, <4>1, CreateMigrations, SameKept DEF SameFiles, SameXattrs
    <3>. QED BY <3>1, <3>2, <3>3, <3>4
  <2>. QED BY <1>2, <2>1, <2>2 DEF MakeTable
<1>3. CASE PopulateTable
  <2>1. CASE Tables[n] = "migrations"
    BY <1>1, <1>3, <2>1, PopulateMigrations, SameKept
       DEF PopulateTable, SameFiles, SameXattrs
  <2>2. CASE Tables[n] # "migrations"
    <3>1. disk' = disk
      BY <1>3, <2>2 DEF PopulateTable, Populate
    <3>. QED BY <3>1, SameKept
  <2>. QED BY <2>1, <2>2
<1>4. CASE MakeIndex
  <2>1. CASE disk' = disk
    BY <2>1, SameKept
  <2>2. CASE \E name, t : disk' = Index(disk, name, t)
    <3>1. PICK name, t : disk' = Index(disk, name, t)
      BY <2>2
    <3>2. disk'.rows = disk.rows /\ disk'.attrs = disk.attrs /\ disk'.attrsNew = disk.attrsNew
      BY <1>1, <3>1 DEF Index, Database
    <3>. QED BY <3>2, SameKept
  <2>. QED BY <1>4, <2>1, <2>2 DEF MakeIndex
<1>5. CASE RunMigration
  <2>1. CASE disk' = disk
    BY <2>1, SameKept
  <2>2. CASE MigrationFits(n, disk) /\ disk' = Migrated(n, disk)
    <3>1. /\ n \in 1..8 /\ disk.migrations
          /\ \A v \in disk.versions : v < n
          /\ n > 1 => n - 1 \in disk.versions
      BY <1>5 DEF IInv, MigrateInv, RunMigration, LastMigration
    <3>2. disk'.rows = disk.rows
      BY <1>1, <2>2, <3>1, MigrationDone
    <3>3. Kept(disk, disk')
      BY <1>1, <2>2, <3>1, MigrationKeeps
    <3>. QED BY <3>2, <3>3
  <2>. QED BY <1>5, <2>1, <2>2 DEF RunMigration
<1>6. CASE RecordMigration
  <2>1. disk' = [disk EXCEPT !.versions = @ \cup {n}] /\ n \in 0..8
    BY <1>6 DEF IInv, MigrateInv, RecordMigration
  <2>. QED BY <1>1, <2>1, RecordFacts, SameKept DEF SameFiles, SameXattrs
<1>. QED BY <1>2, <1>3, <1>4, <1>5, <1>6 DEF MakingActions

(* No attribute is lost on the way from the old table to the new one       *)
(* (file_migrations 3 to 6, the tables that make_tables() creates) by any  *)
(* step of any server, unless a memory database that could not be loaded   *)
(* overwrites files.db.                                                    *)
THEOREM AttributesSurvive == Spec => AttributesKept
<1>1. IInv /\ [Next]_vars =>
        [\/ \A a \in Attributes : Holds(disk, a) => Holds(disk', a)
         \/ build = "memory" /\ failed]_vars
  <2>. SUFFICES ASSUME IInv, Next, ~(build = "memory" /\ failed)
                PROVE  Kept(disk, disk')
    BY DEF Kept
  <2>1. CASE QuietActions
    BY <2>1, QuietDisk, SameKept
  <2>2. CASE MakingActions
    BY <2>2, MakingKeeps
  <2>3. CASE Update
    <3>1. disk' = disk \/ disk' = [disk EXCEPT !.rows = @ + 1]
      BY <2>3 DEF Update
    <3>2. disk \in Database
      BY DEF IInv, TypeOK
    <3>. QED BY <3>1, <3>2, RowFacts, SameKept DEF SameXattrs
  <2>4. CASE pdb_maybe_backup \/ cleanup_db
    <3>1. pdb_backup /\ pc = "up"
      BY <2>4 DEF pdb_maybe_backup, cleanup_db
    <3>2. CASE disk' = disk
      BY <3>2, SameKept
    <3>3. CASE build = "memory" /\ {"file", "real"} \subseteq open /\ disk' = mem
      <4>1. mem.attrs = disk.attrs /\ mem.attrsNew = disk.attrsNew
        BY <3>1, <3>3 DEF IInv, MemoryInv, Loaded
      <4>. QED BY <3>3, <4>1, SameKept
    <3>. QED BY <3>1, <3>2, <3>3, BackupFacts
  <2>. QED BY <2>1, <2>2, <2>3, <2>4 DEF Next, QuietActions, MakingActions
<1>. QED BY <1>1, Invariant, PTL DEF Spec, AttributesKept

\* What a client finds in the build on disk is files.db
LEMMA ContentOnDisk ==
  ASSUME IInv, build # "memory", UNCHANGED build
  PROVE  Content = disk.rows /\ Content' = disk'.rows
  BY DEF Content, Loaded, file_db, Current

\* and in the build with a memory database, that one as long as it is loaded.
LEMMA ContentInMemory ==
  ASSUME build = "memory", UNCHANGED build
  PROVE  /\ Content = IF Loaded THEN mem.rows ELSE disk.rows
         /\ Content' = IF Loaded' THEN mem'.rows ELSE disk'.rows
  BY DEF Content, file_db, Current

LEMMA RowsStep ==
  ASSUME IInv, Next, ~(build = "memory" /\ ((crashes' > crashes /\ pc' = "down") \/ failed'))
  PROVE  Content' >= Content
<1>1. disk.rows \in Nat /\ mem.rows \in Nat
  BY DatabaseFields DEF IInv, TypeOK
<1>2. UNCHANGED build
  BY DEF Next, Start, get_dbs, OpenLog, OpenFiles, OpenMemory, pdb_restore, MakeTable,
     PopulateTable, MakeIndex, ReadVersion, RunMigration, RecordMigration, TablesMade,
     MakeTablesFails, Update, pdb_maybe_backup, cleanup_db, Crash
<1>3. Update => /\ build = "memory" => mem'.rows = mem.rows + 1 /\ disk' = disk
                /\ build # "memory" => disk'.rows = disk.rows + 1
  <2>1. disk \in Database /\ mem \in Database
    BY DEF IInv, TypeOK
  <2>. QED BY <2>1, RowFacts DEF Update
<1>4. CASE build # "memory"
  <2>1. Content = disk.rows /\ Content' = disk'.rows
    BY <1>2, <1>4, ContentOnDisk
  <2>2. CASE QuietActions
    BY <1>1, <2>1, <2>2, QuietDisk
  <2>3. CASE MakingActions
    BY <1>1, <2>1, <2>3, MakingKeeps
  <2>4. CASE Update
    BY <1>1, <1>3, <1>4, <2>1, <2>4
  <2>5. CASE pdb_maybe_backup \/ cleanup_db
    <3>1. disk' = disk
      BY <1>4, <2>5 DEF pdb_maybe_backup, cleanup_db, pdb_backup
    <3>. QED BY <1>1, <2>1, <3>1
  <2>. QED BY <2>2, <2>3, <2>4, <2>5 DEF Next, QuietActions, MakingActions
<1>5. CASE build = "memory"
  <2>1. /\ Content = IF Loaded THEN mem.rows ELSE disk.rows
        /\ Content' = IF Loaded' THEN mem'.rows ELSE disk'.rows
    BY <1>2, <1>5, ContentInMemory
  <2>2. ~failed' /\ ~(crashes' > crashes /\ pc' = "down")
    BY <1>5
  <2>3. ~failed
    BY <2>2 DEF IInv, TypeOK, Next, Start, get_dbs, OpenLog, OpenFiles, OpenMemory,
       pdb_restore, MakeTable, PopulateTable, MakeIndex, ReadVersion, RunMigration,
       RecordMigration, TablesMade, MakeTablesFails, Update, pdb_maybe_backup, cleanup_db,
       Crash, pdb_backup
  <2>4. HandleInv /\ MemoryInv
    BY DEF IInv
  <2>5. CASE Start \/ get_dbs \/ OpenLog \/ OpenFiles \/ OpenMemory
    <3>1. disk' = disk
      BY <2>5, QuietDisk DEF QuietActions
    <3>2. (Loaded' <=> Loaded) /\ (Loaded => mem' = mem)
      <4>1. CASE Start
        BY <2>4, <4>1 DEF Start, HandleInv, Loaded, handles
      <4>2. CASE get_dbs
        <5>1. /\ mem' = mem /\ open' = open /\ pc = "up" /\ pc' # "up"
              /\ already' = ("file" \in open)
          BY <4>2 DEF get_dbs
        <5>2. already' <=> "file" \in open
          BY <5>1, Zenon
        <5>. QED BY <5>1, <5>2 DEF Loaded
      <4>3. CASE OpenLog
        <5>1. /\ mem' = mem /\ pc # "up" /\ pc' # "up" /\ already' = already
              /\ open' = open \/ open' = open \cup {"log"}
          BY <4>3 DEF OpenLog
        <5>. QED BY <5>1 DEF Loaded
      <4>4. CASE OpenFiles
        <5>1. /\ mem' = mem /\ pc # "up" /\ pc' # "up" /\ already' = already
              /\ open' = open \/ open' = open \cup {"real"}
          BY <1>5, <4>4 DEF OpenFiles, Handle
        <5>. QED BY <5>1 DEF Loaded
      <4>5. CASE OpenMemory
        BY <2>4, <4>5 DEF OpenMemory, HandleInv, Loaded
      <4>. QED BY <2>5, <4>1, <4>2, <4>3, <4>4, <4>5
    <3>. QED BY <1>1, <2>1, <3>1, <3>2
  <2>6. CASE pdb_restore
    <3>1. disk' = disk /\ Loaded' /\ (Loaded => mem' = mem) /\ (~Loaded => mem' = disk)
      BY <1>5, <2>2, <2>3, <2>4, <2>6
         DEF pdb_restore, Restores, HandleInv, MemoryInv, Loaded
    <3>. QED BY <1>1, <2>1, <3>1
  <2>7. CASE MakingActions \/ ReadVersion \/ TablesMade \/ MakeTablesFails
    <3>1. pc \in Making /\ pc' # "up" /\ UNCHANGED << open, already >>
      BY <2>7 DEF MakingActions, MakeTable, PopulateTable, MakeIndex, ReadVersion,
         RunMigration, RecordMigration, TablesMade, MakeTablesFails, Making, handles
    <3>2. ~Loaded /\ ~Loaded'
      BY <1>5, <2>3, <2>4, <3>1 DEF MemoryInv, Loaded
    <3>3. disk'.rows = disk.rows
      BY <2>7, MakingKeeps, QuietDisk DEF QuietActions
    <3>. QED BY <1>1, <2>1, <3>2, <3>3
  <2>8. CASE Update
    <3>1. Loaded /\ Loaded'
      BY <2>8 DEF Update, Loaded, handles
    <3>. QED BY <1>1, <1>3, <1>5, <2>1, <2>8, <3>1
  <2>9. CASE pdb_maybe_backup
    <3>1. mem' = mem /\ pc = "up" /\ UNCHANGED << pc, open, already >> /\ pdb_backup
      BY <2>9 DEF pdb_maybe_backup, handles
    <3>2. Loaded' <=> Loaded
      BY <3>1 DEF Loaded
    <3>3. ~Loaded => disk' = disk
      BY <3>1 DEF Loaded, pdb_backup
    <3>. QED BY <1>1, <2>1, <3>1, <3>2, <3>3
  <2>10. CASE cleanup_db
    <3>1. pc = "up" /\ pdb_backup /\ open' = {} /\ dirty \in BOOLEAN
      BY <2>10 DEF cleanup_db, Stopped, IInv, TypeOK
    <3>2. ~Loaded'
      BY <3>1 DEF Loaded
    <3>3. CASE Loaded
      <4>1. {"file", "real"} \subseteq open
        BY <1>5, <2>3, <2>4, <3>3 DEF MemoryInv, Loaded
      <4>2. CASE dirty
        BY <1>1, <1>5, <2>1, <2>2, <3>1, <3>2, <3>3, <4>1, <4>2 DEF pdb_backup
      <4>3. CASE ~dirty
        <5>1. disk' = disk /\ mem.rows = disk.rows
          BY <1>5, <2>3, <2>4, <3>1, <3>3, <4>3 DEF pdb_backup, MemoryInv
        <5>. QED BY <1>1, <2>1, <3>2, <3>3, <5>1
      <4>. QED BY <4>2, <4>3
    <3>4. CASE ~Loaded
      <4>1. disk' = disk
        BY <3>1, <3>4 DEF pdb_backup, Loaded
      <4>. QED BY <1>1, <2>1, <3>2, <3>4, <4>1
    <3>. QED BY <3>3, <3>4
  <2>11. CASE Crash
    <3>1. crashes' > crashes /\ pc' = "down"
      BY <2>11 DEF Crash, Stopped, IInv, TypeOK
    <3>. QED BY <2>2, <3>1
  <2>. QED BY <2>5, <2>6, <2>7, <2>8, <2>9, <2>10, <2>11 DEF Next, MakingActions
<1>. QED BY <1>4, <1>5

(* No row is lost: neither by opening databases again because one of them  *)
(* is missing (already_loaded in get_dbs), nor by a migration, nor by an   *)
(* exit and a restart (cleanup_db, pdb_restore), nor, on disk, by a crash. *)
(* The memory database is excused when the server is killed and when       *)
(* files.db could not be read or written.                                  *)
THEOREM RowsSurvive == Spec => RowsKept
<1>1. IInv /\ [Next]_vars =>
        [\/ Content' >= Content
         \/ build = "memory" /\ ((crashes' > crashes /\ pc' = "down") \/ failed')]_vars
  BY RowsStep
<1>. QED BY <1>1, Invariant, PTL DEF Spec, RowsKept
=============================================================================
