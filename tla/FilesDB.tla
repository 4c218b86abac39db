------------------------------ MODULE FilesDB ------------------------------
(***************************************************************************)
(* The file database of the pseudo server: the tables "files" and "xattrs" *)
(* of files.db and the statements pseudo_db.c runs on them.  A database is *)
(* a record of two sets of rows.  Rows keep the INTEGER PRIMARY KEY that   *)
(* SQLite gives them, because a SELECT that matches several rows returns   *)
(* the first one in index order, and xattr values are updated by that id.  *)
(*                                                                         *)
(* Abstractions.  All files live on one device, so "dev" is left out; uid  *)
(* is the pair << uid, gid >> and mode stands for (mode, rdev), a record   *)
(* [type, perm].  Paths are sequences of names, and no name is a proper    *)
(* prefix of another.  SQLite errors (dberr paths) are not modelled: the   *)
(* code reports them and continues.                                        *)
(*                                                                         *)
(* An operator X_Fault is X with a plausible mistake in it.  No            *)
(* specification uses it: it shows that a property can tell the two apart. *)
(***************************************************************************)
EXTENDS Integers, Sequences, FiniteSets

Nobody   == 0                     \* "deleting" of a row nobody is deleting
NoInode  == 0                     \* the inode of a message without a stat buffer
NoPath   == << >>                 \* msg->pathlen = 0
Nameless == << "NAMELESS FILE" >> \* stored when a file has no path

EmptyDB == [files |-> {}, xattrs |-> {}]

(***************************************************************************)
(* SQLite: the next INTEGER PRIMARY KEY, and which of several matching rows *)
(* a SELECT steps to first under each index.                                *)
(***************************************************************************)
NextId(table) ==
    IF table = {} THEN 1
    ELSE 1 + (CHOOSE n \in {r.id : r \in table} : \A r \in table : r.id <= n)

\* index files__dev_ino: rows of one inode come in rowid order
FirstById(rows) == CHOOSE r \in rows : \A s \in rows : r.id <= s.id

\* index files__path_dev_ino: rows of one path come in order of inode, then rowid
FirstByInode(rows) ==
    CHOOSE r \in rows : \A s \in rows :
        r.ino < s.ino \/ (r.ino = s.ino /\ r.id <= s.id)

(***************************************************************************)
(* Paths inside a directory: (path > old || '/') AND (path < old || '0').   *)
(***************************************************************************)
IsUnder(path, old) ==
    Len(path) > Len(old) /\ SubSeq(path, 1, Len(old)) = old

\* SQL replace(path, old, new): EVERY occurrence of old, left to right
SqlReplace(path, old, new) ==
    LET from[i \in 1 .. Len(path) + 1] ==
            IF i > Len(path) THEN << >>
            ELSE IF i + Len(old) - 1 <= Len(path)
                    /\ SubSeq(path, i, i + Len(old) - 1) = old
                 THEN new \o from[i + Len(old)]
                 ELSE << path[i] >> \o from[i + 1]
    IN  from[1]

-----------------------------------------------------------------------------
(* Extended attributes that no file needs any more *)

HasFile(db, ino) == \E r \in db.files : r.ino = ino

pdb_clear_unused_xattrs(db) ==
    [db EXCEPT !.xattrs = {x \in @ : HasFile(db, x.ino)}]

pdb_clear_xattrs(db, ino) ==
    [db EXCEPT !.xattrs = {x \in @ : x.ino = ino => HasFile(db, ino)}]

pdb_check_xattrs(db, ino) ==
    IF HasFile(db, ino) THEN db ELSE pdb_clear_xattrs(db, ino)

\* INSERT ... SELECT: the copies get fresh ids in the order of the originals.
\* Nothing refuses them: the index on (dev, ino, name) of a database that this
\* release created is not unique (one that was migrated has a unique one as well,
\* which would refuse all the copies if one of the names were there).
pdb_copy_xattrs(db, from, to) ==
    LET src == {x \in db.xattrs : x.ino = from}
        Rank(x) == Cardinality({y \in src : y.id < x.id})
    IN  [db EXCEPT !.xattrs = @ \cup
            {[x EXCEPT !.id = NextId(db.xattrs) + Rank(x), !.ino = to] : x \in src}]

-----------------------------------------------------------------------------
(* Changes of the files table *)

pdb_link_file(db, msg) ==
    [db EXCEPT !.files = @ \cup
        {[id |-> NextId(db.files),
          path |-> IF msg.path = NoPath THEN Nameless ELSE msg.path,
          ino |-> msg.ino, uid |-> msg.uid, mode |-> msg.mode,
          deleting |-> Nobody]}]

pdb_unlink_file_dev(db, msg) ==
    pdb_clear_xattrs([db EXCEPT !.files = {r \in @ : r.ino # msg.ino}], msg.ino)

\* called by pseudo_op only when the request has a path and the row has none
pdb_update_file_path(db, msg) ==
    [db EXCEPT !.files =
        {IF r.path = Nameless /\ r.ino = msg.ino
         THEN [r EXCEPT !.path = msg.path] ELSE r : r \in @}]

Marked(files, path, client) ==
    {IF r.path = path THEN [r EXCEPT !.deleting = client] ELSE r : r \in files}

\* the C function also returns whether a row was marked: see Markable
pdb_may_unlink_file(db, msg, client) ==
    IF msg.path = NoPath THEN db
    ELSE [db EXCEPT !.files = Marked(@, msg.path, client)]

Markable_Once(db, msg) ==
    msg.path # NoPath /\ \E r \in db.files : r.path = msg.path /\ r.deleting = Nobody

Markable(db, msg) == msg.path # NoPath /\ \E r \in db.files : r.path = msg.path

pdb_cancel_unlink_file(db, msg) ==
    IF msg.path = NoPath THEN db
    ELSE pdb_check_xattrs(
            [db EXCEPT !.files = Marked(@, msg.path, Nobody)], msg.ino)

DeleteMarked(db, path, client) ==
    [db EXCEPT !.files = {r \in @ : ~(r.path = path /\ r.deleting = client)}]

pdb_did_unlink_file_ByInode(db, path, msg, client) ==
    pdb_clear_xattrs([db EXCEPT !.files = {r \in @ : r.ino # msg.ino}], msg.ino)

pdb_did_unlink_file_KeepXattrs(db, path, msg, client) == DeleteMarked(db, path, client)

\* with a message: only that inode's attributes can have become unused
pdb_did_unlink_file(db, path, msg, client) ==
    pdb_clear_xattrs(DeleteMarked(db, path, client), msg.ino)

\* without one (msg = NULL): sweep all attributes
pdb_did_unlink_file_NULL(db, path, client) ==
    pdb_clear_unused_xattrs(DeleteMarked(db, path, client))

pdb_unlink_file(db, msg) ==
    IF msg.path = NoPath THEN db
    ELSE pdb_check_xattrs(
            [db EXCEPT !.files = {r \in @ : r.path # msg.path}], msg.ino)

pdb_unlink_contents(db, msg) ==
    IF msg.path = NoPath THEN db
    ELSE pdb_clear_unused_xattrs(
            [db EXCEPT !.files = {r \in @ : ~IsUnder(r.path, msg.path)}])

RenamedExact_KeepMark(files, old, new) ==
    {IF r.path = old THEN [r EXCEPT !.path = new] ELSE r : r \in files}

\* both UPDATEs run in one transaction; the second sees the first's rows
RenamedExact(files, old, new) ==
    {IF r.path = old THEN [r EXCEPT !.path = new, !.deleting = Nobody] ELSE r
        : r \in files}

RenamedBelow_Not(files, old, new) == files

RenamedBelow(files, old, new) ==
    {IF IsUnder(r.path, old)
     THEN [r EXCEPT !.path = SqlReplace(r.path, old, new), !.deleting = Nobody]
     ELSE r : r \in files}

pdb_rename_file(db, oldpath, msg) ==
    IF msg.path = NoPath THEN db
    ELSE [db EXCEPT !.files =
            RenamedBelow(RenamedExact(@, oldpath, msg.path), oldpath, msg.path)]

\* stale: the path that the static buffer "oldmsg" happens to hold.  The memcpy
\* copies sizeof(msg), a pointer's size, so of a new path of n bytes at most
\* the first n - 68 arrive: nothing that names a row, or a parent directory.
pdb_update_inode(db, msg, stale) ==
    LET hits    == {r \in db.files : r.path = stale}
        oldino  == FirstByInode(hits).ino
        Renumber(d) == [d EXCEPT !.files =
            {IF r.path = msg.path THEN [r EXCEPT !.ino = msg.ino] ELSE r : r \in @}]
    IN  IF msg.path = NoPath THEN db
        ELSE IF stale = NoPath \/ hits = {} THEN Renumber(db)
        ELSE pdb_check_xattrs(Renumber(pdb_copy_xattrs(db, oldino, msg.ino)), oldino)

pdb_update_file(db, msg) ==
    [db EXCEPT !.files =
        {IF r.ino = msg.ino THEN [r EXCEPT !.uid = msg.uid, !.mode = msg.mode]
         ELSE r : r \in @}]

-----------------------------------------------------------------------------
(* Lookups: the matching rows; pseudo_op loads the first one *)

pdb_find_file_exact(db, msg) ==
    {r \in db.files : r.path = msg.path /\ r.ino = msg.ino}

pdb_find_file_path(db, msg) ==
    {r \in db.files : msg.path # NoPath /\ r.path = msg.path}

pdb_find_file_dev(db, msg) == {r \in db.files : r.ino = msg.ino}

\* what the exact and by-inode lookups copy from a row into a message
LoadRow(msg, r) ==
    [msg EXCEPT !.uid = r.uid, !.mode = r.mode, !.deleting = r.deleting]

\* the by-path lookup also replaces the inode
LoadRowAndInode(msg, r) == [LoadRow(msg, r) EXCEPT !.ino = r.ino]

-----------------------------------------------------------------------------
(* Extended attributes *)

XattrRows(db, msg) == {x \in db.xattrs : x.ino = msg.ino /\ x.name = msg.name}

pdb_get_xattr(db, msg) == XattrRows(db, msg)

pdb_list_xattr(db, msg) == {x.name : x \in {y \in db.xattrs : y.ino = msg.ino}}

pdb_remove_xattr(db, msg) ==
    [db EXCEPT !.xattrs = @ \ XattrRows(db, msg)]

\* XATTR_CREATE fails on an existing row, XATTR_REPLACE on a missing one
SetXattrFails(db, msg) ==
    \/ msg.op = "create_xattr" /\ XattrRows(db, msg) # {}
    \/ msg.op = "replace_xattr" /\ XattrRows(db, msg) = {}

pdb_set_xattr_Swapped(db, msg) ==
    [db EXCEPT !.xattrs = @ \cup
        {[id |-> NextId(db.xattrs), ino |-> msg.ino,
          name |-> msg.value, value |-> msg.name]}]

pdb_set_xattr(db, msg) ==
    LET rows == XattrRows(db, msg)
        row  == FirstById(rows)
    IN  IF SetXattrFails(db, msg) THEN db
        ELSE IF rows # {}
        THEN [db EXCEPT !.xattrs = (@ \ {row}) \cup {[row EXCEPT !.value = msg.value]}]
        ELSE [db EXCEPT !.xattrs = @ \cup
                {[id |-> NextId(db.xattrs), ino |-> msg.ino,
                  name |-> msg.name, value |-> msg.value]}]
=============================================================================
