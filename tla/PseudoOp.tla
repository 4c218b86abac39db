------------------------------ MODULE PseudoOp -----------------------------
(***************************************************************************)
(* pseudo_op() of pseudo.c: how the server processes one request.  It      *)
(* looks the request up by path and inode, by path, and by inode; repairs  *)
(* rows that the request contradicts; and then applies the operation.      *)
(*                                                                         *)
(* A lookup context c holds the C function's locals: c.db (the database),  *)
(* c.msg (the message, which the by-path lookup overwrites), c.header      *)
(* (msg_header), c.by_path, c.by_ino, c.path_by_ino, the found_* flags and *)
(* c.abort (msg->result was set to RESULT_ABORT).                          *)
(*                                                                         *)
(* As in FilesDB, an operator X_Fault is X with a mistake in it.           *)
(***************************************************************************)
EXTENDS FilesDB

\* operations that prefer the row of the inode over the row of the path
PrefersInode == {"fchown", "fchmod", "fstat"}

IsDir(mode) == mode.type = "dir"
IsLnk(mode) == mode.type = "lnk"

\* the directory / symlink disagreement both sanity checks repair
KindClash(a, b) == IsDir(a.mode) # IsDir(b.mode) \/ IsLnk(a.mode) # IsLnk(b.mode)

-----------------------------------------------------------------------------
(* Lookup *)

FoundExact(db, msg) ==
    [db |-> db, msg |-> msg, header |-> msg,
     by_path |-> LoadRow(msg, FirstById(pdb_find_file_exact(db, msg))),
     by_ino  |-> LoadRow(msg, FirstById(pdb_find_file_exact(db, msg))),
     path_by_ino |-> msg.path, found_path |-> TRUE, found_ino |-> TRUE,
     found_exact |-> TRUE, abort |-> FALSE]

\* the by-path row replaces inode, owner and mode of *msg, and is not undone
AfterPathLookup(db, msg) ==
    LET rows == pdb_find_file_path(db, msg)
    IN  IF rows = {} THEN msg ELSE LoadRowAndInode(msg, FirstByInode(rows))

FoundSeparately(db, msg) ==
    LET m      == AfterPathLookup(db, msg)
        rows   == IF m.ino = NoInode THEN {} ELSE pdb_find_file_dev(db, msg)
        row    == FirstById(rows)
    IN  [db |-> db, msg |-> m, header |-> msg, by_path |-> m,
         by_ino |-> IF rows = {} THEN msg ELSE LoadRow(msg, row),
         path_by_ino |-> IF rows = {} THEN NoPath ELSE row.path,
         found_path |-> pdb_find_file_path(db, msg) # {},
         found_ino |-> rows # {}, found_exact |-> FALSE, abort |-> FALSE]

Lookup(db, msg) ==
    IF msg.path # NoPath /\ msg.ino # NoInode /\ pdb_find_file_exact(db, msg) # {}
    THEN FoundExact(db, msg)
    ELSE FoundSeparately(db, msg)

-----------------------------------------------------------------------------
(* Sanity checks; neither applies to DID_UNLINK *)

\* the row of this path has another inode and somebody was deleting it
SupersededRow(c) ==
    /\ c.by_path.ino # c.header.ino
    /\ c.header.ino # NoInode
    /\ c.header.op # "exec"
    /\ c.by_path.deleting # Nobody

DropSuperseded(c) ==
    IF SupersededRow(c)
    THEN pdb_did_unlink_file_NULL(c.db, c.msg.path, c.by_path.deleting)
    ELSE c.db

CheckPath(c) ==
    IF ~c.found_path \/ c.header.op = "did_unlink" THEN c
    ELSE IF KindClash(c.by_path, c.header)
    THEN [c EXCEPT !.db = pdb_unlink_file(DropSuperseded(c), c.msg),
                   !.found_path = FALSE]
    ELSE [c EXCEPT !.db = DropSuperseded(c)]

\* the row of this inode has another path
PathMismatch(c) ==
    /\ c.msg.path # NoPath
    /\ c.path_by_ino # NoPath
    /\ CASE c.header.op \in {"link", "exec"} -> FALSE
         [] c.header.op = "rename" ->
                c.header.nlink = 1 /\ c.header.oldpath # c.path_by_ino
         [] OTHER -> c.msg.path # c.path_by_ino /\ c.path_by_ino # Nameless

NameNameless(c) ==
    IF c.msg.path # NoPath /\ c.path_by_ino = NoPath
    THEN pdb_update_file_path(c.db, c.msg) ELSE c.db

CheckIno_Strict(c) ==
    IF ~c.found_ino \/ c.header.op = "did_unlink" THEN c
    ELSE IF PathMismatch(c)
    THEN [c EXCEPT !.found_ino = FALSE, !.abort = TRUE]
    ELSE [c EXCEPT !.db = NameNameless(c)]

CheckIno(c) ==
    IF ~c.found_ino \/ c.header.op = "did_unlink" THEN c
    ELSE IF PathMismatch(c) /\ c.by_ino.deleting = Nobody
    THEN [c EXCEPT !.found_ino = FALSE, !.abort = TRUE]
    ELSE IF KindClash(c.by_ino, c.header)
    THEN [c EXCEPT !.db = pdb_unlink_file_dev(NameNameless(c), c.msg),
                   !.found_ino = FALSE]
    ELSE [c EXCEPT !.db = NameNameless(c)]

-----------------------------------------------------------------------------
(* The operations.  Each yields the database and the answered message. *)

Answer(db, msg) == [db |-> db, msg |-> msg]
Fail(msg) == [msg EXCEPT !.result = "fail"]

DbHeader(c) ==
    IF c.found_ino /\ (c.header.op \in PrefersInode \/ ~c.found_path)
    THEN c.by_ino ELSE c.by_path

OpCreat(c) ==
    LET db == IF c.found_ino /\ ~c.found_exact
              THEN pdb_unlink_file_dev(c.db, c.by_ino) ELSE c.db
    IN  Answer(IF c.found_path THEN db ELSE pdb_link_file(db, c.msg), c.msg)

\* the row to update: by inode, else by path
Known(c) == IF c.found_ino THEN c.by_ino ELSE c.by_path

UpdateOrLink(c, msg) ==
    Answer(IF c.found_ino \/ c.found_path THEN pdb_update_file(c.db, msg)
           ELSE pdb_link_file(c.db, msg), msg)

OpChmod(c) ==
    UpdateOrLink(c,
        IF c.found_ino \/ c.found_path
        THEN [Known(c) EXCEPT !.mode.perm = c.header.mode.perm]
        ELSE [c.msg EXCEPT !.mode = c.header.mode])

OpChown(c) ==
    UpdateOrLink(c,
        [(IF c.found_ino \/ c.found_path THEN Known(c) ELSE c.msg)
            EXCEPT !.uid = c.header.uid])

OpStat_Header(c) ==
    Answer(c.db, IF c.found_ino \/ c.found_path THEN c.msg ELSE Fail(c.msg))

OpStat(c) ==
    Answer(c.db, IF c.found_ino \/ c.found_path THEN DbHeader(c) ELSE Fail(c.msg))

OpLink(c) ==
    LET db  == IF c.found_path THEN pdb_unlink_file(c.db, c.msg) ELSE c.db
        msg == IF ~c.found_ino THEN c.header
               ELSE IF c.header.op = "symlink" THEN c.msg
               ELSE c.by_ino
    IN  Answer(pdb_link_file(db, msg), msg)

OpRename(c, stale) ==
    Answer(pdb_update_inode(pdb_rename_file(c.db, c.header.oldpath, c.msg),
                            c.msg, stale), c.msg)

OpMayUnlink(c) ==
    Answer(pdb_may_unlink_file(c.db, c.msg, c.msg.client),
           IF Markable(c.db, c.msg) THEN c.msg ELSE Fail(c.msg))

OpDidUnlink(c) ==
    Answer(pdb_did_unlink_file(c.db, c.msg.path, c.msg, c.msg.client), c.msg)

OpCancelUnlink(c) == Answer(pdb_cancel_unlink_file(c.db, c.msg), c.msg)

OpUnlink(c) ==
    LET db == pdb_unlink_contents(pdb_unlink_file(c.db, c.msg), c.msg)
    IN  Answer(IF c.header.nlink = 1 /\ c.found_ino
               THEN pdb_unlink_file_dev(db, c.msg) ELSE db,
               [c.msg EXCEPT !.result = "none"])

OpMkdir(c) ==
    LET db1 == IF c.found_path THEN pdb_unlink_file(c.db, c.msg) ELSE c.db
        db2 == IF c.found_ino THEN pdb_unlink_file_dev(db1, c.by_ino) ELSE db1
    IN  Answer(pdb_link_file(db2, c.header), c.header)

OpGetXattr(c) ==
    LET rows == pdb_get_xattr(c.db, c.msg)
    IN  Answer(c.db, IF rows = {} THEN Fail(c.msg)
                     ELSE [c.msg EXCEPT !.value = FirstById(rows).value])

OpListXattr(c) == Answer(c.db, [c.msg EXCEPT !.value = pdb_list_xattr(c.db, c.msg)])

OpSetXattr(c) ==
    Answer(pdb_set_xattr(c.db, c.msg),
           IF SetXattrFails(c.db, c.msg) THEN Fail(c.msg) ELSE c.msg)

OpRemoveXattr(c) == Answer(pdb_remove_xattr(c.db, c.msg), c.msg)

\* open and exec are only logged
OpSwitch(c, stale) ==
    CASE c.header.op = "creat"                   -> OpCreat(c)
      [] c.header.op \in {"chmod", "fchmod"}     -> OpChmod(c)
      [] c.header.op \in {"chown", "fchown"}     -> OpChown(c)
      [] c.header.op \in {"stat", "fstat"}       -> OpStat(c)
      [] c.header.op \in {"link", "symlink"}     -> OpLink(c)
      [] c.header.op = "rename"                  -> OpRename(c, stale)
      [] c.header.op = "may_unlink"              -> OpMayUnlink(c)
      [] c.header.op = "did_unlink"              -> OpDidUnlink(c)
      [] c.header.op = "cancel_unlink"           -> OpCancelUnlink(c)
      [] c.header.op = "unlink"                  -> OpUnlink(c)
      [] c.header.op \in {"mkdir", "mknod"}      -> OpMkdir(c)
      [] c.header.op = "get_xattr"               -> OpGetXattr(c)
      [] c.header.op \in {"set_xattr", "create_xattr", "replace_xattr"}
                                                 -> OpSetXattr(c)
      [] c.header.op = "list_xattr"              -> OpListXattr(c)
      [] c.header.op = "remove_xattr"            -> OpRemoveXattr(c)
      [] OTHER                                   -> Answer(c.db, c.msg)

\* an open file without a name gets its row marked, so that later requests
\* do not match it
MarkUnlinkedFd(c, out) ==
    IF /\ c.header.op \in PrefersInode
       /\ ~c.found_path /\ ~c.found_ino /\ out.msg.nlink = 0
    THEN [out EXCEPT !.db = pdb_may_unlink_file(@, out.msg, out.msg.client)]
    ELSE out

pseudo_op(db, msg, stale) ==
    LET c == CheckIno(CheckPath(Lookup(db, [msg EXCEPT !.result = "succeed"])))
    IN  IF c.abort THEN Answer(c.db, [c.msg EXCEPT !.result = "abort"])
        ELSE MarkUnlinkedFd(c, OpSwitch(c, stale))
=============================================================================
