------------------------ MODULE PseudoClients_proof ------------------------
(***************************************************************************)
(* A theorem about PseudoClients, for any clients, paths, calls and        *)
(* crashes, and any answers lost: a mark of MAY_UNLINK does not outlive    *)
(* the call that set it.                                                   *)
(*                                                                         *)
(* A mark is set by one request of an unlink or a rename and removed by a  *)
(* later one of the same call, with other clients' requests in between,    *)
(* and the later one is left out when the first found no row.  So the      *)
(* invariant says which request each step of a call waits for, and what    *)
(* the answers, and the flags that the call keeps of them, say about the   *)
(* marks.  About the server it needs that pseudo_op(), whatever it         *)
(* repairs, marks no row but the one it was asked to mark.                 *)
(***************************************************************************)
EXTENDS PseudoClients, TLAPS

(* The shapes of rows, messages and calls *)

IsRow(r) == r = [id |-> r.id, path |-> r.path, ino |-> r.ino, uid |-> r.uid,
                 mode |-> r.mode, deleting |-> r.deleting]

IsMsg(m) == m = [op |-> m.op, path |-> m.path, oldpath |-> m.oldpath, ino |-> m.ino,
                 uid |-> m.uid, mode |-> m.mode, nlink |-> m.nlink,
                 deleting |-> m.deleting, client |-> m.client, name |-> m.name,
                 value |-> m.value, args |-> m.args, result |-> m.result]

IsCall(x) == x = [pc |-> x.pc, p |-> x.p, q |-> x.q, st |-> x.st, st2 |-> x.st2,
                  mark |-> x.mark, mark2 |-> x.mark2, args |-> x.args, fd |-> x.fd]

PathsOrNone == Paths \cup {NoPath}

IsFd(f) == /\ f = [ino |-> f.ino, path |-> f.path, linked |-> f.linked]
           /\ f.path \in PathsOrNone /\ f.linked \in PathsOrNone

\* a row without a name is never marked
GoodFiles(F) == \A r \in F : IsRow(r) /\ (r.path = Nameless => r.deleting = Nobody)
GoodDB(d) == d = [files |-> d.files, xattrs |-> d.xattrs] /\ GoodFiles(d.files)

IsRequest(c, m) ==
    /\ IsMsg(m) /\ m.client = c /\ m.path \in PathsOrNone
    /\ m.op \in {"may_unlink", "did_unlink", "cancel_unlink", "rename"} => m.path \in Paths

(* In the following, x is a client's call (cl[c]) and w its connection (chan[c]). *)

\* the request that is not yet answered, or was answered last
Request(w) == IF w.dir = "request" THEN w.msg ELSE w.request

Fits(c, x, w) ==
    /\ IsCall(x) /\ IsFd(x.fd) /\ x.p \in PathsOrNone /\ x.q \in PathsOrNone
    /\ w.dir \in {"none", "request", "answer"}
    /\ w.dir # "none" => IsRequest(c, Request(w))

\* The steps that wait for MAY_UNLINK, DID_UNLINK or CANCEL_UNLINK, and of which path
RenameSteps == {"rename_old", "rename_stat", "rename_real", "rename_did",
                "rename_cancel", "rename_link"}

Waits(x, w, pcs, op, p) ==
    x.pc \in pcs /\ w.dir # "none" => Request(w).op = op /\ Request(w).path = p

CallInv(x, w) ==
    /\ x.pc \in {"unlink", "rmdir"} => x.p \in Paths
    /\ x.pc \in RenameSteps => x.p \in Paths /\ x.q \in Paths
    /\ Waits(x, w, {"unlink", "rmdir", "rename_stat"}, "may_unlink", x.p)
    /\ Waits(x, w, {"rename_old"}, "may_unlink", x.q)
    /\ Waits(x, w, {"rename_did"}, "did_unlink", x.q)
    /\ Waits(x, w, {"rename_cancel"}, "cancel_unlink", x.q)
    /\ x.pc \notin {"unlink", "rmdir", "rename_old", "rename_stat"} /\ w.dir # "none"
          => Request(w).op # "may_unlink"

\* Deleting(c, p), of one call and one connection
DeletingIn(x, w, p) ==
    \/ x.pc \in {"unlink", "rmdir"} /\ x.p = p
    \/ x.pc \in {"rename_old", "rename_stat", "rename_real", "rename_did",
                 "rename_cancel"} /\ x.q = p
    \/ x.pc \in {"rename_stat", "rename_real", "rename_did", "rename_cancel",
                 "rename_link"} /\ x.p = p
    \/ /\ x.pc = "last" /\ w.dir # "none"
       /\ w.dir = "answer" => w.msg.result = "abort"
       /\ \/ Request(w).op \in {"did_unlink", "cancel_unlink"} /\ Request(w).path = p
          \/ Request(w).op = "rename" /\ Request(w).oldpath = p

\* the rows of path p that client c has marked
MarkedBy(F, c, p) == \E r \in F : r.deleting = c /\ r.path = p

\* what an answer that is not an abort says of the client's marks
AnswerInv(F, c, q, result) ==
    result # "abort" =>
        /\ q.op = "may_unlink" /\ result # "succeed" => ~MarkedBy(F, c, q.path)
        /\ q.op \in {"did_unlink", "cancel_unlink"} => ~MarkedBy(F, c, q.path)
        /\ q.op = "rename" => ~MarkedBy(F, c, q.oldpath)

MarkInv(F, c, x, w) ==
    /\ \A p : MarkedBy(F, c, p) => DeletingIn(x, w, p)
    /\ w.dir = "answer" => AnswerInv(F, c, w.request, w.msg.result)
    /\ x.pc \in {"rename_stat", "rename_real"} /\ ~x.mark2 /\ x.q # x.p =>
          ~MarkedBy(F, c, x.q)
    /\ x.pc \in {"rename_real", "rename_cancel"} /\ ~x.mark => ~MarkedBy(F, c, x.p)

IInv ==
    /\ GoodDB(db)
    /\ \A r \in db.files : r.deleting \in Clients \cup {Nobody}
    /\ DOMAIN cl = Clients /\ DOMAIN chan = Clients /\ DOMAIN life = Clients
    /\ \A c \in Clients :
          /\ Fits(c, cl[c], chan[c])
          /\ life[c] = "up" => CallInv(cl[c], chan[c])
          /\ life[c] = "up" /\ c \notin fdmark => MarkInv(db.files, c, cl[c], chan[c])
-----------------------------------------------------------------------------
(* The database: which statements keep the marks as they are *)

IsDB(d) == d = [files |-> d.files, xattrs |-> d.xattrs]

\* every mark of G is one of F
NoNewMarks(F, G) ==
    \A k, p : k # Nobody /\ MarkedBy(G, k, p) => MarkedBy(F, k, p)

Tame(d, e) == GoodDB(e) /\ NoNewMarks(d.files, e.files)

LEMMA ExceptFiles ==
  ASSUME NEW d, IsDB(d), NEW G, NEW e, e = [d EXCEPT !.files = G]
  PROVE  IsDB(e) /\ e.files = G /\ e.xattrs = d.xattrs
  BY Zenon DEF IsDB

LEMMA ExceptXattrs ==
  ASSUME NEW d, IsDB(d), NEW X, NEW e, e = [d EXCEPT !.xattrs = X]
  PROVE  IsDB(e) /\ e.xattrs = X /\ e.files = d.files
  BY Zenon DEF IsDB

LEMMA GoodIsDB == ASSUME NEW d PROVE GoodDB(d) <=> IsDB(d) /\ GoodFiles(d.files)
  BY DEF GoodDB, IsDB

LEMMA TameItself == ASSUME NEW d, GoodDB(d) PROVE Tame(d, d)
  BY DEF Tame, NoNewMarks

LEMMA TameTwice == ASSUME NEW d, NEW e, NEW f, Tame(d, e), Tame(e, f) PROVE Tame(d, f)
  BY DEF Tame, NoNewMarks

\* Statements on table xattrs
LEMMA TameXattrs ==
  ASSUME NEW d, GoodDB(d), NEW X, NEW e, e = [d EXCEPT !.xattrs = X]
  PROVE  Tame(d, e) /\ e.files = d.files
<1>1. IsDB(e) /\ e.files = d.files
  BY ExceptXattrs, GoodIsDB
<1>. QED BY <1>1, GoodIsDB DEF Tame, NoNewMarks

\* Statements that delete rows
LEMMA TameSubset ==
  ASSUME NEW d, GoodDB(d), NEW G, G \subseteq d.files, NEW e, e = [d EXCEPT !.files = G]
  PROVE  Tame(d, e) /\ e.files = G
<1>1. IsDB(e) /\ e.files = G
  BY ExceptFiles, GoodIsDB
<1>2. GoodFiles(G)
  BY GoodIsDB DEF GoodFiles
<1>. QED BY <1>1, <1>2, GoodIsDB DEF Tame, NoNewMarks, MarkedBy

\* Statements that change rows: no changed row is marked unless it was, at its path
LEMMA TameUpdate ==
  ASSUME NEW d, GoodDB(d), NEW G, NEW e, e = [d EXCEPT !.files = G],
         \A s \in G : /\ IsRow(s)
                      /\ \/ s.deleting = Nobody
                         \/ \E r \in d.files : r.path = s.path /\ r.deleting = s.deleting
  PROVE  Tame(d, e) /\ e.files = G
<1>1. IsDB(e) /\ e.files = G
  BY ExceptFiles, GoodIsDB
<1>2. GoodFiles(G)
  BY GoodIsDB DEF GoodFiles
<1>. QED BY <1>1, <1>2, GoodIsDB DEF Tame, NoNewMarks, MarkedBy

LEMMA TameClearUnused ==
  ASSUME NEW d, GoodDB(d)
  PROVE  /\ Tame(d, pdb_clear_unused_xattrs(d))
         /\ pdb_clear_unused_xattrs(d).files = d.files
<1>. DEFINE X == {x \in d.xattrs : HasFile(d, x.ino)}
<1>1. pdb_clear_unused_xattrs(d) = [d EXCEPT !.xattrs = X]
  BY Zenon DEF pdb_clear_unused_xattrs
<1>. QED BY <1>1, TameXattrs

LEMMA TameClear ==
  ASSUME NEW d, GoodDB(d), NEW i
  PROVE  /\ Tame(d, pdb_clear_xattrs(d, i))
         /\ pdb_clear_xattrs(d, i).files = d.files
<1>. DEFINE X == {x \in d.xattrs : x.ino = i => HasFile(d, i)}
<1>1. pdb_clear_xattrs(d, i) = [d EXCEPT !.xattrs = X]
  BY Zenon DEF pdb_clear_xattrs
<1>. QED BY <1>1, TameXattrs

LEMMA TameCheck ==
  ASSUME NEW d, GoodDB(d), NEW i
  PROVE  /\ Tame(d, pdb_check_xattrs(d, i))
         /\ pdb_check_xattrs(d, i).files = d.files
<1>1. pdb_check_xattrs(d, i) = d \/ pdb_check_xattrs(d, i) = pdb_clear_xattrs(d, i)
  BY DEF pdb_check_xattrs
<1>. QED BY <1>1, TameClear, TameItself

LEMMA TameCopy ==
  ASSUME NEW d, GoodDB(d), NEW i, NEW j
  PROVE  Tame(d, pdb_copy_xattrs(d, i, j))
<1>1. \E X : pdb_copy_xattrs(d, i, j) = [d EXCEPT !.xattrs = X]
  BY Zenon DEF pdb_copy_xattrs
<1>. QED BY <1>1, TameXattrs

\* A row after an UPDATE
LEMMA RowMarked ==
  ASSUME NEW r, IsRow(r), NEW v, NEW s, s = [r EXCEPT !.deleting = v]
  PROVE  IsRow(s) /\ s.path = r.path /\ s.deleting = v
  BY Zenon DEF IsRow

LEMMA RowNamed ==
  ASSUME NEW r, IsRow(r), NEW v, NEW s, s = [r EXCEPT !.path = v]
  PROVE  IsRow(s) /\ s.path = v /\ s.deleting = r.deleting
  BY Zenon DEF IsRow

LEMMA RowRenumbered ==
  ASSUME NEW r, IsRow(r), NEW v, NEW s, s = [r EXCEPT !.ino = v]
  PROVE  IsRow(s) /\ s.path = r.path /\ s.deleting = r.deleting
  BY Zenon DEF IsRow

LEMMA TameLink ==
  ASSUME NEW d, GoodDB(d), NEW m
  PROVE  Tame(d, pdb_link_file(d, m))
<1>. DEFINE row == [id |-> NextId(d.files),
                    path |-> IF m.path = NoPath THEN Nameless ELSE m.path,
                    ino |-> m.ino, uid |-> m.uid, mode |-> m.mode, deleting |-> Nobody]
            G == d.files \cup {row}
<1>1. pdb_link_file(d, m) = [d EXCEPT !.files = G]
  BY Zenon DEF pdb_link_file
<1>2. IsRow(row) /\ row.deleting = Nobody
  BY DEF IsRow
<1>. HIDE DEF row
<1>3. \A s \in G : /\ IsRow(s)
                   /\ \/ s.deleting = Nobody
                      \/ \E r \in d.files : r.path = s.path /\ r.deleting = s.deleting
  BY <1>2 DEF GoodDB, GoodFiles
<1>. QED
  <2>. HIDE DEF G
  <2>. QED BY <1>1, <1>3, TameUpdate

LEMMA TameUnlinkDev ==
  ASSUME NEW d, GoodDB(d), NEW m
  PROVE  Tame(d, pdb_unlink_file_dev(d, m))
<1>. DEFINE e == [d EXCEPT !.files = {r \in d.files : r.ino # m.ino}]
<1>1. pdb_unlink_file_dev(d, m) = pdb_clear_xattrs(e, m.ino)
  BY Zenon DEF pdb_unlink_file_dev
<1>2. Tame(d, e)
  BY TameSubset
<1>. HIDE DEF e
<1>3. Tame(e, pdb_clear_xattrs(e, m.ino))
  BY <1>2, TameClear DEF Tame
<1>. QED BY <1>1, <1>2, <1>3, TameTwice

\* a row that gets its name here is not marked
LEMMA TameUpdatePath ==
  ASSUME NEW d, GoodDB(d), NEW m
  PROVE  Tame(d, pdb_update_file_path(d, m))
<1>. DEFINE G == {IF r.path = Nameless /\ r.ino = m.ino
                  THEN [r EXCEPT !.path = m.path] ELSE r : r \in d.files}
<1>1. pdb_update_file_path(d, m) = [d EXCEPT !.files = G]
  BY Zenon DEF pdb_update_file_path
<1>2. ASSUME NEW s \in G
      PROVE  /\ IsRow(s)
             /\ \/ s.deleting = Nobody
                \/ \E r \in d.files : r.path = s.path /\ r.deleting = s.deleting
  <2>1. PICK r \in d.files : s = IF r.path = Nameless /\ r.ino = m.ino
                                 THEN [r EXCEPT !.path = m.path] ELSE r
    BY Zenon
  <2>2. IsRow(r) /\ (r.path = Nameless => r.deleting = Nobody)
    BY DEF GoodDB, GoodFiles
  <2>3. CASE s = r
    BY <2>2, <2>3
  <2>4. CASE r.path = Nameless /\ s = [r EXCEPT !.path = m.path]
    <3>1. IsRow(s) /\ s.deleting = r.deleting
      BY <2>2, <2>4, RowNamed, Zenon
    <3>. QED BY <2>2, <2>4, <3>1, Zenon
  <2>. QED BY <2>1, <2>3, <2>4, Zenon
<1>. QED
  <2>. HIDE DEF G
  <2>. QED BY <1>1, <1>2, TameUpdate, Zenon

\* UPDATE files SET deleting = k WHERE path = p
LEMMA MarkedRows ==
  ASSUME NEW F, GoodFiles(F), NEW p, NEW k, NEW s \in Marked(F, p, k)
  PROVE  /\ IsRow(s)
         /\ \/ s \in F /\ s.path # p
            \/ s.path = p /\ s.deleting = k /\ \E r \in F : r.path = p
<1>1. PICK r \in F : s = IF r.path = p THEN [r EXCEPT !.deleting = k] ELSE r
  BY Zenon DEF Marked
<1>2. IsRow(r)
  BY DEF GoodFiles
<1>3. CASE r.path # p /\ s = r
  BY <1>2, <1>3
<1>4. CASE r.path = p /\ s = [r EXCEPT !.deleting = k]
  <2>1. IsRow(s) /\ s.path = r.path /\ s.deleting = k
    BY <1>2, <1>4, RowMarked, Zenon
  <2>. QED BY <1>4, <2>1, Zenon
<1>. QED BY <1>1, <1>3, <1>4, Zenon

\* MAY_UNLINK marks the rows of the path for the client, and no others
LEMMA MayUnlinkMarks ==
  ASSUME NEW d, GoodDB(d), NEW m, NEW k, m.path # Nameless,
         NEW e, e = pdb_may_unlink_file(d, m, k)
  PROVE  /\ GoodDB(e)
         /\ \A j, p : j # Nobody /\ MarkedBy(e.files, j, p) =>
               MarkedBy(d.files, j, p) \/ (j = k /\ p = m.path)
         /\ MarkedBy(e.files, k, m.path) =>
               \/ Markable(d, m)
               \/ m.path = NoPath /\ MarkedBy(d.files, k, m.path)
<1>1. CASE m.path = NoPath
  <2>1. e = d
    BY <1>1 DEF pdb_may_unlink_file
  <2>. QED BY <1>1, <2>1
<1>2. CASE m.path # NoPath
  <2>. DEFINE G == Marked(d.files, m.path, k)
  <2>1. e = [d EXCEPT !.files = G]
    BY <1>2, Zenon DEF pdb_may_unlink_file
  <2>2. \A s \in G : /\ IsRow(s)
                     /\ \/ s \in d.files /\ s.path # m.path
                        \/ s.path = m.path /\ s.deleting = k /\ \E r \in d.files : r.path = m.path
    BY MarkedRows DEF GoodDB
  <2>. HIDE DEF G
  <2>3. IsDB(e) /\ e.files = G
    BY <2>1, ExceptFiles, GoodIsDB
  <2>4. GoodFiles(G)
    BY <2>2, GoodIsDB DEF GoodFiles
  <2>5. ASSUME NEW j, NEW p, j # Nobody, MarkedBy(G, j, p)
        PROVE  MarkedBy(d.files, j, p) \/ (j = k /\ p = m.path)
    BY <2>2, <2>5 DEF MarkedBy
  <2>6. MarkedBy(G, k, m.path) => Markable(d, m)
    BY <1>2, <2>2 DEF MarkedBy, Markable
  <2>. QED BY <2>3, <2>4, <2>5, <2>6, GoodIsDB
<1>. QED BY <1>1, <1>2

\* CANCEL_UNLINK takes every mark of the path away
LEMMA CancelUnmarks ==
  ASSUME NEW d, GoodDB(d), NEW m, m.path # NoPath,
         NEW e, e = pdb_cancel_unlink_file(d, m)
  PROVE  /\ Tame(d, e)
         /\ \A k : k # Nobody => ~MarkedBy(e.files, k, m.path)
<1>. DEFINE G == Marked(d.files, m.path, Nobody)
            f == [d EXCEPT !.files = G]
<1>1. e = pdb_check_xattrs(f, m.ino)
  BY Zenon DEF pdb_cancel_unlink_file
<1>2. \A s \in G : /\ IsRow(s)
                   /\ \/ s \in d.files /\ s.path # m.path
                      \/ s.path = m.path /\ s.deleting = Nobody
  BY MarkedRows DEF GoodDB
<1>. HIDE DEF G
<1>3. Tame(d, f) /\ f.files = G
  BY <1>2, TameUpdate
<1>. HIDE DEF f
<1>4. Tame(f, e) /\ e.files = G
  BY <1>1, <1>3, TameCheck DEF Tame
<1>5. \A k : k # Nobody => ~MarkedBy(G, k, m.path)
  BY <1>2 DEF MarkedBy
<1>. QED BY <1>3, <1>4, <1>5, TameTwice

\* DELETE FROM files WHERE path = p AND deleting = k
LEMMA DeleteMarkedRows ==
  ASSUME NEW d, GoodDB(d), NEW p, NEW k
  PROVE  /\ Tame(d, DeleteMarked(d, p, k))
         /\ ~MarkedBy(DeleteMarked(d, p, k).files, k, p)
<1>. DEFINE G == {r \in d.files : ~(r.path = p /\ r.deleting = k)}
<1>1. DeleteMarked(d, p, k) = [d EXCEPT !.files = G]
  BY Zenon DEF DeleteMarked
<1>2. G \subseteq d.files /\ ~MarkedBy(G, k, p)
  BY DEF MarkedBy
<1>. HIDE DEF G
<1>. QED BY <1>1, <1>2, TameSubset

LEMMA DidUnlinkUnmarks ==
  ASSUME NEW d, GoodDB(d), NEW p, NEW m, NEW k, NEW e, e = pdb_did_unlink_file(d, p, m, k)
  PROVE  Tame(d, e) /\ ~MarkedBy(e.files, k, p)
<1>. DEFINE f == DeleteMarked(d, p, k)
<1>1. Tame(d, f) /\ ~MarkedBy(f.files, k, p)
  BY DeleteMarkedRows
<1>2. e = pdb_clear_xattrs(f, m.ino)
  BY DEF pdb_did_unlink_file
<1>. HIDE DEF f
<1>3. Tame(f, e) /\ e.files = f.files
  BY <1>1, <1>2, TameClear DEF Tame
<1>. QED BY <1>1, <1>3, TameTwice

LEMMA TameDidUnlinkNULL ==
  ASSUME NEW d, GoodDB(d), NEW p, NEW k
  PROVE  Tame(d, pdb_did_unlink_file_NULL(d, p, k))
<1>. DEFINE f == DeleteMarked(d, p, k)
<1>1. Tame(d, f)
  BY DeleteMarkedRows
<1>2. pdb_did_unlink_file_NULL(d, p, k) = pdb_clear_unused_xattrs(f)
  BY DEF pdb_did_unlink_file_NULL
<1>. HIDE DEF f
<1>3. Tame(f, pdb_clear_unused_xattrs(f))
  BY <1>1, TameClearUnused DEF Tame
<1>. QED BY <1>1, <1>2, <1>3, TameTwice

LEMMA TameUnlink ==
  ASSUME NEW d, GoodDB(d), NEW m
  PROVE  Tame(d, pdb_unlink_file(d, m))
<1>1. CASE m.path = NoPath
  BY <1>1, TameItself DEF pdb_unlink_file
<1>2. CASE m.path # NoPath
  <2>. DEFINE f == [d EXCEPT !.files = {r \in d.files : r.path # m.path}]
  <2>1. pdb_unlink_file(d, m) = pdb_check_xattrs(f, m.ino)
    BY <1>2, Zenon DEF pdb_unlink_file
  <2>2. Tame(d, f)
    BY TameSubset
  <2>. HIDE DEF f
  <2>3. Tame(f, pdb_check_xattrs(f, m.ino))
    BY <2>2, TameCheck DEF Tame
  <2>. QED BY <2>1, <2>2, <2>3, TameTwice
<1>. QED BY <1>1, <1>2

LEMMA TameUnlinkContents ==
  ASSUME NEW d, GoodDB(d), NEW m
  PROVE  Tame(d, pdb_unlink_contents(d, m))
<1>1. CASE m.path = NoPath
  BY <1>1, TameItself DEF pdb_unlink_contents
<1>2. CASE m.path # NoPath
  <2>. DEFINE f == [d EXCEPT !.files = {r \in d.files : ~IsUnder(r.path, m.path)}]
  <2>1. pdb_unlink_contents(d, m) = pdb_clear_unused_xattrs(f)
    BY <1>2, Zenon DEF pdb_unlink_contents
  <2>2. Tame(d, f)
    BY TameSubset
  <2>. HIDE DEF f
  <2>3. Tame(f, pdb_clear_unused_xattrs(f))
    BY <2>2, TameClearUnused DEF Tame
  <2>. QED BY <2>1, <2>2, <2>3, TameTwice
<1>. QED BY <1>1, <1>2

LEMMA TameUpdateFile ==
  ASSUME NEW d, GoodDB(d), NEW m
  PROVE  Tame(d, pdb_update_file(d, m))
<1>. DEFINE G == {IF r.ino = m.ino THEN [r EXCEPT !.uid = m.uid, !.mode = m.mode]
                  ELSE r : r \in d.files}
<1>1. pdb_update_file(d, m) = [d EXCEPT !.files = G]
  BY Zenon DEF pdb_update_file
<1>2. ASSUME NEW s \in G
      PROVE  /\ IsRow(s)
             /\ \/ s.deleting = Nobody
                \/ \E r \in d.files : r.path = s.path /\ r.deleting = s.deleting
  <2>1. PICK r \in d.files : s = IF r.ino = m.ino
                                 THEN [r EXCEPT !.uid = m.uid, !.mode = m.mode] ELSE r
    BY Zenon
  <2>2. IsRow(r)
    BY DEF GoodDB, GoodFiles
  <2>3. IsRow(s) /\ s.path = r.path /\ s.deleting = r.deleting
    <3>1. CASE s = [r EXCEPT !.uid = m.uid, !.mode = m.mode]
      BY <2>2, <3>1, Zenon DEF IsRow
    <3>. QED BY <2>1, <2>2, <3>1, Zenon
  <2>. QED BY <2>3
<1>. QED
  <2>. HIDE DEF G
  <2>. QED BY <1>1, <1>2, TameUpdate, Zenon

\* The two UPDATEs of a rename: a row that changes loses its mark, and none with a
\* mark keeps the old path
LEMMA RenamedRows ==
  ASSUME NEW F, GoodFiles(F), NEW old, NEW new,
         NEW s \in RenamedBelow(RenamedExact(F, old, new), old, new)
  PROVE  /\ IsRow(s)
         /\ s.deleting = Nobody \/ (s \in F /\ s.path # old)
<1>. DEFINE G == RenamedExact(F, old, new)
<1>1. ASSUME NEW t \in G
      PROVE  IsRow(t) /\ (t.deleting = Nobody \/ (t \in F /\ t.path # old))
  <2>1. PICK r \in F :
          t = IF r.path = old THEN [r EXCEPT !.path = new, !.deleting = Nobody] ELSE r
    BY Zenon DEF RenamedExact
  <2>2. IsRow(r)
    BY DEF GoodFiles
  <2>3. CASE t = [r EXCEPT !.path = new, !.deleting = Nobody]
    <3>1. IsRow(t) /\ t.deleting = Nobody
      BY <2>2, <2>3, Zenon DEF IsRow
    <3>. QED BY <3>1
  <2>4. CASE r.path # old /\ t = r
    BY <2>2, <2>4
  <2>. QED BY <2>1, <2>3, <2>4, Zenon
<1>2. PICK t \in G :
        s = IF IsUnder(t.path, old)
            THEN [t EXCEPT !.path = SqlReplace(t.path, old, new), !.deleting = Nobody]
            ELSE t
  BY Zenon DEF RenamedBelow
<1>. HIDE DEF G
<1>3. CASE s = [t EXCEPT !.path = SqlReplace(t.path, old, new), !.deleting = Nobody]
  <2>1. IsRow(t)
    BY <1>1
  <2>2. PICK v : s = [t EXCEPT !.path = v, !.deleting = Nobody]
    BY <1>3, Zenon
  <2>3. IsRow(s) /\ s.deleting = Nobody
    BY <2>1, <2>2, Zenon DEF IsRow
  <2>. QED BY <2>3
<1>4. CASE s = t
  BY <1>1, <1>4
<1>. QED BY <1>2, <1>3, <1>4, Zenon

LEMMA RenameUnmarks ==
  ASSUME NEW d, GoodDB(d), NEW old, NEW m, m.path # NoPath,
         NEW e, e = pdb_rename_file(d, old, m)
  PROVE  /\ Tame(d, e)
         /\ \A k : k # Nobody => ~MarkedBy(e.files, k, old)
<1>. DEFINE G == RenamedBelow(RenamedExact(d.files, old, m.path), old, m.path)
<1>1. e = [d EXCEPT !.files = G]
  BY Zenon DEF pdb_rename_file
<1>2. \A s \in G : IsRow(s) /\ (s.deleting = Nobody \/ (s \in d.files /\ s.path # old))
  BY RenamedRows DEF GoodDB
<1>. HIDE DEF G
<1>3. Tame(d, e) /\ e.files = G
  BY <1>1, <1>2, TameUpdate
<1>. QED BY <1>2, <1>3 DEF MarkedBy

LEMMA TameUpdateInode ==
  ASSUME NEW d, GoodDB(d), NEW m, NEW stale
  PROVE  Tame(d, pdb_update_inode(d, m, stale))
<1>. DEFINE Renumber(f) == [f EXCEPT !.files =
              {IF r.path = m.path THEN [r EXCEPT !.ino = m.ino] ELSE r : r \in f.files}]
            i == FirstByInode({r \in d.files : r.path = stale}).ino
            copied == pdb_copy_xattrs(d, i, m.ino)
<1>1. \/ pdb_update_inode(d, m, stale) = d
      \/ pdb_update_inode(d, m, stale) = Renumber(d)
      \/ pdb_update_inode(d, m, stale) = pdb_check_xattrs(Renumber(copied), i)
  BY Zenon DEF pdb_update_inode
<1>2. ASSUME NEW f, GoodDB(f) PROVE Tame(f, Renumber(f))
  <2>. DEFINE G == {IF r.path = m.path THEN [r EXCEPT !.ino = m.ino] ELSE r : r \in f.files}
  <2>1. ASSUME NEW s \in G
        PROVE  /\ IsRow(s)
               /\ \/ s.deleting = Nobody
                  \/ \E r \in f.files : r.path = s.path /\ r.deleting = s.deleting
    <3>1. PICK r \in f.files : s = IF r.path = m.path THEN [r EXCEPT !.ino = m.ino] ELSE r
      BY Zenon
    <3>2. IsRow(r)
      BY <1>2 DEF GoodDB, GoodFiles
    <3>3. IsRow(s) /\ s.path = r.path /\ s.deleting = r.deleting
      <4>1. CASE s = [r EXCEPT !.ino = m.ino]
        BY <3>2, <4>1, RowRenumbered, Zenon
      <4>. QED BY <3>1, <3>2, <4>1, Zenon
    <3>. QED BY <3>3
  <2>2. Renumber(f) = [f EXCEPT !.files = G]
    BY Zenon
  <2>. HIDE DEF G, Renumber
  <2>. QED BY <1>2, <2>1, <2>2, TameUpdate, Zenon
<1>3. Tame(d, copied)
  BY TameCopy
<1>4. Tame(d, Renumber(d)) /\ Tame(copied, Renumber(copied))
  <2>. HIDE DEF Renumber, copied
  <2>. QED BY <1>2, <1>3 DEF Tame
<1>5. Tame(Renumber(copied), pdb_check_xattrs(Renumber(copied), i))
  <2>. HIDE DEF Renumber, copied, i
  <2>. QED BY <1>4, TameCheck DEF Tame
<1>6. Tame(d, pdb_check_xattrs(Renumber(copied), i))
  <2>. HIDE DEF Renumber, copied, i
  <2>. QED BY <1>3, <1>4, <1>5, TameTwice
<1>. QED
  <2>. HIDE DEF Renumber, copied, i
  <2>. QED BY <1>1, <1>4, <1>6, TameItself

LEMMA TameSetXattr ==
  ASSUME NEW d, GoodDB(d), NEW m
  PROVE  Tame(d, pdb_set_xattr(d, m))
<1>1. \/ pdb_set_xattr(d, m) = d
      \/ \E X : pdb_set_xattr(d, m) = [d EXCEPT !.xattrs = X]
  BY Zenon DEF pdb_set_xattr
<1>. QED BY <1>1, TameItself, TameXattrs

LEMMA TameRemoveXattr ==
  ASSUME NEW d, GoodDB(d), NEW m
  PROVE  Tame(d, pdb_remove_xattr(d, m))
<1>1. \E X : pdb_remove_xattr(d, m) = [d EXCEPT !.xattrs = X]
  BY Zenon DEF pdb_remove_xattr
<1>. QED BY <1>1, TameXattrs
-----------------------------------------------------------------------------
(* pseudo_op(): the messages it makes of the request, and the marks *)

\* n is m with other data from the database
Like(m, n) ==
    /\ IsMsg(n)
    /\ n.op = m.op /\ n.path = m.path /\ n.oldpath = m.oldpath
    /\ n.nlink = m.nlink /\ n.client = m.client /\ n.result = m.result

IsCtx(c) == c = [db |-> c.db, msg |-> c.msg, header |-> c.header, by_path |-> c.by_path,
                 by_ino |-> c.by_ino, path_by_ino |-> c.path_by_ino,
                 found_path |-> c.found_path, found_ino |-> c.found_ino,
                 found_exact |-> c.found_exact, abort |-> c.abort]

Ctx(d, m, c) ==
    /\ IsCtx(c) /\ Tame(d, c.db)
    /\ Like(m, c.msg) /\ Like(m, c.header) /\ Like(m, c.by_path) /\ Like(m, c.by_ino)

LEMMA LikeLoaded ==
  ASSUME NEW m, NEW n, Like(m, n), NEW r
  PROVE  Like(m, LoadRow(n, r)) /\ Like(m, LoadRowAndInode(n, r))
<1>1. IsMsg(n)
  BY DEF Like
<1>2. ASSUME NEW u, NEW w, NEW k, NEW s, s = [n EXCEPT !.uid = u, !.mode = w, !.deleting = k]
      PROVE  Like(m, s)
  <2>1. IsMsg(s)
    BY <1>1, <1>2, Zenon DEF IsMsg
  <2>2. /\ s.op = n.op /\ s.path = n.path /\ s.oldpath = n.oldpath
        /\ s.nlink = n.nlink /\ s.client = n.client /\ s.result = n.result
    BY <1>1, <1>2, Zenon DEF IsMsg
  <2>. QED BY <2>1, <2>2 DEF Like
<1>3. Like(m, LoadRow(n, r))
  BY <1>2, Zenon DEF LoadRow
<1>4. ASSUME NEW i, NEW l, Like(m, l), NEW s, s = [l EXCEPT !.ino = i]
      PROVE  Like(m, s)
  <2>1. IsMsg(l)
    BY <1>4 DEF Like
  <2>2. IsMsg(s)
    BY <1>4, <2>1, Zenon DEF IsMsg
  <2>3. /\ s.op = l.op /\ s.path = l.path /\ s.oldpath = l.oldpath
        /\ s.nlink = l.nlink /\ s.client = l.client /\ s.result = l.result
    BY <1>4, <2>1, Zenon DEF IsMsg
  <2>. QED BY <1>4, <2>2, <2>3 DEF Like
<1>5. Like(m, LoadRowAndInode(n, r))
  BY <1>3, <1>4, Zenon DEF LoadRowAndInode
<1>. QED BY <1>3, <1>5

LEMMA LookupCtx ==
  ASSUME NEW d, GoodDB(d), NEW m, IsMsg(m)
  PROVE  Ctx(d, m, Lookup(d, m)) /\ ~Lookup(d, m).abort
<1>1. Like(m, m) /\ Tame(d, d)
  BY TameItself DEF Like
<1>2. Ctx(d, m, FoundExact(d, m)) /\ ~FoundExact(d, m).abort
  <2>. DEFINE r == FirstById(pdb_find_file_exact(d, m))
              l == LoadRow(m, r)
  <2>1. Like(m, l)
    BY <1>1, LikeLoaded
  <2>. HIDE DEF l
  <2>2. FoundExact(d, m) =
          [db |-> d, msg |-> m, header |-> m, by_path |-> l, by_ino |-> l,
           path_by_ino |-> m.path, found_path |-> TRUE, found_ino |-> TRUE,
           found_exact |-> TRUE, abort |-> FALSE]
    BY DEF FoundExact, l
  <2>. QED BY <1>1, <2>1, <2>2 DEF Ctx, IsCtx
<1>3. Ctx(d, m, FoundSeparately(d, m)) /\ ~FoundSeparately(d, m).abort
  <2>. DEFINE a == AfterPathLookup(d, m)
              rows == IF a.ino = NoInode THEN {} ELSE pdb_find_file_dev(d, m)
              b == IF rows = {} THEN m ELSE LoadRow(m, FirstById(rows))
              x == IF rows = {} THEN NoPath ELSE FirstById(rows).path
              y == pdb_find_file_path(d, m) # {}
              z == rows # {}
  <2>1. Like(m, a)
    BY <1>1, LikeLoaded DEF AfterPathLookup
  <2>2. Like(m, b)
    BY <1>1, LikeLoaded
  <2>3. FoundSeparately(d, m) =
          [db |-> d, msg |-> a, header |-> m, by_path |-> a, by_ino |-> b,
           path_by_ino |-> x, found_path |-> y, found_ino |-> z,
           found_exact |-> FALSE, abort |-> FALSE]
    BY DEF FoundSeparately
  <2>. HIDE DEF a, b, x, y, z, rows
  <2>. QED BY <1>1, <2>1, <2>2, <2>3 DEF Ctx, IsCtx
<1>. QED BY <1>2, <1>3 DEF Lookup

\* a context with another database and other flags
LEMMA CtxChanged ==
  ASSUME NEW d, NEW m, NEW c, Ctx(d, m, c), NEW e, Tame(d, e), NEW u
  PROVE  /\ Ctx(d, m, [c EXCEPT !.db = e])
         /\ Ctx(d, m, [c EXCEPT !.db = e, !.found_path = u])
         /\ Ctx(d, m, [c EXCEPT !.db = e, !.found_ino = u])
         /\ Ctx(d, m, [c EXCEPT !.found_ino = FALSE, !.abort = TRUE])
<1>1. IsCtx(c)
  BY DEF Ctx
<1>2. ASSUME NEW s, IsCtx(s), Tame(d, s.db), s.msg = c.msg, s.header = c.header,
             s.by_path = c.by_path, s.by_ino = c.by_ino
      PROVE  Ctx(d, m, s)
  BY <1>2 DEF Ctx
<1>3. ASSUME NEW s, s = [c EXCEPT !.db = e]
      PROVE  /\ IsCtx(s) /\ s.db = e /\ s.msg = c.msg /\ s.header = c.header
             /\ s.by_path = c.by_path /\ s.by_ino = c.by_ino
  BY <1>1, <1>3, Zenon DEF IsCtx
<1>4. ASSUME NEW s, s = [c EXCEPT !.db = e, !.found_path = u]
      PROVE  /\ IsCtx(s) /\ s.db = e /\ s.msg = c.msg /\ s.header = c.header
             /\ s.by_path = c.by_path /\ s.by_ino = c.by_ino
  BY <1>1, <1>4, Zenon DEF IsCtx
<1>5. ASSUME NEW s, s = [c EXCEPT !.db = e, !.found_ino = u]
      PROVE  /\ IsCtx(s) /\ s.db = e /\ s.msg = c.msg /\ s.header = c.header
             /\ s.by_path = c.by_path /\ s.by_ino = c.by_ino
  BY <1>1, <1>5, Zenon DEF IsCtx
<1>6. ASSUME NEW s, s = [c EXCEPT !.found_ino = FALSE, !.abort = TRUE]
      PROVE  /\ IsCtx(s) /\ s.db = c.db /\ s.msg = c.msg /\ s.header = c.header
             /\ s.by_path = c.by_path /\ s.by_ino = c.by_ino
  BY <1>1, <1>6, Zenon DEF IsCtx
<1>7. Tame(d, c.db)
  BY DEF Ctx
<1>. QED BY <1>2, <1>3, <1>4, <1>5, <1>6, <1>7, Zenon

LEMMA CheckPathCtx ==
  ASSUME NEW d, NEW m, NEW c, Ctx(d, m, c)
  PROVE  Ctx(d, m, CheckPath(c))
<1>1. Tame(d, c.db) /\ GoodDB(c.db)
  BY DEF Ctx, Tame
<1>2. Tame(c.db, DropSuperseded(c))
  BY <1>1, TameDidUnlinkNULL, TameItself DEF DropSuperseded
<1>3. Tame(DropSuperseded(c), pdb_unlink_file(DropSuperseded(c), c.msg))
  BY <1>2, TameUnlink DEF Tame
<1>4. Tame(d, DropSuperseded(c)) /\ Tame(d, pdb_unlink_file(DropSuperseded(c), c.msg))
  BY <1>1, <1>2, <1>3, TameTwice
<1>5. \/ CheckPath(c) = c
      \/ CheckPath(c) = [c EXCEPT !.db = pdb_unlink_file(DropSuperseded(c), c.msg),
                                  !.found_path = FALSE]
      \/ CheckPath(c) = [c EXCEPT !.db = DropSuperseded(c)]
  BY Zenon DEF CheckPath
<1>6. Ctx(d, m, [c EXCEPT !.db = pdb_unlink_file(DropSuperseded(c), c.msg), !.found_path = FALSE])
  BY <1>4, CtxChanged, Zenon
<1>7. Ctx(d, m, [c EXCEPT !.db = DropSuperseded(c)])
  BY <1>4, CtxChanged, Zenon
<1>. QED BY <1>5, <1>6, <1>7, Zenon

LEMMA CheckInoCtx ==
  ASSUME NEW d, NEW m, NEW c, Ctx(d, m, c)
  PROVE  Ctx(d, m, CheckIno(c))
<1>1. Tame(d, c.db) /\ GoodDB(c.db)
  BY DEF Ctx, Tame
<1>2. Tame(c.db, NameNameless(c))
  BY <1>1, TameUpdatePath, TameItself DEF NameNameless
<1>3. Tame(NameNameless(c), pdb_unlink_file_dev(NameNameless(c), c.msg))
  BY <1>2, TameUnlinkDev DEF Tame
<1>4. Tame(d, NameNameless(c)) /\ Tame(d, pdb_unlink_file_dev(NameNameless(c), c.msg))
  BY <1>1, <1>2, <1>3, TameTwice
<1>5. \/ CheckIno(c) = c
      \/ CheckIno(c) = [c EXCEPT !.found_ino = FALSE, !.abort = TRUE]
      \/ CheckIno(c) = [c EXCEPT !.db = pdb_unlink_file_dev(NameNameless(c), c.msg),
                                 !.found_ino = FALSE]
      \/ CheckIno(c) = [c EXCEPT !.db = NameNameless(c)]
  BY Zenon DEF CheckIno
<1>6. Ctx(d, m, [c EXCEPT !.db = pdb_unlink_file_dev(NameNameless(c), c.msg), !.found_ino = FALSE])
  BY <1>4, CtxChanged, Zenon
<1>7. Ctx(d, m, [c EXCEPT !.db = NameNameless(c)])
  BY <1>4, CtxChanged, Zenon
<1>8. Ctx(d, m, [c EXCEPT !.found_ino = FALSE, !.abort = TRUE])
  BY <1>1, CtxChanged, Zenon
<1>. QED BY <1>5, <1>6, <1>7, <1>8, Zenon

LEMMA AnswerFields == ASSUME NEW d, NEW m PROVE Answer(d, m).db = d /\ Answer(d, m).msg = m
  BY DEF Answer

\* The operations that may create, change or delete rows, and mark none
LEMMA TameOps ==
  ASSUME NEW c, GoodDB(c.db), NEW stale
  PROVE  /\ Tame(c.db, OpCreat(c).db) /\ Tame(c.db, OpLink(c).db)
         /\ Tame(c.db, OpMkdir(c).db) /\ Tame(c.db, OpUnlink(c).db)
         /\ Tame(c.db, OpChmod(c).db) /\ Tame(c.db, OpChown(c).db)
         /\ Tame(c.db, OpStat(c).db) /\ Tame(c.db, OpGetXattr(c).db)
         /\ Tame(c.db, OpListXattr(c).db) /\ Tame(c.db, OpSetXattr(c).db)
         /\ Tame(c.db, OpRemoveXattr(c).db)
<1>1. Tame(c.db, c.db)
  BY TameItself
<1>2. Tame(c.db, OpCreat(c).db)
  <2>. DEFINE e == IF c.found_ino /\ ~c.found_exact
                   THEN pdb_unlink_file_dev(c.db, c.by_ino) ELSE c.db
  <2>1. Tame(c.db, e)
    BY <1>1, TameUnlinkDev
  <2>2. OpCreat(c).db = IF c.found_path THEN e ELSE pdb_link_file(e, c.msg)
    BY DEF OpCreat, Answer
  <2>. HIDE DEF e
  <2>3. Tame(e, pdb_link_file(e, c.msg))
    BY <2>1, TameLink DEF Tame
  <2>. QED BY <2>1, <2>2, <2>3, TameTwice
<1>3. Tame(c.db, OpLink(c).db)
  <2>. DEFINE e == IF c.found_path THEN pdb_unlink_file(c.db, c.msg) ELSE c.db
              m == IF ~c.found_ino THEN c.header
                   ELSE IF c.header.op = "symlink" THEN c.msg ELSE c.by_ino
  <2>1. Tame(c.db, e)
    BY <1>1, TameUnlink
  <2>2. OpLink(c).db = pdb_link_file(e, m)
    BY DEF OpLink, Answer
  <2>. HIDE DEF e, m
  <2>3. Tame(e, pdb_link_file(e, m))
    BY <2>1, TameLink DEF Tame
  <2>. QED BY <2>1, <2>2, <2>3, TameTwice
<1>4. Tame(c.db, OpMkdir(c).db)
  <2>. DEFINE e == IF c.found_path THEN pdb_unlink_file(c.db, c.msg) ELSE c.db
              f == IF c.found_ino THEN pdb_unlink_file_dev(e, c.by_ino) ELSE e
  <2>1. Tame(c.db, e)
    BY <1>1, TameUnlink
  <2>2. OpMkdir(c).db = pdb_link_file(f, c.header)
    BY DEF OpMkdir, Answer
  <2>3. Tame(e, f)
    <3>. HIDE DEF e
    <3>. QED BY <2>1, TameUnlinkDev, TameItself DEF Tame
  <2>. HIDE DEF e, f
  <2>4. Tame(f, pdb_link_file(f, c.header))
    BY <2>3, TameLink DEF Tame
  <2>. QED BY <2>1, <2>2, <2>3, <2>4, TameTwice
<1>5. Tame(c.db, OpUnlink(c).db)
  <2>. DEFINE e == pdb_unlink_file(c.db, c.msg)
              f == pdb_unlink_contents(e, c.msg)
  <2>1. Tame(c.db, e)
    BY TameUnlink
  <2>2. OpUnlink(c).db = IF c.header.nlink = 1 /\ c.found_ino
                         THEN pdb_unlink_file_dev(f, c.msg) ELSE f
    BY Zenon DEF OpUnlink, Answer
  <2>. HIDE DEF e
  <2>3. Tame(e, f)
    BY <2>1, TameUnlinkContents DEF Tame
  <2>. HIDE DEF f
  <2>4. Tame(f, pdb_unlink_file_dev(f, c.msg))
    BY <2>3, TameUnlinkDev DEF Tame
  <2>. QED BY <2>1, <2>2, <2>3, <2>4, TameTwice
<1>6. ASSUME NEW m PROVE Tame(c.db, UpdateOrLink(c, m).db)
  <2>1. UpdateOrLink(c, m).db = pdb_update_file(c.db, m)
        \/ UpdateOrLink(c, m).db = pdb_link_file(c.db, m)
    BY DEF UpdateOrLink, Answer
  <2>. QED BY <2>1, TameUpdateFile, TameLink
<1>7. Tame(c.db, OpChmod(c).db) /\ Tame(c.db, OpChown(c).db)
  BY <1>6, Zenon DEF OpChmod, OpChown
<1>8. Tame(c.db, OpStat(c).db)
  <2>1. OpStat(c).db = c.db
    BY Zenon, AnswerFields DEF OpStat
  <2>. QED BY <1>1, <2>1
<1>9. Tame(c.db, OpGetXattr(c).db) /\ Tame(c.db, OpListXattr(c).db)
  <2>1. OpGetXattr(c).db = c.db /\ OpListXattr(c).db = c.db
    BY Zenon, AnswerFields DEF OpGetXattr, OpListXattr
  <2>. QED BY <1>1, <2>1
<1>10. Tame(c.db, OpSetXattr(c).db) /\ Tame(c.db, OpRemoveXattr(c).db)
  <2>1. /\ OpSetXattr(c).db = pdb_set_xattr(c.db, c.msg)
        /\ OpRemoveXattr(c).db = pdb_remove_xattr(c.db, c.msg)
    BY Zenon, AnswerFields DEF OpSetXattr, OpRemoveXattr
  <2>. QED BY <2>1, TameSetXattr, TameRemoveXattr
<1>. QED BY <1>2, <1>3, <1>4, <1>5, <1>7, <1>8, <1>9, <1>10

\* The four requests about marks
LEMMA RenameOp ==
  ASSUME NEW c, GoodDB(c.db), NEW stale, c.msg.path # NoPath
  PROVE  /\ Tame(c.db, OpRename(c, stale).db)
         /\ \A k : k # Nobody => ~MarkedBy(OpRename(c, stale).db.files, k, c.header.oldpath)
<1>. DEFINE e == pdb_rename_file(c.db, c.header.oldpath, c.msg)
            f == pdb_update_inode(e, c.msg, stale)
<1>1. OpRename(c, stale).db = f
  BY DEF OpRename, Answer
<1>2. Tame(c.db, e) /\ \A k : k # Nobody => ~MarkedBy(e.files, k, c.header.oldpath)
  BY RenameUnmarks
<1>. HIDE DEF e
<1>3. Tame(e, f)
  BY <1>2, TameUpdateInode DEF Tame
<1>. HIDE DEF f
<1>. QED BY <1>1, <1>2, <1>3, TameTwice DEF Tame, NoNewMarks

LEMMA DidUnlinkOp ==
  ASSUME NEW c, GoodDB(c.db)
  PROVE  /\ Tame(c.db, OpDidUnlink(c).db)
         /\ ~MarkedBy(OpDidUnlink(c).db.files, c.msg.client, c.msg.path)
<1>1. OpDidUnlink(c).db = pdb_did_unlink_file(c.db, c.msg.path, c.msg, c.msg.client)
  BY DEF OpDidUnlink, Answer
<1>. QED BY <1>1, DidUnlinkUnmarks

LEMMA CancelUnlinkOp ==
  ASSUME NEW c, GoodDB(c.db), c.msg.path # NoPath
  PROVE  /\ Tame(c.db, OpCancelUnlink(c).db)
         /\ \A k : k # Nobody => ~MarkedBy(OpCancelUnlink(c).db.files, k, c.msg.path)
<1>1. OpCancelUnlink(c).db = pdb_cancel_unlink_file(c.db, c.msg)
  BY DEF OpCancelUnlink, Answer
<1>. QED BY <1>1, CancelUnmarks

LEMMA MayUnlinkOp ==
  ASSUME NEW c, GoodDB(c.db), c.msg.path \notin {Nameless, NoPath}
  PROVE  /\ GoodDB(OpMayUnlink(c).db)
         /\ \A j, p : j # Nobody /\ MarkedBy(OpMayUnlink(c).db.files, j, p) =>
               MarkedBy(c.db.files, j, p) \/ (j = c.msg.client /\ p = c.msg.path)
         /\ MarkedBy(OpMayUnlink(c).db.files, c.msg.client, c.msg.path) =>
               OpMayUnlink(c).msg = c.msg
<1>1. /\ OpMayUnlink(c).db = pdb_may_unlink_file(c.db, c.msg, c.msg.client)
      /\ Markable(c.db, c.msg) => OpMayUnlink(c).msg = c.msg
  BY DEF OpMayUnlink, Answer
<1>. QED BY <1>1, MayUnlinkMarks

\* What the switch of pseudo_op() leaves of the marks.
Outcome(d, m, out) ==
    /\ GoodDB(out.db)
    /\ \A j, p : j # Nobody /\ MarkedBy(out.db.files, j, p) =>
          \/ MarkedBy(d.files, j, p)
          \/ m.op = "may_unlink" /\ j = m.client /\ p = m.path
    /\ AnswerInv(out.db.files, m.client, m, out.msg.result)
    /\ m.op \in PrefersInode =>
          /\ out = [db |-> out.db, msg |-> out.msg]
          /\ out.msg.path = m.path /\ out.msg.nlink = m.nlink
          /\ out.msg.client = m.client /\ out.msg.result # "abort"

MarkRequests == {"may_unlink", "did_unlink", "cancel_unlink", "rename"}

LEMMA TameOutcome ==
  ASSUME NEW d, NEW m, NEW out, Tame(d, out.db),
         m.op \notin PrefersInode, m.op \notin MarkRequests
  PROVE  Outcome(d, m, out)
  BY DEF Outcome, Tame, NoNewMarks, AnswerInv, MarkRequests

\* the answers of the requests that prefer the inode
LEMMA FdAnswer ==
  ASSUME NEW d, NEW m, NEW c, Ctx(d, m, c), m.result = "succeed",
         NEW out, out = OpChmod(c) \/ out = OpChown(c) \/ out = OpStat(c)
  PROVE  /\ out = [db |-> out.db, msg |-> out.msg]
         /\ out.msg.path = m.path /\ out.msg.nlink = m.nlink
         /\ out.msg.client = m.client /\ out.msg.result # "abort"
<1>1. Like(m, c.msg) /\ Like(m, c.by_path) /\ Like(m, c.by_ino)
  BY DEF Ctx
<1>2. Like(m, Known(c)) /\ Like(m, DbHeader(c))
  BY <1>1 DEF Known, DbHeader
<1>. DEFINE Unchanged(x) == /\ x.path = m.path /\ x.nlink = m.nlink
                           /\ x.client = m.client /\ x.result = m.result
<1>3. ASSUME NEW l, Like(m, l), NEW v, NEW s,
             \/ s = [l EXCEPT !.mode.perm = v] \/ s = [l EXCEPT !.mode = v]
             \/ s = [l EXCEPT !.uid = v]
      PROVE  Unchanged(s)
  <2>1. IsMsg(l)
    BY <1>3 DEF Like
  <2>2. s.path = l.path /\ s.nlink = l.nlink /\ s.client = l.client /\ s.result = l.result
    BY <1>3, <2>1, Zenon DEF IsMsg
  <2>. QED BY <1>3, <2>2 DEF Like
<1>. HIDE DEF Unchanged
<1>4. CASE out = OpChmod(c)
  <2>1. PICK x : /\ out = UpdateOrLink(c, x)
                 /\ \/ x = [Known(c) EXCEPT !.mode.perm = c.header.mode.perm]
                    \/ x = [c.msg EXCEPT !.mode = c.header.mode]
    BY <1>4, Zenon DEF OpChmod
  <2>2. Unchanged(x)
    BY <1>1, <1>2, <1>3, <2>1, Zenon
  <2>3. out.msg = x /\ out = [db |-> out.db, msg |-> out.msg]
    BY <2>1 DEF UpdateOrLink, Answer
  <2>. QED BY <2>2, <2>3 DEF Unchanged
<1>5. CASE out = OpChown(c)
  <2>1. PICK k, x : /\ out = UpdateOrLink(c, x)
                    /\ k = Known(c) \/ k = c.msg
                    /\ x = [k EXCEPT !.uid = c.header.uid]
    BY <1>5, Zenon DEF OpChown
  <2>2. Unchanged(x)
    BY <1>1, <1>2, <1>3, <2>1, Zenon
  <2>3. out.msg = x /\ out = [db |-> out.db, msg |-> out.msg]
    BY <2>1 DEF UpdateOrLink, Answer
  <2>. QED BY <2>2, <2>3 DEF Unchanged
<1>6. CASE out = OpStat(c)
  <2>1. /\ out.msg = DbHeader(c) \/ out.msg = Fail(c.msg)
        /\ out = [db |-> out.db, msg |-> out.msg]
    BY <1>6 DEF OpStat, Answer
  <2>2. CASE out.msg = DbHeader(c)
    BY <1>2, <2>1, <2>2 DEF Like
  <2>3. CASE out.msg = Fail(c.msg)
    <3>1. IsMsg(c.msg)
      BY <1>1 DEF Like
    <3>2. /\ out.msg.path = c.msg.path /\ out.msg.nlink = c.msg.nlink
          /\ out.msg.client = c.msg.client /\ out.msg.result = "fail"
      BY <2>3, <3>1, Zenon DEF Fail, IsMsg
    <3>. QED BY <1>1, <2>1, <3>2 DEF Like
  <2>. QED BY <2>1, <2>2, <2>3
<1>. QED BY <1>4, <1>5, <1>6

LEMMA SwitchOutcome ==
  ASSUME NEW d, NEW m, NEW c, Ctx(d, m, c), m.result = "succeed", m.client # Nobody,
         m.path # Nameless, m.op \in MarkRequests => m.path # NoPath, NEW stale
  PROVE  Outcome(d, m, OpSwitch(c, stale))
<1>. SUFFICES ASSUME NEW out, out = OpSwitch(c, stale)
              PROVE  Outcome(d, m, out)
  OBVIOUS
<1>1. /\ Tame(d, c.db) /\ GoodDB(c.db) /\ Like(m, c.msg) /\ Like(m, c.header)
      /\ c.header.op = m.op
  BY DEF Ctx, Tame, Like
<1>2. CASE m.op = "rename"
  <2>1. out = OpRename(c, stale)
    BY <1>1, <1>2 DEF OpSwitch
  <2>2. c.msg.path = m.path /\ c.header.oldpath = m.oldpath /\ m.path # NoPath
    BY <1>1, <1>2 DEF Like, MarkRequests
  <2>3. /\ Tame(c.db, out.db)
        /\ \A k : k # Nobody => ~MarkedBy(out.db.files, k, m.oldpath)
    BY <1>1, <2>1, <2>2, RenameOp
  <2>4. Tame(d, out.db)
    BY <1>1, <2>3, TameTwice
  <2>. QED BY <1>2, <2>3, <2>4 DEF Outcome, Tame, NoNewMarks, AnswerInv, PrefersInode
<1>3. CASE m.op = "did_unlink"
  <2>1. out = OpDidUnlink(c)
    BY <1>1, <1>3 DEF OpSwitch
  <2>2. c.msg.path = m.path /\ c.msg.client = m.client
    BY <1>1 DEF Like
  <2>3. Tame(c.db, out.db) /\ ~MarkedBy(out.db.files, m.client, m.path)
    BY <1>1, <2>1, <2>2, DidUnlinkOp
  <2>4. Tame(d, out.db)
    BY <1>1, <2>3, TameTwice
  <2>. QED BY <1>3, <2>3, <2>4 DEF Outcome, Tame, NoNewMarks, AnswerInv, PrefersInode
<1>4. CASE m.op = "cancel_unlink"
  <2>1. out = OpCancelUnlink(c)
    BY <1>1, <1>4 DEF OpSwitch
  <2>2. c.msg.path = m.path /\ m.path # NoPath
    BY <1>1, <1>4 DEF Like, MarkRequests
  <2>3. /\ Tame(c.db, out.db)
        /\ \A k : k # Nobody => ~MarkedBy(out.db.files, k, m.path)
    BY <1>1, <2>1, <2>2, CancelUnlinkOp
  <2>4. Tame(d, out.db)
    BY <1>1, <2>3, TameTwice
  <2>. QED BY <1>4, <2>3, <2>4 DEF Outcome, Tame, NoNewMarks, AnswerInv, PrefersInode
<1>5. CASE m.op = "may_unlink"
  <2>1. out = OpMayUnlink(c)
    BY <1>1, <1>5 DEF OpSwitch
  <2>2. c.msg.path = m.path /\ c.msg.client = m.client /\ c.msg.result = "succeed"
    BY <1>1 DEF Like
  <2>3. c.msg.path \notin {Nameless, NoPath}
    BY <1>5, <2>2 DEF MarkRequests
  <2>4. /\ GoodDB(out.db)
        /\ \A j, p : j # Nobody /\ MarkedBy(out.db.files, j, p) =>
              MarkedBy(c.db.files, j, p) \/ (j = m.client /\ p = m.path)
        /\ MarkedBy(out.db.files, m.client, m.path) => out.msg.result = "succeed"
    BY <1>1, <2>1, <2>2, <2>3, MayUnlinkOp
  <2>. QED BY <1>1, <1>5, <2>4 DEF Outcome, Tame, NoNewMarks, AnswerInv, PrefersInode
<1>6. CASE m.op \in {"chmod", "fchmod", "chown", "fchown", "stat", "fstat"}
  <2>1. out = OpChmod(c) \/ out = OpChown(c) \/ out = OpStat(c)
    BY <1>1, <1>6 DEF OpSwitch
  <2>2. Tame(c.db, out.db)
    BY <1>1, <2>1, TameOps
  <2>3. Tame(d, out.db)
    BY <1>1, <2>2, TameTwice
  <2>4. /\ out = [db |-> out.db, msg |-> out.msg]
        /\ out.msg.path = m.path /\ out.msg.nlink = m.nlink
        /\ out.msg.client = m.client /\ out.msg.result # "abort"
    BY <2>1, FdAnswer
  <2>. QED BY <1>6, <2>3, <2>4 DEF Outcome, Tame, NoNewMarks, AnswerInv
<1>7. CASE m.op \notin MarkRequests \cup {"chmod", "fchmod", "chown", "fchown", "stat", "fstat"}
  <2>1. \/ out = OpCreat(c) \/ out = OpLink(c) \/ out = OpUnlink(c) \/ out = OpMkdir(c)
        \/ out = OpGetXattr(c) \/ out = OpSetXattr(c) \/ out = OpListXattr(c)
        \/ out = OpRemoveXattr(c) \/ out = Answer(c.db, c.msg)
    BY <1>1, <1>7 DEF OpSwitch, MarkRequests
  <2>2. Tame(c.db, out.db)
    BY <1>1, <2>1, TameOps, TameItself, AnswerFields
  <2>3. Tame(d, out.db)
    BY <1>1, <2>2, TameTwice
  <2>. QED BY <1>7, <2>3, TameOutcome DEF PrefersInode
<1>. QED BY <1>2, <1>3, <1>4, <1>5, <1>6, <1>7 DEF MarkRequests

\* pseudo_op() itself: it repairs rows, runs the switch, and marks the row of an open file
\* that has lost its name.  A request that is aborted marks nothing.
LEMMA OpOutcome ==
  ASSUME NEW d, GoodDB(d), NEW m, IsMsg(m), m.client # Nobody, m.path # Nameless,
         m.op \in MarkRequests => m.path # NoPath, NEW stale,
         NEW out, out = pseudo_op(d, m, stale)
  PROVE  /\ GoodDB(out.db)
         /\ \A j, p : j # Nobody /\ MarkedBy(out.db.files, j, p) =>
               \/ MarkedBy(d.files, j, p)
               \/ m.op = "may_unlink" /\ j = m.client /\ p = m.path
               \/ /\ m.op \in PrefersInode /\ m.nlink = 0 /\ j = m.client
                  /\ out.msg.result # "abort"
         /\ AnswerInv(out.db.files, m.client, m, out.msg.result)
<1>0. PICK n : n = [m EXCEPT !.result = "succeed"]
  OBVIOUS
<1>. DEFINE c == CheckIno(CheckPath(Lookup(d, n)))
            switched == OpSwitch(c, stale)
<1>1. /\ IsMsg(n) /\ n.op = m.op /\ n.path = m.path /\ n.oldpath = m.oldpath
      /\ n.nlink = m.nlink /\ n.client = m.client /\ n.result = "succeed"
  BY <1>0, Zenon DEF IsMsg
<1>2. Ctx(d, n, c)
  BY <1>1, LookupCtx, CheckPathCtx, CheckInoCtx
<1>3. out = IF c.abort THEN Answer(c.db, [c.msg EXCEPT !.result = "abort"])
            ELSE MarkUnlinkedFd(c, switched)
  BY <1>0, Zenon DEF pseudo_op
<1>. HIDE DEF c
<1>4. CASE c.abort
  <2>1. PICK x : x = [c.msg EXCEPT !.result = "abort"] /\ out = Answer(c.db, x)
    BY <1>3, <1>4, Zenon
  <2>2. IsMsg(c.msg)
    BY <1>2 DEF Ctx, Like
  <2>3. x.result = "abort"
    BY <2>1, <2>2, Zenon DEF IsMsg
  <2>4. Tame(d, out.db) /\ out.msg = x
    BY <1>2, <2>1, AnswerFields DEF Ctx
  <2>. QED BY <2>3, <2>4 DEF Tame, NoNewMarks, AnswerInv
<1>5. CASE ~c.abort
  <2>1. Outcome(d, n, switched)
    BY <1>1, <1>2, SwitchOutcome
  <2>2. c.header.op = m.op
    BY <1>1, <1>2 DEF Ctx, Like
  <2>. HIDE DEF switched
  <2>3. CASE out = switched
    BY <1>1, <2>1, <2>3 DEF Outcome, AnswerInv
  <2>4. CASE out # switched
    <3>1. /\ m.op \in PrefersInode /\ switched.msg.nlink = 0
          /\ out = [switched EXCEPT !.db = pdb_may_unlink_file(@, switched.msg, switched.msg.client)]
      BY <1>3, <1>5, <2>2, <2>4, Zenon DEF MarkUnlinkedFd
    <3>2. /\ switched = [db |-> switched.db, msg |-> switched.msg]
          /\ switched.msg.path = m.path /\ switched.msg.nlink = m.nlink
          /\ switched.msg.client = m.client /\ switched.msg.result # "abort"
          /\ GoodDB(switched.db)
      BY <1>1, <2>1, <3>1 DEF Outcome
    <3>3. /\ out.db = pdb_may_unlink_file(switched.db, switched.msg, m.client)
          /\ out.msg = switched.msg
      BY <3>1, <3>2, Zenon
    <3>4. /\ GoodDB(out.db)
          /\ \A j, p : j # Nobody /\ MarkedBy(out.db.files, j, p) =>
                MarkedBy(switched.db.files, j, p) \/ j = m.client
      BY <3>2, <3>3, MayUnlinkMarks
    <3>5. m.op \notin {"may_unlink", "did_unlink", "cancel_unlink", "rename"}
      BY <3>1 DEF PrefersInode
    <3>. QED BY <1>1, <2>1, <3>1, <3>2, <3>3, <3>4, <3>5 DEF Outcome, AnswerInv
  <2>. QED BY <2>3, <2>4
<1>. QED BY <1>4, <1>5
-----------------------------------------------------------------------------
(* The clients *)

LEMMA Values ==
  /\ Nameless \notin PathsOrNone /\ NoPath \notin Paths
  /\ \A c \in Clients : c # Nobody
<1>1. Nameless \notin Paths /\ NoPath \notin Paths
  <2>1. ASSUME NEW p \in Paths PROVE p # Nameless /\ p # NoPath
    <3>1. p \in Seq(Names) /\ p # << >>
      BY PathsAssumption
    <3>2. p # NoPath
      BY <3>1 DEF NoPath
    <3>3. p # Nameless
      <4>1. SUFFICES ASSUME p = << "NAMELESS FILE" >> PROVE FALSE
        BY DEF Nameless
      <4>2. Len(p) = 1 /\ p[1] = "NAMELESS FILE"
        BY <4>1
      <4>3. \A s \in Seq(Names) : Len(s) = 1 => s[1] \in Names
        OBVIOUS
      <4>. QED BY <3>1, <4>2, <4>3, PathsAssumption
    <3>. QED BY <3>2, <3>3
  <2>. QED BY <2>1
<1>2. Nameless # NoPath
  BY DEF Nameless, NoPath
<1>. QED BY <1>1, <1>2, ClientsAssumption DEF PathsOrNone, Nobody

LEMMA InitInv == Init => IInv
<1>. SUFFICES ASSUME Init PROVE IInv
  OBVIOUS
<1>1. GoodDB(db) /\ db.files = {}
  BY DEF Init, EmptyDB, GoodDB, GoodFiles
<1>2. DOMAIN cl = Clients /\ DOMAIN chan = Clients /\ DOMAIN life = Clients
  BY DEF Init
<1>3. ASSUME NEW c \in Clients
      PROVE  /\ Fits(c, cl[c], chan[c]) /\ CallInv(cl[c], chan[c])
             /\ MarkInv(db.files, c, cl[c], chan[c])
  <2>1. cl[c] = NoCall(NoFd) /\ chan[c].dir = "none"
    BY DEF Init, NoMsg
  <2>2. /\ IsCall(cl[c]) /\ cl[c].pc = "idle" /\ cl[c].p = NoPath /\ cl[c].q = NoPath
        /\ IsFd(cl[c].fd)
    BY <2>1 DEF NoCall, NoFd, IsCall, IsFd, PathsOrNone
  <2>. QED BY <1>1, <2>1, <2>2
           DEF Fits, CallInv, MarkInv, Waits, RenameSteps, MarkedBy, PathsOrNone
<1>. QED BY <1>1, <1>2, <1>3 DEF IInv

\* The invariant says of Deleting what it says of DeletingIn, so it implies MarksOwned.
LEMMA InvMarksOwned == IInv => MarksOwned
<1>. SUFFICES ASSUME IInv, NEW r \in db.files, r.deleting # Nobody,
                     life[r.deleting] = "up", r.deleting \notin fdmark
              PROVE  Deleting(r.deleting, r.path)
  BY DEF MarksOwned
<1>. DEFINE c == r.deleting
<1>1. c \in Clients
  BY DEF IInv
<1>2. DeletingIn(cl[c], chan[c], r.path)
  BY <1>1 DEF IInv, MarkInv, MarkedBy
<1>. QED BY <1>2 DEF DeletingIn, Deleting, Pending, Request

\* The step gives client c the call x and the connection w, and the others nothing
Moves(c, x, w) ==
    /\ DOMAIN cl' = Clients /\ DOMAIN chan' = Clients
    /\ cl'[c] = x /\ chan'[c] = w
    /\ \A k \in Clients : k # c => cl'[k] = cl[k] /\ chan'[k] = chan[k]

NotMarked(c) == c \in fdmark \/ \A p : ~MarkedBy(db.files, c, p)

LEMMA StepInv ==
  ASSUME IInv, NEW c \in Clients, UNCHANGED << db, life, fdmark >>, NEW x, NEW w,
         Moves(c, x, w), Fits(c, x, w), life[c] = "up" => CallInv(x, w),
         life[c] = "up" /\ c \notin fdmark => MarkInv(db.files, c, x, w)
  PROVE  IInv'
<1>1. ASSUME NEW k \in Clients
      PROVE  /\ Fits(k, cl'[k], chan'[k])
             /\ life[k] = "up" => CallInv(cl'[k], chan'[k])
             /\ life[k] = "up" /\ k \notin fdmark => MarkInv(db.files, k, cl'[k], chan'[k])
  <2>1. CASE k = c
    BY <2>1 DEF Moves
  <2>2. CASE k # c
    BY <2>2 DEF IInv, Moves
  <2>. QED BY <2>1, <2>2
<1>2. db' = db /\ life' = life /\ fdmark' = fdmark
  OBVIOUS
<1>3. DOMAIN cl' = Clients /\ DOMAIN chan' = Clients
  BY DEF Moves
<1>4. GoodDB(db') /\ \A r \in db'.files : r.deleting \in Clients \cup {Nobody}
  BY <1>2 DEF IInv
<1>5. DOMAIN life' = Clients
  BY <1>2 DEF IInv
<1>6. \A k \in Clients :
          /\ Fits(k, cl'[k], chan'[k])
          /\ life'[k] = "up" => CallInv(cl'[k], chan'[k])
          /\ life'[k] = "up" /\ k \notin fdmark' => MarkInv(db'.files, k, cl'[k], chan'[k])
  BY <1>1, <1>2
<1>. QED BY <1>3, <1>4, <1>5, <1>6 DEF IInv

\* a client without marks keeps the invariant on marks whatever it does
LEMMA UnmarkedStep ==
  ASSUME IInv, NEW c \in Clients, UNCHANGED << db, life, fdmark >>, NEW x, NEW w,
         Moves(c, x, w), Fits(c, x, w), CallInv(x, w), NotMarked(c)
  PROVE  IInv'
<1>1. c \notin fdmark => MarkInv(db.files, c, x, w)
  BY DEF NotMarked, MarkInv, AnswerInv
<1>. QED BY <1>1, StepInv

\* a client at a step that is not the middle of a removal has no marks
LEMMA Unmarked ==
  ASSUME IInv, NEW c \in Clients, life[c] = "up",
         cl[c].pc \notin RenameSteps \cup {"unlink", "rmdir", "last"}
  PROVE  NotMarked(c)
  BY DEF IInv, MarkInv, DeletingIn, NotMarked, RenameSteps

LEMMA ServeInv ==
  ASSUME IInv, NEW c \in Clients, Serve(c)
  PROVE  IInv'
<1>. DEFINE m == chan[c].msg
<1>1. PICK stale, out :
        /\ out = pseudo_op(db, m, stale) /\ db' = out.db
        /\ chan' = [chan EXCEPT ![c] =
               IF life[c] = "up" THEN [dir |-> "answer", msg |-> out.msg, request |-> m]
               ELSE NoMsg]
        /\ \/ out.msg.result = "abort" /\ fdmark' = fdmark
           \/ /\ out.msg.result # "abort"
              /\ fdmark' = IF m.op \in PrefersInode /\ m.nlink = 0
                           THEN fdmark \cup {c} ELSE fdmark
  BY Zenon DEF Serve, ghosts
<1>2. chan[c].dir = "request" /\ cl' = cl /\ life' = life
  BY DEF Serve
<1>3. IsRequest(c, m) /\ Request(chan[c]) = m
  BY <1>2 DEF IInv, Fits, Request
<1>4. /\ IsMsg(m) /\ m.client = c /\ c # Nobody /\ m.path # Nameless
      /\ m.op \in MarkRequests => m.path # NoPath
  BY <1>3, Values DEF IsRequest, MarkRequests, PathsOrNone
<1>5. /\ GoodDB(out.db)
      /\ \A j, p : j # Nobody /\ MarkedBy(out.db.files, j, p) =>
            \/ MarkedBy(db.files, j, p)
            \/ m.op = "may_unlink" /\ j = c /\ p = m.path
            \/ /\ m.op \in PrefersInode /\ m.nlink = 0 /\ j = c
               /\ out.msg.result # "abort"
      /\ AnswerInv(out.db.files, c, m, out.msg.result)
  <2>1. GoodDB(db)
    BY DEF IInv
  <2>. HIDE DEF m
  <2>. QED BY <1>1, <1>4, <2>1, OpOutcome
<1>6. GoodDB(db') /\ \A r \in db'.files : r.deleting \in Clients \cup {Nobody}
  BY <1>1, <1>5 DEF IInv, MarkedBy
<1>7. DOMAIN cl' = Clients /\ DOMAIN chan' = Clients /\ DOMAIN life' = Clients
  BY <1>1, <1>2 DEF IInv
<1>8. ASSUME NEW k \in Clients, k # c
      PROVE  /\ Fits(k, cl'[k], chan'[k])
             /\ life'[k] = "up" => CallInv(cl'[k], chan'[k])
             /\ life'[k] = "up" /\ k \notin fdmark' => MarkInv(db'.files, k, cl'[k], chan'[k])
  <2>1. cl'[k] = cl[k] /\ chan'[k] = chan[k] /\ life'[k] = life[k]
    BY <1>1, <1>2, <1>8 DEF IInv
  <2>2. /\ Fits(k, cl[k], chan[k])
        /\ life[k] = "up" => CallInv(cl[k], chan[k])
        /\ life[k] = "up" /\ k \notin fdmark => MarkInv(db.files, k, cl[k], chan[k])
    BY DEF IInv
  <2>3. k # Nobody /\ (k \notin fdmark' => k \notin fdmark)
    BY <1>1, Values
  <2>4. \A p : MarkedBy(db'.files, k, p) => MarkedBy(db.files, k, p)
    BY <1>1, <1>5, <1>8, <2>3
  <2>5. ASSUME MarkInv(db.files, k, cl[k], chan[k])
        PROVE  MarkInv(db'.files, k, cl[k], chan[k])
    BY <2>4, <2>5 DEF MarkInv, AnswerInv
  <2>. QED BY <2>1, <2>2, <2>3, <2>5
<1>9. /\ Fits(c, cl'[c], chan'[c])
      /\ life'[c] = "up" => CallInv(cl'[c], chan'[c])
      /\ life'[c] = "up" /\ c \notin fdmark' => MarkInv(db'.files, c, cl'[c], chan'[c])
  <2>1. Fits(c, cl[c], chan[c]) /\ (life[c] = "up" => CallInv(cl[c], chan[c]))
    BY DEF IInv
  <2>. DEFINE x == cl[c]
              v == chan[c]
              w == chan'[c]
              F == db.files
              G == db'.files
  <2>2. CASE life[c] # "up"
    <3>1. w = NoMsg
      BY <1>1, <2>2 DEF IInv
    <3>. QED BY <1>2, <2>1, <2>2, <3>1 DEF Fits, NoMsg
  <2>3. CASE life[c] = "up"
    <3>1. w = [dir |-> "answer", msg |-> out.msg, request |-> m]
      BY <1>1, <2>3 DEF IInv
    <3>2. w.dir = "answer" /\ w.msg = out.msg /\ w.request = m /\ Request(w) = m
      BY <3>1 DEF Request
    <3>3. x' = x /\ v.dir = "request" /\ Request(v) = m
      BY <1>2, <1>3
    <3>4. CallInv(x, v)
      BY <2>1, <2>3
    <3>5. Fits(c, x, w) /\ CallInv(x, w)
      <4>. HIDE DEF x, v, w, m
      <4>1. Fits(c, x, v)
        BY <2>1 DEF x, v
      <4>. QED BY <1>3, <3>2, <3>3, <3>4, <4>1 DEF Fits, CallInv, Waits
    <3>6. ASSUME c \notin fdmark'
          PROVE  MarkInv(G, c, x, w)
      <4>1. ~(m.op \in PrefersInode /\ m.nlink = 0 /\ out.msg.result # "abort")
        BY <1>1, <3>6
      <4>2. MarkInv(F, c, x, v)
        BY <1>1, <2>3, <3>6 DEF IInv
      <4>3. \A p : MarkedBy(G, c, p) =>
                \/ MarkedBy(F, c, p)
                \/ m.op = "may_unlink" /\ p = m.path
        BY <1>1, <1>4, <1>5, <4>1
      <4>4. AnswerInv(G, c, m, w.msg.result)
        BY <1>1, <1>5, <3>2
      <4>. HIDE DEF x, v, w, m, F, G
      <4>5. ASSUME NEW p, MarkedBy(G, c, p)
            PROVE  DeletingIn(x, w, p)
        <5>1. CASE m.op = "may_unlink" /\ p = m.path
          BY <3>3, <3>4, <5>1 DEF CallInv, Waits, DeletingIn
        <5>2. CASE MarkedBy(F, c, p)
          <6>1. DeletingIn(x, v, p)
            BY <4>2, <5>2 DEF MarkInv
          <6>. QED BY <3>2, <3>3, <4>4, <4>5, <6>1 DEF DeletingIn, AnswerInv
        <5>. QED BY <4>3, <4>5, <5>1, <5>2
      <4>6. x.pc \in {"rename_stat", "rename_real"} /\ ~x.mark2 /\ x.q # x.p =>
              ~MarkedBy(G, c, x.q)
        BY <3>3, <3>4, <4>2, <4>3 DEF CallInv, Waits, MarkInv
      <4>7. x.pc \in {"rename_real", "rename_cancel"} /\ ~x.mark => ~MarkedBy(G, c, x.p)
        BY <3>3, <3>4, <4>2, <4>3 DEF CallInv, Waits, MarkInv
      <4>. QED BY <3>2, <4>4, <4>5, <4>6, <4>7 DEF MarkInv
    <3>. QED BY <1>2, <3>5, <3>6
  <2>. QED BY <2>2, <2>3
<1>10. \A k \in Clients :
          /\ Fits(k, cl'[k], chan'[k])
          /\ life'[k] = "up" => CallInv(cl'[k], chan'[k])
          /\ life'[k] = "up" /\ k \notin fdmark' => MarkInv(db'.files, k, cl'[k], chan'[k])
  BY <1>8, <1>9
<1>. QED BY <1>6, <1>7, <1>10 DEF IInv

\* The client sends its request again: the step it is at is the same
LEMMA LoseAnswerInv ==
  ASSUME IInv, NEW c \in Clients, LoseAnswer(c)
  PROVE  IInv'
<1>. DEFINE w == [dir |-> "request", msg |-> chan[c].request]
            v == chan[c]
            x == cl[c]
<1>1. /\ v.dir = "answer" /\ life[c] = "up"
      /\ UNCHANGED << db, cl, life, fdmark >>
      /\ chan' = [chan EXCEPT ![c] = w]
  BY DEF LoseAnswer, ghosts
<1>2. Moves(c, x, w)
  BY <1>1 DEF IInv, Moves
<1>3. w.dir = "request" /\ Request(w) = Request(v) /\ v.dir = "answer"
  BY <1>1 DEF Request
<1>4. Fits(c, x, v) /\ CallInv(x, v) /\ (c \notin fdmark => MarkInv(db.files, c, x, v))
  BY <1>1 DEF IInv
<1>. HIDE DEF w, v, x
<1>5. Fits(c, x, w) /\ CallInv(x, w)
  BY <1>3, <1>4 DEF Fits, CallInv, Waits
<1>6. ASSUME NEW p, DeletingIn(x, v, p) PROVE DeletingIn(x, w, p)
  BY <1>3, <1>6 DEF DeletingIn
<1>7. c \notin fdmark => MarkInv(db.files, c, x, w)
  BY <1>3, <1>4, <1>6 DEF MarkInv
<1>. QED BY <1>1, <1>2, <1>5, <1>7, StepInv

\* A client dies, by abort() or killed
LEMMA DieInv ==
  ASSUME IInv, NEW c \in Clients, NEW how, how # "up", Die(c, how),
         NEW w, w = NoMsg \/ w = chan[c], chan' = [chan EXCEPT ![c] = w]
  PROVE  IInv'
<1>1. /\ db' = db /\ fdmark' = fdmark /\ life' = [life EXCEPT ![c] = how]
      /\ cl' = [cl EXCEPT ![c].fd = NoFd]
  BY DEF Die, ghosts
<1>2. DOMAIN cl = Clients /\ DOMAIN chan = Clients /\ DOMAIN life = Clients
  BY DEF IInv
<1>3. DOMAIN cl' = Clients /\ DOMAIN chan' = Clients /\ DOMAIN life' = Clients
  BY <1>1, <1>2
<1>4. ASSUME NEW k \in Clients, k # c
      PROVE  cl'[k] = cl[k] /\ chan'[k] = chan[k] /\ life'[k] = life[k]
  BY <1>1, <1>2, <1>4
<1>5. life'[c] # "up" /\ chan'[c] = w
  BY <1>1, <1>2
<1>6. Fits(c, cl'[c], w)
  <2>1. Fits(c, cl[c], chan[c])
    BY DEF IInv
  <2>2. cl'[c] = [cl[c] EXCEPT !.fd = NoFd]
    BY <1>1, <1>2, Zenon
  <2>3. IsCall(cl'[c]) /\ cl'[c].fd = NoFd /\ cl'[c].p = cl[c].p /\ cl'[c].q = cl[c].q
    <3>1. IsCall(cl[c])
      BY <2>1 DEF Fits
    <3>. QED BY <2>2, <3>1, Zenon DEF IsCall
  <2>4. IsFd(NoFd)
    BY DEF IsFd, NoFd, PathsOrNone
  <2>. QED BY <2>1, <2>3, <2>4 DEF Fits, NoMsg
<1>. QED BY <1>1, <1>3, <1>4, <1>5, <1>6 DEF IInv

LEMMA AbortInv ==
  ASSUME IInv, NEW c \in Clients, Abort(c)
  PROVE  IInv'
<1>1. Die(c, "aborted") /\ chan' = [chan EXCEPT ![c] = NoMsg]
  BY DEF Abort, SendNothing
<1>. QED BY <1>1, DieInv

LEMMA CrashInv ==
  ASSUME IInv, NEW c \in Clients, Crash(c)
  PROVE  IInv'
<1>1. PICK w : (w = NoMsg \/ w = chan[c]) /\ chan' = [chan EXCEPT ![c] = w]
  BY DEF Crash
<1>2. Die(c, "killed")
  BY DEF Crash
<1>. QED BY <1>1, <1>2, DieInv

(* What the steps of a client write *)

LEMMA MsgRequest ==
  ASSUME NEW c, NEW op, NEW p \in PathsOrNone, op \in MarkRequests => p \in Paths, NEW st,
         NEW m, m = Msg(c, op, p, st)
  PROVE  IsRequest(c, m) /\ m.op = op /\ m.path = p
  BY DEF Msg, IsRequest, IsMsg, MarkRequests

LEMMA MsgChanged ==
  ASSUME NEW c, NEW m, IsRequest(c, m), m.op # "may_unlink", NEW n,
         \/ \E u, v : n = [m EXCEPT !.name = u, !.value = v]
         \/ \E u : n = [m EXCEPT !.name = u]
         \/ \E u : n = [m EXCEPT !.args = u]
  PROVE  IsRequest(c, n) /\ n.op # "may_unlink"
<1>1. IsMsg(m)
  BY DEF IsRequest
<1>2. IsMsg(n) /\ n.op = m.op /\ n.path = m.path /\ n.client = m.client
  BY <1>1, Zenon DEF IsMsg
<1>. QED BY <1>2 DEF IsRequest

\* the connection after Send, after SendNothing, or left alone
LEMMA SentFits ==
  ASSUME NEW c, NEW m, IsRequest(c, m), NEW w, w = [dir |-> "request", msg |-> m],
         NEW x, IsCall(x), IsFd(x.fd), x.p \in PathsOrNone, x.q \in PathsOrNone
  PROVE  Fits(c, x, w) /\ w.dir = "request" /\ Request(w) = m
  BY DEF Fits, Request

\* A step to which the marks do not matter: it waits for nothing that removes a file
Plain(pc) == pc \notin RenameSteps \cup {"unlink", "rmdir"}

LEMMA PlainCall ==
  ASSUME NEW x, NEW w, Plain(x.pc), w.dir # "none" => Request(w).op # "may_unlink"
  PROVE  CallInv(x, w)
  BY DEF Plain, CallInv, Waits, RenameSteps

\* A client without marks that sends a request, or nothing, and goes to a plain step
LEMMA PlainSend ==
  ASSUME IInv, NEW c \in Clients, NotMarked(c), UNCHANGED << db, life, fdmark >>,
         DOMAIN cl' = Clients, \A k \in Clients : k # c => cl'[k] = cl[k],
         NEW x, cl'[c] = x, IsCall(x), IsFd(x.fd), x.p \in PathsOrNone, x.q \in PathsOrNone,
         Plain(x.pc), NEW m, IsRequest(c, m), m.op # "may_unlink", Send(c, m)
  PROVE  IInv'
<1>. DEFINE w == [dir |-> "request", msg |-> m]
<1>1. Moves(c, x, w)
  BY DEF Moves, Send, IInv
<1>2. Fits(c, x, w) /\ w.dir = "request" /\ Request(w) = m
  BY SentFits
<1>. HIDE DEF w
<1>3. CallInv(x, w)
  BY <1>2, PlainCall
<1>. QED BY <1>1, <1>2, <1>3, UnmarkedStep

LEMMA PlainSilent ==
  ASSUME IInv, NEW c \in Clients, NotMarked(c), UNCHANGED << db, life, fdmark >>,
         DOMAIN cl' = Clients, \A k \in Clients : k # c => cl'[k] = cl[k],
         NEW x, cl'[c] = x, IsCall(x), IsFd(x.fd), x.p \in PathsOrNone, x.q \in PathsOrNone,
         Plain(x.pc),
         \/ SendNothing(c)
         \/ UNCHANGED chan /\ Plain(cl[c].pc) /\ life[c] = "up"
  PROVE  IInv'
<1>1. CASE SendNothing(c)
  <2>1. Moves(c, x, NoMsg)
    BY <1>1 DEF Moves, SendNothing, IInv
  <2>2. Fits(c, x, NoMsg) /\ NoMsg.dir = "none"
    BY DEF Fits, NoMsg
  <2>3. CallInv(x, NoMsg)
    BY <2>2, PlainCall
  <2>. QED BY <2>1, <2>2, <2>3, UnmarkedStep
<1>2. CASE UNCHANGED chan /\ Plain(cl[c].pc) /\ life[c] = "up"
  <2>. DEFINE w == chan[c]
  <2>1. Moves(c, x, w)
    BY <1>2 DEF Moves, IInv
  <2>2. Fits(c, cl[c], w) /\ CallInv(cl[c], w)
    BY <1>2 DEF IInv
  <2>. HIDE DEF w
  <2>3. Fits(c, x, w)
    BY <2>2 DEF Fits
  <2>4. w.dir # "none" => Request(w).op # "may_unlink"
    BY <1>2, <2>2 DEF CallInv, Plain, RenameSteps
  <2>5. CallInv(x, w)
    BY <2>4, PlainCall
  <2>. QED BY <2>1, <2>3, <2>5, UnmarkedStep
<1>. QED BY <1>1, <1>2

\* Assignments to fields of cl[c]; Writes is what they have in common
Writes(c, pc) ==
    /\ DOMAIN cl' = Clients /\ \A k \in Clients : k # c => cl'[k] = cl[k]
    /\ IsCall(cl'[c]) /\ cl'[c].pc = pc

LEMMA WholeCall ==
  ASSUME IInv, NEW c \in Clients, NEW x, IsCall(x), cl' = [cl EXCEPT ![c] = x]
  PROVE  Writes(c, x.pc) /\ cl'[c] = x
  BY DEF IInv, Writes

LEMMA SetPc ==
  ASSUME IInv, NEW c \in Clients, NEW pc, cl' = [cl EXCEPT ![c].pc = pc]
  PROVE  /\ Writes(c, pc) /\ cl'[c].p = cl[c].p /\ cl'[c].q = cl[c].q
         /\ cl'[c].fd = cl[c].fd /\ cl'[c].mark = cl[c].mark
<1>1. DOMAIN cl = Clients /\ IsCall(cl[c])
  BY DEF IInv, Fits
<1>2. /\ DOMAIN cl' = Clients /\ \A k \in Clients : k # c => cl'[k] = cl[k]
      /\ cl'[c] = [cl[c] EXCEPT !.pc = pc]
  BY <1>1, Zenon
<1>. QED BY <1>1, <1>2, Zenon DEF IsCall, Writes

LEMMA SetPcSt ==
  ASSUME IInv, NEW c \in Clients, NEW pc, NEW st, cl' = [cl EXCEPT ![c].pc = pc, ![c].st = st]
  PROVE  /\ Writes(c, pc) /\ cl'[c].p = cl[c].p /\ cl'[c].q = cl[c].q
         /\ cl'[c].fd = cl[c].fd
<1>1. DOMAIN cl = Clients /\ IsCall(cl[c])
  BY DEF IInv, Fits
<1>2. /\ DOMAIN cl' = Clients /\ \A k \in Clients : k # c => cl'[k] = cl[k]
      /\ cl'[c] = [cl[c] EXCEPT !.pc = pc, !.st = st]
  BY <1>1, Zenon
<1>. QED BY <1>1, <1>2, Zenon DEF IsCall, Writes

LEMMA SetPcFd ==
  ASSUME IInv, NEW c \in Clients, NEW pc, NEW fd, cl' = [cl EXCEPT ![c].pc = pc, ![c].fd = fd]
  PROVE  /\ Writes(c, pc) /\ cl'[c].p = cl[c].p /\ cl'[c].q = cl[c].q
         /\ cl'[c].fd = fd
<1>1. DOMAIN cl = Clients /\ IsCall(cl[c])
  BY DEF IInv, Fits
<1>2. /\ DOMAIN cl' = Clients /\ \A k \in Clients : k # c => cl'[k] = cl[k]
      /\ cl'[c] = [cl[c] EXCEPT !.pc = pc, !.fd = fd]
  BY <1>1, Zenon
<1>. QED BY <1>1, <1>2, Zenon DEF IsCall, Writes

LEMMA SetPcMark ==
  ASSUME IInv, NEW c \in Clients, NEW pc, NEW b, cl' = [cl EXCEPT ![c].pc = pc, ![c].mark = b]
  PROVE  /\ Writes(c, pc) /\ cl'[c].p = cl[c].p /\ cl'[c].q = cl[c].q
         /\ cl'[c].fd = cl[c].fd /\ cl'[c].mark = b /\ cl'[c].mark2 = cl[c].mark2
<1>1. DOMAIN cl = Clients /\ IsCall(cl[c])
  BY DEF IInv, Fits
<1>2. /\ DOMAIN cl' = Clients /\ \A k \in Clients : k # c => cl'[k] = cl[k]
      /\ cl'[c] = [cl[c] EXCEPT !.pc = pc, !.mark = b]
  BY <1>1, Zenon
<1>. QED BY <1>1, <1>2, Zenon DEF IsCall, Writes

\* the assignments that start a call
LEMMA SetStart ==
  ASSUME IInv, NEW c \in Clients, NEW pc, NEW p, NEW u, NEW v,
         \/ cl' = [cl EXCEPT ![c].pc = pc, ![c].p = p]
         \/ cl' = [cl EXCEPT ![c].pc = pc, ![c].p = p, ![c].st = u]
         \/ cl' = [cl EXCEPT ![c].pc = pc, ![c].p = p, ![c].st = u, ![c].args = v]
         \/ cl' = [cl EXCEPT ![c].pc = pc, ![c].p = p, ![c].mark = u]
  PROVE  Writes(c, pc) /\ cl'[c].p = p /\ cl'[c].q = cl[c].q /\ cl'[c].fd = cl[c].fd
<1>1. DOMAIN cl = Clients /\ IsCall(cl[c])
  BY DEF IInv, Fits
<1>2. /\ DOMAIN cl' = Clients /\ \A k \in Clients : k # c => cl'[k] = cl[k]
      /\ \/ cl'[c] = [cl[c] EXCEPT !.pc = pc, !.p = p]
         \/ cl'[c] = [cl[c] EXCEPT !.pc = pc, !.p = p, !.st = u]
         \/ cl'[c] = [cl[c] EXCEPT !.pc = pc, !.p = p, !.st = u, !.args = v]
         \/ cl'[c] = [cl[c] EXCEPT !.pc = pc, !.p = p, !.mark = u]
  BY <1>1, Zenon
<1>. QED BY <1>1, <1>2, Zenon DEF IsCall, Writes

LEMMA SetStartTwo ==
  ASSUME IInv, NEW c \in Clients, NEW pc, NEW p, NEW q, NEW u, NEW v,
         \/ cl' = [cl EXCEPT ![c].pc = pc, ![c].p = p, ![c].q = q]
         \/ cl' = [cl EXCEPT ![c].pc = pc, ![c].p = p, ![c].q = q, ![c].st = u, ![c].st2 = v]
  PROVE  Writes(c, pc) /\ cl'[c].p = p /\ cl'[c].q = q /\ cl'[c].fd = cl[c].fd
<1>1. DOMAIN cl = Clients /\ IsCall(cl[c])
  BY DEF IInv, Fits
<1>2. /\ DOMAIN cl' = Clients /\ \A k \in Clients : k # c => cl'[k] = cl[k]
      /\ \/ cl'[c] = [cl[c] EXCEPT !.pc = pc, !.p = p, !.q = q]
         \/ cl'[c] = [cl[c] EXCEPT !.pc = pc, !.p = p, !.q = q, !.st = u, !.st2 = v]
  BY <1>1, Zenon
<1>. QED BY <1>1, <1>2, Zenon DEF IsCall, Writes

LEMMA FinishCall ==
  ASSUME IInv, NEW c \in Clients, Finish(c)
  PROVE  /\ Writes(c, "idle") /\ IsFd(cl'[c].fd)
         /\ cl'[c].p \in PathsOrNone /\ cl'[c].q \in PathsOrNone
<1>1. DOMAIN cl = Clients /\ IsFd(cl[c].fd)
  BY DEF IInv, Fits
<1>2. /\ DOMAIN cl' = Clients /\ \A k \in Clients : k # c => cl'[k] = cl[k]
      /\ cl'[c] = NoCall(cl[c].fd)
  BY <1>1, Zenon DEF Finish
<1>. QED BY <1>1, <1>2 DEF NoCall, Writes, IsCall, PathsOrNone

\* descriptors
LEMMA NewFd ==
  ASSUME NEW i, NEW f, f = [NoFd EXCEPT !.ino = i]
  PROVE  IsFd(f)
  BY DEF NoFd, IsFd, PathsOrNone

LEMMA FdChanged ==
  ASSUME NEW f, IsFd(f), NEW p \in PathsOrNone, NEW q \in PathsOrNone, NEW g,
         \/ g = [f EXCEPT !.path = p] \/ g = [f EXCEPT !.linked = q]
         \/ g = [f EXCEPT !.path = p, !.linked = q]
  PROVE  IsFd(g)
<1>1. f = [ino |-> f.ino, path |-> f.path, linked |-> f.linked]
  BY DEF IsFd
<1>2. /\ g = [ino |-> g.ino, path |-> g.path, linked |-> g.linked]
      /\ g.path = f.path \/ g.path = p
      /\ g.linked = f.linked \/ g.linked = q
  BY <1>1, Zenon
<1>. QED BY <1>2 DEF IsFd

LEMMA UnlinkedFd ==
  ASSUME NEW f, IsFd(f), NEW p
  PROVE  IsFd(Unlinked(f, p))
<1>1. f.linked \in PathsOrNone
  BY DEF IsFd
<1>2. Unlinked(f, p) = f \/ Unlinked(f, p) = [f EXCEPT !.path = f.linked]
  BY Zenon DEF Unlinked
<1>. QED BY <1>1, <1>2, FdChanged, Zenon
-----------------------------------------------------------------------------
(* The calls that remove nothing *)

LEMMA CallFields ==
  ASSUME IInv, NEW c \in Clients
  PROVE  /\ IsCall(cl[c]) /\ IsFd(cl[c].fd)
         /\ cl[c].p \in PathsOrNone /\ cl[c].q \in PathsOrNone
  BY DEF IInv, Fits

LEMMA OwnPaths ==
  ASSUME NEW c \in Clients, NEW p \in Own[c] PROVE p \in Paths /\ p \in PathsOrNone
  BY OwnAssumption DEF PathsOrNone

\* the two lemmas on plain steps, in terms of Writes
LEMMA WritesSend ==
  ASSUME IInv, NEW c \in Clients, NotMarked(c), UNCHANGED << db, life, fdmark >>,
         NEW pc, Writes(c, pc), Plain(pc), IsFd(cl'[c].fd),
         cl'[c].p \in PathsOrNone, cl'[c].q \in PathsOrNone,
         NEW m, IsRequest(c, m), m.op # "may_unlink", Send(c, m)
  PROVE  IInv'
<1>. DEFINE x == cl'[c]
<1>1. /\ DOMAIN cl' = Clients /\ \A k \in Clients : k # c => cl'[k] = cl[k]
      /\ cl'[c] = x /\ IsCall(x) /\ Plain(x.pc)
      /\ IsFd(x.fd) /\ x.p \in PathsOrNone /\ x.q \in PathsOrNone
  BY DEF Writes
<1>. HIDE DEF x
<1>. QED BY <1>1, PlainSend

LEMMA WritesSilent ==
  ASSUME IInv, NEW c \in Clients, NotMarked(c), UNCHANGED << db, life, fdmark >>,
         NEW pc, Writes(c, pc), Plain(pc), IsFd(cl'[c].fd),
         cl'[c].p \in PathsOrNone, cl'[c].q \in PathsOrNone,
         \/ SendNothing(c)
         \/ UNCHANGED chan /\ Plain(cl[c].pc) /\ life[c] = "up"
  PROVE  IInv'
<1>. DEFINE x == cl'[c]
<1>1. /\ DOMAIN cl' = Clients /\ \A k \in Clients : k # c => cl'[k] = cl[k]
      /\ cl'[c] = x /\ IsCall(x) /\ Plain(x.pc)
      /\ IsFd(x.fd) /\ x.p \in PathsOrNone /\ x.q \in PathsOrNone
  BY DEF Writes
<1>. HIDE DEF x
<1>. QED BY <1>1, PlainSilent

LEMMA FinishSilent ==
  ASSUME IInv, NEW c \in Clients, NotMarked(c), UNCHANGED << db, life, fdmark >>, Finish(c),
         \/ SendNothing(c)
         \/ UNCHANGED chan /\ Plain(cl[c].pc) /\ life[c] = "up"
  PROVE  IInv'
<1>1. Plain("idle")
  BY DEF Plain, RenameSteps
<1>. QED BY <1>1, FinishCall, WritesSilent

LEMMA CreateKeeps ==
  ASSUME NEW p, NEW i, NEW t, RealCreate(p, i, t) PROVE fdmark' = fdmark
  BY DEF RealCreate

LEMMA StartOpenInv ==
  ASSUME IInv, NEW c \in Clients, NEW p \in Own[c], StartOpen(c, p)
  PROVE  IInv'
<1>1. /\ life[c] = "up" /\ cl[c].pc = "idle" /\ UNCHANGED << db, life, fdmark, chan >>
      /\ cl' = [cl EXCEPT ![c].pc = "open", ![c].p = p, ![c].mark = Exists(p)]
  BY DEF StartOpen, Start, Idle, ghosts
<1>2. NotMarked(c) /\ Plain("idle") /\ Plain("open")
  BY <1>1, Unmarked DEF Plain, RenameSteps
<1>3. /\ Writes(c, "open") /\ cl'[c].p = p /\ cl'[c].q = cl[c].q /\ cl'[c].fd = cl[c].fd
  BY <1>1, SetStart, Zenon
<1>. QED BY <1>1, <1>2, <1>3, CallFields, OwnPaths, WritesSilent

LEMMA RealOpenInv ==
  ASSUME IInv, NEW c \in Clients, RealOpen(c)
  PROVE  IInv'
<1>1. life[c] = "up" /\ cl[c].pc = "open" /\ UNCHANGED << db, life, chan >>
  BY DEF RealOpen, At
<1>2. NotMarked(c) /\ Plain("open") /\ Plain("open_stat")
  BY <1>1, Unmarked DEF Plain, RenameSteps
<1>3. \/ Finish(c) /\ UNCHANGED ghosts
      \/ \E i : /\ cl' = [cl EXCEPT ![c].pc = "open_stat", ![c].fd = [NoFd EXCEPT !.ino = i]]
                /\ UNCHANGED ghosts \/ RealCreate(cl[c].p, i, "reg")
  BY Zenon DEF RealOpen
<1>4. CASE Finish(c) /\ UNCHANGED ghosts
  BY <1>1, <1>2, <1>4, FinishSilent DEF ghosts
<1>5. ASSUME NEW i, NEW f, f = [NoFd EXCEPT !.ino = i],
             cl' = [cl EXCEPT ![c].pc = "open_stat", ![c].fd = f],
             UNCHANGED ghosts \/ RealCreate(cl[c].p, i, "reg")
      PROVE  IInv'
  <2>1. IsFd(f)
    BY <1>5, NewFd
  <2>2. fdmark' = fdmark
    BY <1>5, CreateKeeps DEF ghosts
  <2>3. cl' = [cl EXCEPT ![c].pc = "open_stat", ![c].fd = f]
    BY <1>5
  <2>4. /\ Writes(c, "open_stat") /\ cl'[c].p = cl[c].p /\ cl'[c].q = cl[c].q /\ cl'[c].fd = f
    BY <2>3, SetPcFd
  <2>. QED BY <1>1, <1>2, <2>1, <2>2, <2>4, CallFields, WritesSilent
<1>. QED BY <1>3, <1>4, <1>5, Zenon

LEMMA OpOpenInv ==
  ASSUME IInv, NEW c \in Clients, NotMarked(c), UNCHANGED << db, life, fdmark >>,
         NEW p \in PathsOrNone, NEW st, OpOpen(c, p, st)
  PROVE  IInv'
<1>0. DOMAIN cl = Clients
  BY DEF IInv
<1>1. CASE Logging
  <2>1. cl' = [cl EXCEPT ![c] = [cl[c] EXCEPT !.fd.path = p, !.pc = "last"]]
    BY <1>1, Zenon DEF OpOpen
  <2>2. PICK f, x : /\ f = [cl[c].fd EXCEPT !.path = p]
                    /\ x = [cl[c] EXCEPT !.fd.path = p, !.pc = "last"]
    OBVIOUS
  <2>3. IsFd(f)
    BY <2>2, CallFields, FdChanged, Zenon
  <2>4. x.fd = f /\ x.p = cl[c].p /\ x.q = cl[c].q /\ IsCall(x) /\ x.pc = "last"
    <3>1. IsCall(cl[c])
      BY CallFields
    <3>2. x = [cl[c] EXCEPT !.fd = f, !.pc = "last"]
      BY <2>2, <3>1, Zenon DEF IsCall
    <3>. QED BY <3>1, <3>2, Zenon DEF IsCall
  <2>5. Writes(c, "last") /\ cl'[c] = x
    <3>1. cl' = [cl EXCEPT ![c] = x]
      BY <2>1, <2>2, Zenon
    <3>. QED BY <2>4, <3>1, WholeCall
  <2>6. PICK m : m = Msg(c, "open", p, st) /\ Send(c, m)
    BY <1>1 DEF OpOpen
  <2>7. IsRequest(c, m) /\ m.op # "may_unlink"
    BY <2>6, MsgRequest DEF MarkRequests
  <2>8. Plain("last")
    BY DEF Plain, RenameSteps
  <2>. QED BY <2>3, <2>4, <2>5, <2>6, <2>7, <2>8, CallFields, WritesSend
<1>2. CASE ~Logging
  <2>1. cl' = [cl EXCEPT ![c] = NoCall([cl[c].fd EXCEPT !.path = p])]
    BY <1>2, Zenon DEF OpOpen
  <2>2. PICK f : f = [cl[c].fd EXCEPT !.path = p]
    OBVIOUS
  <2>3. IsFd(f)
    BY <2>2, CallFields, FdChanged, Zenon
  <2>4. cl' = [cl EXCEPT ![c] = NoCall(f)]
    BY <2>1, <2>2, Zenon
  <2>5. /\ IsCall(NoCall(f)) /\ NoCall(f).pc = "idle" /\ NoCall(f).fd = f
        /\ NoCall(f).p \in PathsOrNone /\ NoCall(f).q \in PathsOrNone
    BY DEF NoCall, IsCall, PathsOrNone
  <2>6. Writes(c, "idle") /\ cl'[c] = NoCall(f)
    BY <2>4, <2>5, WholeCall
  <2>7. SendNothing(c) /\ Plain("idle")
    BY <1>2 DEF OpOpen, Plain, RenameSteps
  <2>. QED BY <2>3, <2>5, <2>6, <2>7, WritesSilent
<1>. QED BY <1>1, <1>2

LEMMA OpenStatInv ==
  ASSUME IInv, NEW c \in Clients, OpenStat(c)
  PROVE  IInv'
<1>1. life[c] = "up" /\ cl[c].pc = "open_stat" /\ UNCHANGED << db, life, fdmark >>
  BY DEF OpenStat, At, ghosts
<1>2. NotMarked(c) /\ Plain("open_created")
  BY <1>1, Unmarked DEF Plain, RenameSteps
<1>3. \/ OpOpen(c, cl[c].p, Lstat(cl[c].p))
      \/ \E st, m : /\ m = Msg(c, "creat", cl[c].p, st) /\ Send(c, m)
                    /\ cl' = [cl EXCEPT ![c].pc = "open_created", ![c].st = st]
  BY Zenon DEF OpenStat
<1>4. CASE OpOpen(c, cl[c].p, Lstat(cl[c].p))
  BY <1>1, <1>2, <1>4, CallFields, OpOpenInv
<1>5. ASSUME NEW st, NEW m, m = Msg(c, "creat", cl[c].p, st), Send(c, m),
             cl' = [cl EXCEPT ![c].pc = "open_created", ![c].st = st]
      PROVE  IInv'
  <2>1. IsRequest(c, m) /\ m.op # "may_unlink"
    BY <1>5, CallFields, MsgRequest DEF MarkRequests
  <2>2. /\ Writes(c, "open_created") /\ cl'[c].p = cl[c].p /\ cl'[c].q = cl[c].q
        /\ cl'[c].fd = cl[c].fd
    BY <1>5, SetPcSt
  <2>. QED BY <1>1, <1>2, <1>5, <2>1, <2>2, CallFields, WritesSend
<1>. QED BY <1>3, <1>4, <1>5, Zenon

LEMMA OpenCreatedInv ==
  ASSUME IInv, NEW c \in Clients, OpenCreated(c)
  PROVE  IInv'
<1>1. /\ life[c] = "up" /\ cl[c].pc = "open_created" /\ UNCHANGED << db, life, fdmark >>
      /\ OpOpen(c, cl[c].p, cl[c].st)
  BY DEF OpenCreated, Answered, ghosts
<1>2. NotMarked(c)
  BY <1>1, Unmarked DEF RenameSteps
<1>. QED BY <1>1, <1>2, CallFields, OpOpenInv

LEMMA CloseInv ==
  ASSUME IInv, NEW c \in Clients, Close(c)
  PROVE  IInv'
<1>1. /\ life[c] = "up" /\ cl[c].pc = "idle" /\ UNCHANGED << db, life, fdmark, chan >>
      /\ cl' = [cl EXCEPT ![c].fd = NoFd]
  BY DEF Close, Idle, ghosts
<1>2. NotMarked(c) /\ Plain("idle")
  BY <1>1, Unmarked DEF Plain, RenameSteps
<1>3. /\ Writes(c, cl[c].pc) /\ cl'[c].p = cl[c].p /\ cl'[c].q = cl[c].q
      /\ cl'[c].fd = NoFd
  <2>1. DOMAIN cl = Clients /\ IsCall(cl[c])
    BY DEF IInv, Fits
  <2>2. /\ DOMAIN cl' = Clients /\ \A k \in Clients : k # c => cl'[k] = cl[k]
        /\ cl'[c] = [cl[c] EXCEPT !.fd = NoFd]
    BY <1>1, <2>1, Zenon
  <2>. QED BY <2>1, <2>2, Zenon DEF IsCall, Writes
<1>4. IsFd(NoFd)
  BY DEF IsFd, NoFd, PathsOrNone
<1>. QED BY <1>1, <1>2, <1>3, <1>4, CallFields, WritesSilent

LEMMA RealMakeInv ==
  ASSUME IInv, NEW c \in Clients, NEW p \in Own[c], NEW call, Plain(call), NEW type,
         RealMake(c, call, p, type)
  PROVE  IInv'
<1>1. /\ life[c] = "up" /\ cl[c].pc = "idle" /\ UNCHANGED << db, life, chan >>
      /\ cl' = [cl EXCEPT ![c].pc = call, ![c].p = p]
  BY DEF RealMake, Start, Idle
<1>2. fdmark' = fdmark
  BY CreateKeeps DEF RealMake
<1>3. NotMarked(c) /\ Plain("idle")
  BY <1>1, Unmarked DEF Plain, RenameSteps
<1>4. /\ Writes(c, call) /\ cl'[c].p = p /\ cl'[c].q = cl[c].q /\ cl'[c].fd = cl[c].fd
  BY <1>1, SetStart, Zenon
<1>. QED BY <1>1, <1>2, <1>3, <1>4, CallFields, OwnPaths, WritesSilent

LEMMA ReportMadeInv ==
  ASSUME IInv, NEW c \in Clients, NEW call, Plain(call), call # "last", NEW op,
         op \notin MarkRequests, NEW perms, ReportMade(c, call, op, perms)
  PROVE  IInv'
<1>1. life[c] = "up" /\ cl[c].pc = call /\ UNCHANGED << db, life, fdmark >>
  BY DEF ReportMade, At, ghosts
<1>2. NotMarked(c) /\ Plain("last")
  BY <1>1, Unmarked DEF Plain, RenameSteps
<1>3. \/ Finish(c) /\ UNCHANGED chan
      \/ \E st, m : m = Msg(c, op, cl[c].p, st) /\ Send(c, m) /\ Goto(c, "last")
  BY Zenon DEF ReportMade
<1>4. CASE Finish(c) /\ UNCHANGED chan
  BY <1>1, <1>2, <1>4, FinishSilent
<1>5. ASSUME NEW st, NEW m, m = Msg(c, op, cl[c].p, st), Send(c, m), Goto(c, "last")
      PROVE  IInv'
  <2>1. IsRequest(c, m) /\ m.op # "may_unlink"
    BY <1>5, CallFields, MsgRequest DEF MarkRequests
  <2>2. /\ Writes(c, "last") /\ cl'[c].p = cl[c].p /\ cl'[c].q = cl[c].q
        /\ cl'[c].fd = cl[c].fd
    BY <1>5, SetPc DEF Goto
  <2>. QED BY <1>1, <1>2, <1>5, <2>1, <2>2, CallFields, WritesSend
<1>. QED BY <1>3, <1>4, <1>5

LEMMA RealMkstempInv ==
  ASSUME IInv, NEW c \in Clients, NEW p \in Own[c], RealMkstemp(c, p)
  PROVE  IInv'
<1>1. life[c] = "up" /\ cl[c].pc = "idle" /\ UNCHANGED << db, life, chan >>
  BY DEF RealMkstemp, Start, Idle
<1>2. PICK i, f : /\ f = [NoFd EXCEPT !.ino = i] /\ RealCreate(p, i, "reg")
                  /\ cl' = [cl EXCEPT ![c].pc = "mkstemp", ![c].p = p, ![c].fd = f]
  BY Zenon DEF RealMkstemp
<1>3. IsFd(f) /\ fdmark' = fdmark
  BY <1>2, NewFd, CreateKeeps
<1>4. NotMarked(c) /\ Plain("idle") /\ Plain("mkstemp")
  BY <1>1, Unmarked DEF Plain, RenameSteps
<1>5. /\ Writes(c, "mkstemp") /\ cl'[c].p = p /\ cl'[c].q = cl[c].q /\ cl'[c].fd = f
  <2>1. DOMAIN cl = Clients /\ IsCall(cl[c])
    BY DEF IInv, Fits
  <2>2. cl' = [cl EXCEPT ![c].pc = "mkstemp", ![c].p = p, ![c].fd = f]
    BY <1>2
  <2>3. /\ DOMAIN cl' = Clients /\ \A k \in Clients : k # c => cl'[k] = cl[k]
        /\ cl'[c] = [cl[c] EXCEPT !.pc = "mkstemp", !.p = p, !.fd = f]
    BY <2>1, <2>2, Zenon
  <2>. QED BY <2>1, <2>3, Zenon DEF IsCall, Writes
<1>. QED BY <1>1, <1>3, <1>4, <1>5, CallFields, OwnPaths, WritesSilent

LEMMA MkstempStatInv ==
  ASSUME IInv, NEW c \in Clients, MkstempStat(c)
  PROVE  IInv'
<1>1. life[c] = "up" /\ cl[c].pc = "mkstemp" /\ UNCHANGED << db, life, fdmark >>
  BY DEF MkstempStat, At, ghosts
<1>2. NotMarked(c) /\ Plain("open_created")
  BY <1>1, Unmarked DEF Plain, RenameSteps
<1>3. PICK st, m : /\ m = Msg(c, "creat", cl[c].p, st) /\ Send(c, m)
                   /\ cl' = [cl EXCEPT ![c].pc = "open_created", ![c].st = st]
  BY Zenon DEF MkstempStat
<1>4. IsRequest(c, m) /\ m.op # "may_unlink"
  BY <1>3, CallFields, MsgRequest DEF MarkRequests
<1>5. /\ Writes(c, "open_created") /\ cl'[c].p = cl[c].p /\ cl'[c].q = cl[c].q
      /\ cl'[c].fd = cl[c].fd
  BY <1>3, SetPcSt
<1>. QED BY <1>1, <1>2, <1>3, <1>4, <1>5, CallFields, WritesSend

LEMMA RealMknodInv ==
  ASSUME IInv, NEW c \in Clients, NEW p \in Own[c], RealMknod(c, p)
  PROVE  IInv'
<1>1. life[c] = "up" /\ cl[c].pc = "idle" /\ UNCHANGED << db, life >> /\ Goto(c, "last")
  BY DEF RealMknod, Start, Idle
<1>2. PICK i, st, m : m = Msg(c, "mknod", p, st) /\ Send(c, m) /\ RealCreate(p, i, "reg")
  BY Zenon DEF RealMknod
<1>3. NotMarked(c) /\ Plain("last") /\ fdmark' = fdmark
  BY <1>1, <1>2, Unmarked, CreateKeeps DEF Plain, RenameSteps
<1>4. IsRequest(c, m) /\ m.op # "may_unlink"
  BY <1>2, OwnPaths, MsgRequest DEF MarkRequests
<1>5. /\ Writes(c, "last") /\ cl'[c].p = cl[c].p /\ cl'[c].q = cl[c].q
      /\ cl'[c].fd = cl[c].fd
  BY <1>1, SetPc DEF Goto
<1>. QED BY <1>1, <1>2, <1>3, <1>4, <1>5, CallFields, WritesSend

LEMMA RealLinkInv ==
  ASSUME IInv, NEW c \in Clients, NEW p \in Own[c], NEW q \in Own[c], RealLink(c, p, q)
  PROVE  IInv'
<1>1. /\ life[c] = "up" /\ cl[c].pc = "idle" /\ UNCHANGED << db, life, fdmark, chan >>
      /\ cl' = [cl EXCEPT ![c].pc = "link", ![c].p = p, ![c].q = q]
  BY DEF RealLink, Start, Idle, SetDir, ghosts
<1>2. NotMarked(c) /\ Plain("idle") /\ Plain("link")
  BY <1>1, Unmarked DEF Plain, RenameSteps
<1>3. /\ Writes(c, "link") /\ cl'[c].p = p /\ cl'[c].q = q /\ cl'[c].fd = cl[c].fd
  BY <1>1, SetStartTwo, Zenon
<1>. QED BY <1>1, <1>2, <1>3, CallFields, OwnPaths, WritesSilent

LEMMA LinkStatInv ==
  ASSUME IInv, NEW c \in Clients, LinkStat(c)
  PROVE  IInv'
<1>1. life[c] = "up" /\ cl[c].pc = "link" /\ UNCHANGED << db, life, fdmark >>
  BY DEF LinkStat, At, ghosts
<1>2. NotMarked(c) /\ Plain("link") /\ Plain("link_known")
  BY <1>1, Unmarked DEF Plain, RenameSteps
<1>3. \/ Finish(c) /\ UNCHANGED chan
      \/ \E st, m : /\ m = Msg(c, "stat", cl[c].p, st) /\ Send(c, m)
                    /\ cl' = [cl EXCEPT ![c].pc = "link_known", ![c].st = st]
  BY Zenon DEF LinkStat
<1>4. CASE Finish(c) /\ UNCHANGED chan
  BY <1>1, <1>2, <1>4, FinishSilent
<1>5. ASSUME NEW st, NEW m, m = Msg(c, "stat", cl[c].p, st), Send(c, m),
             cl' = [cl EXCEPT ![c].pc = "link_known", ![c].st = st]
      PROVE  IInv'
  <2>1. IsRequest(c, m) /\ m.op # "may_unlink"
    BY <1>5, CallFields, MsgRequest DEF MarkRequests
  <2>2. /\ Writes(c, "link_known") /\ cl'[c].p = cl[c].p /\ cl'[c].q = cl[c].q
        /\ cl'[c].fd = cl[c].fd
    BY <1>5, SetPcSt
  <2>. QED BY <1>1, <1>2, <1>5, <2>1, <2>2, CallFields, WritesSend
<1>. QED BY <1>3, <1>4, <1>5, Zenon

LEMMA LinkKnownInv ==
  ASSUME IInv, NEW c \in Clients, LinkKnown(c)
  PROVE  IInv'
<1>1. life[c] = "up" /\ cl[c].pc = "link_known" /\ UNCHANGED << db, life, fdmark >>
  BY DEF LinkKnown, Answered, ghosts
<1>2. NotMarked(c) /\ Plain("last")
  BY <1>1, Unmarked DEF Plain, RenameSteps
<1>3. PICK st, m : m = Msg(c, "link", cl[c].q, st) /\ Send(c, m)
  BY Zenon DEF LinkKnown
<1>4. IsRequest(c, m) /\ m.op # "may_unlink"
  BY <1>3, CallFields, MsgRequest DEF MarkRequests
<1>5. PICK v : /\ v = cl[c].q \/ v = cl[c].fd.linked
               /\ cl' = [cl EXCEPT ![c].pc = "last", ![c].fd.linked = v]
  <2>1. cl' = [cl EXCEPT ![c].pc = "last",
                 ![c].fd.linked = IF cl[c].fd.path = cl[c].p THEN cl[c].q ELSE cl[c].fd.linked]
    BY Zenon DEF LinkKnown
  <2>. QED BY <2>1, Zenon
<1>6. PICK f : f = [cl[c].fd EXCEPT !.linked = v]
  OBVIOUS
<1>7. IsFd(f)
  <2>1. IsFd(cl[c].fd) /\ v \in PathsOrNone
    BY <1>5, CallFields DEF IsFd
  <2>. QED BY <1>6, <2>1, FdChanged, Zenon
<1>8. /\ Writes(c, "last") /\ cl'[c].p = cl[c].p /\ cl'[c].q = cl[c].q /\ cl'[c].fd = f
  <2>1. DOMAIN cl = Clients /\ IsCall(cl[c])
    BY DEF IInv, Fits
  <2>2. /\ DOMAIN cl' = Clients /\ \A k \in Clients : k # c => cl'[k] = cl[k]
        /\ cl'[c] = [cl[c] EXCEPT !.pc = "last", !.fd.linked = v]
    BY <1>5, <2>1, Zenon
  <2>3. cl'[c] = [cl[c] EXCEPT !.pc = "last", !.fd = f]
    BY <1>6, <2>1, <2>2, Zenon DEF IsCall
  <2>. QED BY <2>1, <2>2, <2>3, Zenon DEF IsCall, Writes
<1>. QED BY <1>1, <1>2, <1>3, <1>4, <1>7, <1>8, CallFields, WritesSend

\* The calls of one request
LEMMA ChownRequest ==
  ASSUME NEW c, NEW op, op \notin MarkRequests, NEW p \in PathsOrNone, NEW st, NEW a,
         NEW m, m = ChownMsg(c, op, p, st, a)
  PROVE  IsRequest(c, m) /\ m.op # "may_unlink"
<1>1. PICK s, n : n = Msg(c, op, p, s) /\ m = [n EXCEPT !.args = a]
  BY Zenon DEF ChownMsg
<1>2. IsRequest(c, n) /\ n.op # "may_unlink"
  BY <1>1, MsgRequest DEF MarkRequests
<1>. QED BY <1>1, <1>2, MsgChanged, Zenon

\* r is a call and its request
LEMMA OneRequests ==
  ASSUME NEW c, NEW p \in PathsOrNone, NEW st,
         NEW r \in Requests(c, p, st) \cup FdRequests(c, p, st)
  PROVE  IsRequest(c, r[2]) /\ r[2].op # "may_unlink"
<1>1. ASSUME NEW op, op \notin MarkRequests, NEW s, NEW m, m = Msg(c, op, p, s)
      PROVE  IsRequest(c, m) /\ m.op # "may_unlink"
  BY <1>1, MsgRequest DEF MarkRequests
<1>2. ASSUME NEW call, NEW m, r = << call, m >>, IsRequest(c, m), m.op # "may_unlink"
      PROVE  IsRequest(c, r[2]) /\ r[2].op # "may_unlink"
  BY <1>2
<1>3. \A op \in {"get_xattr", "set_xattr", "remove_xattr", "chown", "fchown", "stat", "chmod",
                 "list_xattr", "fstat", "fchmod"} : op \notin MarkRequests
  BY DEF MarkRequests
<1>4. CASE r \in StatRequests(c, p, st)
  <2>1. PICK call, s, m : m = Msg(c, "stat", p, s) /\ r = << call, m >>
    BY <1>4, Zenon DEF StatRequests
  <2>. QED BY <1>1, <1>2, <1>3, <2>1
<1>5. CASE r \in ChmodRequests(c, p, st)
  <2>1. PICK call, s, m : m = Msg(c, "chmod", p, s) /\ r = << call, m >>
    BY <1>5, Zenon DEF ChmodRequests
  <2>. QED BY <1>1, <1>2, <1>3, <2>1
<1>6. CASE r \in ListxattrRequests(c, p, st)
  <2>1. PICK call, s, m : m = Msg(c, "list_xattr", p, s) /\ r = << call, m >>
    BY <1>6, Zenon DEF ListxattrRequests
  <2>. QED BY <1>1, <1>2, <1>3, <2>1
<1>7. CASE r \in FstatRequests(c, p, st)
  <2>1. PICK call, s, m : m = Msg(c, "fstat", p, s) /\ r = << call, m >>
    BY <1>7, Zenon DEF FstatRequests
  <2>. QED BY <1>1, <1>2, <1>3, <2>1
<1>8. CASE r \in FchmodRequests(c, p, st)
  <2>1. PICK call, s, m : m = Msg(c, "fchmod", p, s) /\ r = << call, m >>
    BY <1>8, Zenon DEF FchmodRequests
  <2>. QED BY <1>1, <1>2, <1>3, <2>1
<1>9. CASE r \in ChownRequests(c, p, st)
  <2>1. PICK call, a, m : m = ChownMsg(c, "chown", p, st, a) /\ r = << call, m >>
    BY <1>9, Zenon DEF ChownRequests
  <2>. QED BY <1>2, <1>3, <2>1, ChownRequest
<1>10. CASE r \in FchownRequests(c, p, st)
  <2>1. PICK call, a, m : m = ChownMsg(c, "fchown", p, st, a) /\ r = << call, m >>
    BY <1>10, Zenon DEF FchownRequests
  <2>. QED BY <1>2, <1>3, <2>1, ChownRequest
<1>11. CASE r \in SetxattrRequests(c, p, st)
  <2>1. PICK k : k = Msg(c, "set_xattr", p, st)
    OBVIOUS
  <2>2. PICK x : r = << "setxattr", [Msg(c, "set_xattr", p, st) EXCEPT !.name = x[1],
                                                                     !.value = x[2]] >>
    BY <1>11, Zenon DEF SetxattrRequests
  <2>3. PICK m : m = [k EXCEPT !.name = x[1], !.value = x[2]] /\ r = << "setxattr", m >>
    BY <2>1, <2>2, Zenon
  <2>4. IsRequest(c, k) /\ k.op # "may_unlink"
    BY <1>1, <1>3, <2>1
  <2>5. IsRequest(c, m) /\ m.op # "may_unlink"
    BY <2>3, <2>4, MsgChanged, Zenon
  <2>. QED BY <1>2, <2>3, <2>5
<1>12. CASE r \in GetxattrRequests(c, p, st)
  <2>1. PICK k : k = Msg(c, "get_xattr", p, st)
    OBVIOUS
  <2>2. PICK u : r = << "getxattr", [Msg(c, "get_xattr", p, st) EXCEPT !.name = u] >>
    BY <1>12, Zenon DEF GetxattrRequests
  <2>3. PICK m : m = [k EXCEPT !.name = u] /\ r = << "getxattr", m >>
    BY <2>1, <2>2, Zenon
  <2>4. IsRequest(c, k) /\ k.op # "may_unlink"
    BY <1>1, <1>3, <2>1
  <2>5. IsRequest(c, m) /\ m.op # "may_unlink"
    BY <2>3, <2>4, MsgChanged, Zenon
  <2>. QED BY <1>2, <2>3, <2>5
<1>13. CASE r \in RemovexattrRequests(c, p, st)
  <2>1. PICK k : k = Msg(c, "remove_xattr", p, st)
    OBVIOUS
  <2>2. PICK u : r = << "removexattr", [Msg(c, "remove_xattr", p, st) EXCEPT !.name = u] >>
    BY <1>13, Zenon DEF RemovexattrRequests
  <2>3. PICK m : m = [k EXCEPT !.name = u] /\ r = << "removexattr", m >>
    BY <2>1, <2>2, Zenon
  <2>4. IsRequest(c, k) /\ k.op # "may_unlink"
    BY <1>1, <1>3, <2>1
  <2>5. IsRequest(c, m) /\ m.op # "may_unlink"
    BY <2>3, <2>4, MsgChanged, Zenon
  <2>. QED BY <1>2, <2>3, <2>5
<1>. QED BY <1>4, <1>5, <1>6, <1>7, <1>8, <1>9, <1>10, <1>11, <1>12, <1>13, Zenon
        DEF Requests, FdRequests

LEMMA OneRequestInv ==
  ASSUME IInv, NEW c \in Clients, NEW p \in PathsOrNone, NEW st,
         life[c] = "up", cl[c].pc = "idle", UNCHANGED << db, life, fdmark >>, Goto(c, "last"),
         NEW r \in Requests(c, p, st) \cup FdRequests(c, p, st), Send(c, r[2])
  PROVE  IInv'
<1>1. IsRequest(c, r[2]) /\ r[2].op # "may_unlink"
  BY OneRequests
<1>2. NotMarked(c) /\ Plain("last")
  BY Unmarked DEF Plain, RenameSteps
<1>3. /\ Writes(c, "last") /\ cl'[c].p = cl[c].p /\ cl'[c].q = cl[c].q
      /\ cl'[c].fd = cl[c].fd
  BY SetPc DEF Goto
<1>. QED BY <1>1, <1>2, <1>3, CallFields, WritesSend

LEMMA PathRequestInv ==
  ASSUME IInv, NEW c \in Clients, NEW p \in Own[c], OneRequest(c, p)
  PROVE  IInv'
<1>1. /\ life[c] = "up" /\ cl[c].pc = "idle" /\ UNCHANGED << db, life, fdmark >>
      /\ Goto(c, "last")
  BY DEF OneRequest, Start, Idle, ghosts
<1>2. PICK r \in Requests(c, p, Lstat(p)) : Send(c, r[2])
  BY DEF OneRequest
<1>. QED BY <1>1, <1>2, OwnPaths, OneRequestInv

LEMMA FdRequestInv ==
  ASSUME IInv, NEW c \in Clients, OneFdRequest(c)
  PROVE  IInv'
<1>1. /\ life[c] = "up" /\ cl[c].pc = "idle" /\ UNCHANGED << db, life, fdmark >>
      /\ Goto(c, "last")
  BY DEF OneFdRequest, HasFd, Idle, ghosts
<1>2. PICK r \in FdRequests(c, cl[c].fd.path, StatOf(cl[c].fd.ino)) : Send(c, r[2])
  BY DEF OneFdRequest
<1>3. cl[c].fd.path \in PathsOrNone
  BY CallFields DEF IsFd
<1>. QED BY <1>1, <1>2, <1>3, OneRequestInv

LEMMA AskOwnerInv ==
  ASSUME IInv, NEW c \in Clients, NEW op \in {"chown", "fchown"}, NEW p \in PathsOrNone, NEW st,
         life[c] = "up", cl[c].pc = "idle", AskOwner(c, op, p, st)
  PROVE  IInv'
<1>1. UNCHANGED << db, life, fdmark >>
  BY DEF AskOwner, ghosts
<1>2. PICK m : m = Msg(c, "stat", p, st) /\ Send(c, m)
  BY DEF AskOwner
<1>3. PICK a : cl' = [cl EXCEPT ![c].pc = op, ![c].p = p, ![c].st = st, ![c].args = a]
  BY Zenon DEF AskOwner
<1>4. IsRequest(c, m) /\ m.op # "may_unlink"
  BY <1>2, MsgRequest DEF MarkRequests
<1>5. /\ Writes(c, op) /\ cl'[c].p = p /\ cl'[c].q = cl[c].q /\ cl'[c].fd = cl[c].fd
  BY <1>3, SetStart, Zenon
<1>6. NotMarked(c) /\ Plain(op)
  BY Unmarked DEF Plain, RenameSteps
<1>. QED BY <1>1, <1>2, <1>4, <1>5, <1>6, CallFields, WritesSend

LEMMA StartChownInv ==
  ASSUME IInv, NEW c \in Clients, NEW p \in Own[c], StartChown(c, p)
  PROVE  IInv'
<1>1. life[c] = "up" /\ cl[c].pc = "idle" /\ AskOwner(c, "chown", p, Lstat(p))
  BY DEF StartChown, Start, Idle
<1>. QED BY <1>1, OwnPaths, AskOwnerInv

LEMMA StartFchownInv ==
  ASSUME IInv, NEW c \in Clients, StartFchown(c)
  PROVE  IInv'
<1>1. /\ life[c] = "up" /\ cl[c].pc = "idle"
      /\ AskOwner(c, "fchown", cl[c].fd.path, StatOf(cl[c].fd.ino))
  BY DEF StartFchown, Start, Idle
<1>2. cl[c].fd.path \in PathsOrNone
  BY CallFields DEF IsFd
<1>. QED BY <1>1, <1>2, AskOwnerInv

LEMMA ChownKnownInv ==
  ASSUME IInv, NEW c \in Clients, ChownKnown(c)
  PROVE  IInv'
<1>1. /\ life[c] = "up" /\ cl[c].pc \in {"chown", "fchown"} /\ UNCHANGED << db, life, fdmark >>
      /\ Goto(c, "last")
  BY DEF ChownKnown, Answered, ghosts
<1>2. PICK st, m : m = ChownMsg(c, cl[c].pc, cl[c].p, st, cl[c].args) /\ Send(c, m)
  BY Zenon DEF ChownKnown
<1>3. cl[c].pc \notin MarkRequests
  BY <1>1 DEF MarkRequests
<1>4. IsRequest(c, m) /\ m.op # "may_unlink"
  BY <1>2, <1>3, CallFields, ChownRequest
<1>5. NotMarked(c) /\ Plain("last")
  BY <1>1, Unmarked DEF Plain, RenameSteps
<1>6. /\ Writes(c, "last") /\ cl'[c].p = cl[c].p /\ cl'[c].q = cl[c].q
      /\ cl'[c].fd = cl[c].fd
  BY <1>1, SetPc DEF Goto
<1>. QED BY <1>1, <1>2, <1>4, <1>5, <1>6, CallFields, WritesSend

\* the last answer says that the marks are gone
LEMMA LastAnswerInv ==
  ASSUME IInv, NEW c \in Clients, LastAnswer(c)
  PROVE  IInv'
<1>1. /\ life[c] = "up" /\ cl[c].pc = "last" /\ chan[c].dir = "answer"
      /\ chan[c].msg.result # "abort" /\ UNCHANGED << db, life, fdmark >>
      /\ SendNothing(c) /\ Finish(c)
  BY DEF LastAnswer, Answered, ghosts
<1>2. NotMarked(c)
  BY <1>1 DEF IInv, MarkInv, DeletingIn, NotMarked
<1>. QED BY <1>1, <1>2, FinishSilent
-----------------------------------------------------------------------------
(* unlink, rmdir and rename *)

\* client c goes to the step pc of a removal and sends m
LEMMA MarkSend ==
  ASSUME IInv, NEW c \in Clients, life[c] = "up", UNCHANGED << db, life, fdmark >>,
         NEW pc, Writes(c, pc), IsFd(cl'[c].fd),
         cl'[c].p \in PathsOrNone, cl'[c].q \in PathsOrNone,
         NEW m, IsRequest(c, m), Send(c, m),
         CallInv(cl'[c], [dir |-> "request", msg |-> m]),
         c \notin fdmark => MarkInv(db.files, c, cl'[c], [dir |-> "request", msg |-> m])
  PROVE  IInv'
<1>. DEFINE x == cl'[c]
            w == [dir |-> "request", msg |-> m]
<1>1. Moves(c, x, w)
  BY DEF Moves, Writes, Send, IInv
<1>2. IsCall(x)
  BY DEF Writes
<1>3. Fits(c, x, w)
  BY <1>2, SentFits
<1>. QED BY <1>1, <1>3, StepInv

\* the call is at a step before it and m has its request
LEMMA SentRequest ==
  ASSUME NEW m, NEW w, w = [dir |-> "request", msg |-> m]
  PROVE  w.dir = "request" /\ Request(w) = m
  BY DEF Request

LEMMA MarkFirstInv ==
  ASSUME IInv, NEW c \in Clients, NEW p \in Own[c], NEW call \in {"unlink", "rmdir"},
         MarkFirst(c, call, p)
  PROVE  IInv'
<1>1. /\ life[c] = "up" /\ cl[c].pc = "idle" /\ UNCHANGED << db, life, fdmark >>
      /\ cl' = [cl EXCEPT ![c].pc = call, ![c].p = p, ![c].st = Lstat(p)]
  BY DEF MarkFirst, Start, Idle, ghosts
<1>2. PICK m, w : /\ m = Msg(c, "may_unlink", p, Lstat(p)) /\ Send(c, m)
                  /\ w = [dir |-> "request", msg |-> m]
  BY DEF MarkFirst
<1>3. IsRequest(c, m) /\ m.op = "may_unlink" /\ m.path = p /\ p \in Paths
  BY <1>2, MsgRequest, OwnPaths
<1>4. /\ Writes(c, call) /\ cl'[c].p = p /\ cl'[c].q = cl[c].q /\ cl'[c].fd = cl[c].fd
  BY <1>1, SetStart, Zenon
<1>5. cl'[c].pc = call /\ w.dir = "request" /\ Request(w) = m
  BY <1>2, <1>4, SentRequest DEF Writes
<1>6. CallInv(cl'[c], w)
  BY <1>3, <1>4, <1>5 DEF CallInv, Waits, RenameSteps
<1>7. c \notin fdmark => MarkInv(db.files, c, cl'[c], w)
  <2>1. NotMarked(c)
    BY <1>1, Unmarked DEF RenameSteps
  <2>. QED BY <1>5, <2>1 DEF NotMarked, MarkInv
<1>. QED BY <1>1, <1>2, <1>3, <1>4, <1>6, <1>7, CallFields, OwnPaths, MarkSend

LEMMA AnswerFacts ==
  ASSUME IInv, NEW c \in Clients, NEW pc, Answered(c, pc)
  PROVE  /\ life[c] = "up" /\ cl[c].pc = pc /\ chan[c].dir = "answer"
         /\ chan[c].msg.result # "abort" /\ Request(chan[c]) = chan[c].request
         /\ CallInv(cl[c], chan[c])
         /\ c \notin fdmark => MarkInv(db.files, c, cl[c], chan[c])
  BY DEF IInv, Answered, Request

\* The marks of c are all at path p, and c sends the request that removes them
LEMMA LastSend ==
  ASSUME IInv, NEW c \in Clients, life[c] = "up", UNCHANGED << db, life, fdmark >>,
         Writes(c, "last"), IsFd(cl'[c].fd),
         cl'[c].p \in PathsOrNone, cl'[c].q \in PathsOrNone,
         NEW p, c \notin fdmark => \A r : MarkedBy(db.files, c, r) => r = p,
         NEW m, IsRequest(c, m), Send(c, m),
         \/ m.op \in {"did_unlink", "cancel_unlink"} /\ m.path = p
         \/ m.op = "rename" /\ m.oldpath = p
  PROVE  IInv'
<1>1. PICK w : w = [dir |-> "request", msg |-> m]
  OBVIOUS
<1>2. cl'[c].pc = "last" /\ w.dir = "request" /\ Request(w) = m
  BY <1>1, SentRequest DEF Writes
<1>3. CallInv(cl'[c], w)
  BY <1>2 DEF CallInv, Waits, RenameSteps
<1>4. c \notin fdmark => MarkInv(db.files, c, cl'[c], w)
  BY <1>2 DEF MarkInv, DeletingIn
<1>. QED BY <1>1, <1>3, <1>4, MarkSend

LEMMA RemoveInv ==
  ASSUME IInv, NEW c \in Clients, NEW pc \in {"unlink", "rmdir"}, Answered(c, pc),
         NEW ok, Remove(c, ok)
  PROVE  IInv'
<1>1. /\ life[c] = "up" /\ cl[c].pc = pc /\ chan[c].dir = "answer"
      /\ chan[c].msg.result # "abort" /\ Request(chan[c]) = chan[c].request
      /\ CallInv(cl[c], chan[c]) /\ (c \notin fdmark => MarkInv(db.files, c, cl[c], chan[c]))
  BY AnswerFacts
<1>2. UNCHANGED << db, life, fdmark >>
  BY DEF Remove, SetDir, ghosts
<1>3. /\ cl[c].p \in Paths /\ chan[c].request.op = "may_unlink" /\ chan[c].request.path = cl[c].p
  BY <1>1 DEF CallInv, Waits
<1>4. c \notin fdmark => \A r : MarkedBy(db.files, c, r) => r = cl[c].p
  BY <1>1 DEF MarkInv, DeletingIn
<1>5. CASE Succeeded(c)
  <2>1. PICK op, m : /\ op \in {"did_unlink", "cancel_unlink"}
                     /\ m = Msg(c, op, cl[c].p, cl[c].st) /\ Send(c, m)
    BY <1>5 DEF Remove
  <2>2. IsRequest(c, m) /\ m.op = op /\ m.path = cl[c].p
    BY <1>3, <2>1, MsgRequest DEF PathsOrNone
  <2>3. PICK f : /\ f = cl[c].fd \/ f = Unlinked(cl[c].fd, cl[c].p)
                 /\ cl' = [cl EXCEPT ![c].pc = "last", ![c].fd = f]
    <3>1. cl' = [cl EXCEPT ![c].pc = "last",
                           ![c].fd = IF ok THEN Unlinked(cl[c].fd, cl[c].p) ELSE cl[c].fd]
      BY <1>5, Zenon DEF Remove
    <3>. QED BY <3>1, Zenon
  <2>4. IsFd(f)
    BY <2>3, CallFields, UnlinkedFd
  <2>5. cl' = [cl EXCEPT ![c].pc = "last", ![c].fd = f]
    BY <2>3
  <2>6. /\ Writes(c, "last") /\ cl'[c].p = cl[c].p /\ cl'[c].q = cl[c].q /\ cl'[c].fd = f
    BY <2>5, SetPcFd
  <2>. QED BY <1>1, <1>2, <1>4, <2>1, <2>2, <2>4, <2>6, CallFields, LastSend
<1>6. CASE ~Succeeded(c)
  <2>1. SendNothing(c) /\ Finish(c)
    BY <1>6 DEF Remove
  <2>2. c \notin fdmark => ~MarkedBy(db.files, c, cl[c].p)
    BY <1>1, <1>3, <1>6 DEF MarkInv, AnswerInv, Succeeded
  <2>3. NotMarked(c)
    BY <1>4, <2>2 DEF NotMarked
  <2>. QED BY <1>2, <2>1, <2>3, FinishSilent
<1>. QED BY <1>5, <1>6

LEMMA StartRenameInv ==
  ASSUME IInv, NEW c \in Clients, NEW p \in Own[c], NEW q \in Own[c], StartRename(c, p, q)
  PROVE  IInv'
<1>1. /\ life[c] = "up" /\ cl[c].pc = "idle" /\ UNCHANGED << db, life, fdmark >>
      /\ cl' = [cl EXCEPT ![c].pc = "rename_old", ![c].p = p, ![c].q = q,
                          ![c].st = Lstat(p), ![c].st2 = Lstat(q)]
  BY DEF StartRename, Start, Idle, ghosts
<1>2. PICK m, w : /\ m = Msg(c, "may_unlink", q, Lstat(q)) /\ Send(c, m)
                  /\ w = [dir |-> "request", msg |-> m]
  BY DEF StartRename
<1>3. IsRequest(c, m) /\ m.op = "may_unlink" /\ m.path = q /\ p \in Paths /\ q \in Paths
  BY <1>2, MsgRequest, OwnPaths
<1>4. /\ Writes(c, "rename_old") /\ cl'[c].p = p /\ cl'[c].q = q /\ cl'[c].fd = cl[c].fd
  BY <1>1, SetStartTwo, Zenon
<1>5. cl'[c].pc = "rename_old" /\ w.dir = "request" /\ Request(w) = m
  BY <1>2, <1>4, SentRequest DEF Writes
<1>6. CallInv(cl'[c], w)
  BY <1>3, <1>4, <1>5 DEF CallInv, Waits, RenameSteps
<1>7. c \notin fdmark => MarkInv(db.files, c, cl'[c], w)
  <2>1. NotMarked(c)
    BY <1>1, Unmarked DEF RenameSteps
  <2>. QED BY <1>5, <2>1 DEF NotMarked, MarkInv
<1>. QED BY <1>1, <1>2, <1>3, <1>4, <1>6, <1>7, CallFields, OwnPaths, MarkSend

LEMMA RenameMarkOldInv ==
  ASSUME IInv, NEW c \in Clients, RenameMarkOld(c)
  PROVE  IInv'
<1>1. /\ life[c] = "up" /\ cl[c].pc = "rename_old" /\ chan[c].dir = "answer"
      /\ chan[c].msg.result # "abort" /\ Request(chan[c]) = chan[c].request
      /\ CallInv(cl[c], chan[c]) /\ (c \notin fdmark => MarkInv(db.files, c, cl[c], chan[c]))
  BY AnswerFacts DEF RenameMarkOld
<1>2. /\ UNCHANGED << db, life, fdmark >>
      /\ cl' = [cl EXCEPT ![c].pc = "rename_stat", ![c].mark2 = Succeeded(c)]
  BY DEF RenameMarkOld, ghosts
<1>3. /\ cl[c].p \in Paths /\ cl[c].q \in Paths
      /\ chan[c].request.op = "may_unlink" /\ chan[c].request.path = cl[c].q
  BY <1>1 DEF CallInv, Waits, RenameSteps
<1>4. PICK m, w : /\ m = Msg(c, "may_unlink", cl[c].p, cl[c].st) /\ Send(c, m)
                  /\ w = [dir |-> "request", msg |-> m]
  BY DEF RenameMarkOld
<1>5. IsRequest(c, m) /\ m.op = "may_unlink" /\ m.path = cl[c].p
  BY <1>3, <1>4, MsgRequest DEF PathsOrNone
<1>6. /\ Writes(c, "rename_stat") /\ cl'[c].p = cl[c].p /\ cl'[c].q = cl[c].q
      /\ cl'[c].fd = cl[c].fd /\ cl'[c].mark2 = Succeeded(c)
  <2>1. DOMAIN cl = Clients /\ IsCall(cl[c])
    BY DEF IInv, Fits
  <2>2. /\ DOMAIN cl' = Clients /\ \A k \in Clients : k # c => cl'[k] = cl[k]
        /\ cl'[c] = [cl[c] EXCEPT !.pc = "rename_stat", !.mark2 = Succeeded(c)]
    BY <1>2, <2>1, Zenon
  <2>. QED BY <2>1, <2>2, Zenon DEF IsCall, Writes
<1>7. cl'[c].pc = "rename_stat" /\ w.dir = "request" /\ Request(w) = m
  BY <1>4, <1>6, SentRequest DEF Writes
<1>8. CallInv(cl'[c], w)
  BY <1>3, <1>5, <1>6, <1>7 DEF CallInv, Waits, RenameSteps
<1>9. ASSUME c \notin fdmark PROVE MarkInv(db.files, c, cl'[c], w)
  <2>1. \A r : MarkedBy(db.files, c, r) => r = cl[c].q
    BY <1>1, <1>9 DEF MarkInv, DeletingIn
  <2>2. ~Succeeded(c) => ~MarkedBy(db.files, c, cl[c].q)
    BY <1>1, <1>3, <1>9 DEF MarkInv, AnswerInv, Succeeded
  <2>. QED BY <1>6, <1>7, <2>1, <2>2 DEF MarkInv, DeletingIn
<1>. QED BY <1>1, <1>2, <1>4, <1>5, <1>6, <1>8, <1>9, CallFields, MarkSend

LEMMA RenameStatInv ==
  ASSUME IInv, NEW c \in Clients, RenameStat(c)
  PROVE  IInv'
<1>1. /\ life[c] = "up" /\ cl[c].pc = "rename_stat" /\ chan[c].dir = "answer"
      /\ chan[c].msg.result # "abort" /\ Request(chan[c]) = chan[c].request
      /\ CallInv(cl[c], chan[c]) /\ (c \notin fdmark => MarkInv(db.files, c, cl[c], chan[c]))
  BY AnswerFacts DEF RenameStat
<1>2. /\ UNCHANGED << db, life, fdmark >>
      /\ cl' = [cl EXCEPT ![c].pc = "rename_real", ![c].mark = Succeeded(c)]
  BY DEF RenameStat, ghosts
<1>3. /\ cl[c].p \in Paths /\ cl[c].q \in Paths
      /\ chan[c].request.op = "may_unlink" /\ chan[c].request.path = cl[c].p
  BY <1>1 DEF CallInv, Waits, RenameSteps
<1>4. PICK m, w : /\ m = Msg(c, "stat", cl[c].p, cl[c].st) /\ Send(c, m)
                  /\ w = [dir |-> "request", msg |-> m]
  BY DEF RenameStat
<1>5. IsRequest(c, m) /\ m.op = "stat"
  BY <1>3, <1>4, MsgRequest DEF PathsOrNone
<1>6. /\ Writes(c, "rename_real") /\ cl'[c].p = cl[c].p /\ cl'[c].q = cl[c].q
      /\ cl'[c].fd = cl[c].fd /\ cl'[c].mark = Succeeded(c) /\ cl'[c].mark2 = cl[c].mark2
  BY <1>2, SetPcMark, Zenon
<1>7. cl'[c].pc = "rename_real" /\ w.dir = "request" /\ Request(w) = m
  BY <1>4, <1>6, SentRequest DEF Writes
<1>8. CallInv(cl'[c], w)
  BY <1>3, <1>5, <1>6, <1>7 DEF CallInv, Waits, RenameSteps
<1>9. ASSUME c \notin fdmark PROVE MarkInv(db.files, c, cl'[c], w)
  <2>1. \A r : MarkedBy(db.files, c, r) => r = cl[c].q \/ r = cl[c].p
    BY <1>1, <1>9 DEF MarkInv, DeletingIn
  <2>2. ~Succeeded(c) => ~MarkedBy(db.files, c, cl[c].p)
    BY <1>1, <1>3, <1>9 DEF MarkInv, AnswerInv, Succeeded
  <2>3. ~cl[c].mark2 /\ cl[c].q # cl[c].p => ~MarkedBy(db.files, c, cl[c].q)
    BY <1>1, <1>9 DEF MarkInv
  <2>. QED BY <1>6, <1>7, <2>1, <2>2, <2>3 DEF MarkInv, DeletingIn
<1>. QED BY <1>1, <1>2, <1>4, <1>5, <1>6, <1>8, <1>9, CallFields, MarkSend

\* OP_RENAME follows: the row of the old name moves, with its mark gone
LEMMA SendRenameInv ==
  ASSUME IInv, NEW c \in Clients, life[c] = "up", UNCHANGED << db, life, fdmark >>,
         NEW me, IsCall(me), IsFd(me.fd), me.p \in Paths, me.q \in Paths, NEW st,
         c \notin fdmark => \A r : MarkedBy(db.files, c, r) => r = me.p,
         SendRename(c, me, st)
  PROVE  IInv'
<1>1. PICK n : Send(c, n) /\ IsRequest(c, n) /\ n.op = "rename" /\ n.oldpath = me.p
  <2>1. PICK m : m = Msg(c, "rename", me.q, st)
    OBVIOUS
  <2>2. PICK n : n = [m EXCEPT !.oldpath = me.p] /\ Send(c, n)
    BY <2>1, Zenon DEF SendRename
  <2>3. IsRequest(c, m) /\ m.op = "rename"
    BY <2>1, MsgRequest DEF PathsOrNone
  <2>4. n = [m EXCEPT !.oldpath = me.p]
    BY <2>2
  <2>5. IsRequest(c, n) /\ n.op = m.op /\ n.oldpath = me.p
    <3>1. IsMsg(m)
      BY <2>3 DEF IsRequest
    <3>2. IsMsg(n) /\ n.oldpath = me.p /\ n.op = m.op /\ n.path = m.path /\ n.client = m.client
      BY <2>4, <3>1, Zenon DEF IsMsg
    <3>. QED BY <2>3, <3>2 DEF IsRequest
  <2>. QED BY <2>2, <2>3, <2>5
<1>3. PICK u, v : /\ u = me.q \/ u = me.fd.path
                  /\ v = me.q \/ v = me.fd.linked
                  /\ cl' = [cl EXCEPT ![c] = [me EXCEPT !.pc = "last", !.fd.path = u,
                                                        !.fd.linked = v]]
  <2>1. me.fd = [ino |-> me.fd.ino, path |-> me.fd.path, linked |-> me.fd.linked]
    BY DEF IsFd
  <2>2. cl' = [cl EXCEPT ![c] = [me EXCEPT !.pc = "last",
                !.fd.path = IF me.fd.path = me.p THEN me.q ELSE me.fd.path,
                !.fd.linked = IF me.fd.linked = me.p THEN me.q ELSE me.fd.linked]]
    BY <2>1, Zenon DEF SendRename, IsCall
  <2>. QED BY <2>2, Zenon
<1>4. PICK f, x : /\ f = [me.fd EXCEPT !.path = u, !.linked = v]
                  /\ x = [me EXCEPT !.pc = "last", !.fd.path = u, !.fd.linked = v]
  OBVIOUS
<1>5. IsFd(f)
  <2>1. u \in PathsOrNone /\ v \in PathsOrNone
    BY <1>3 DEF IsFd, PathsOrNone
  <2>2. f = [me.fd EXCEPT !.path = u, !.linked = v]
    BY <1>4
  <2>. QED BY <2>1, <2>2, FdChanged, Zenon
<1>6. x.fd = f /\ x.p = me.p /\ x.q = me.q /\ IsCall(x) /\ x.pc = "last"
  <2>1. x = [me EXCEPT !.fd = f, !.pc = "last"]
    BY <1>4, Zenon DEF IsCall
  <2>. QED BY <2>1, Zenon DEF IsCall
<1>7. cl' = [cl EXCEPT ![c] = x]
  BY <1>3, <1>4, Zenon
<1>8. Writes(c, "last") /\ cl'[c] = x
  BY <1>6, <1>7, WholeCall
<1>. QED BY <1>1, <1>5, <1>6, <1>8, LastSend DEF PathsOrNone

\* the marks of c are all at the old name
LEMMA LinkOrRenameInv ==
  ASSUME IInv, NEW c \in Clients, life[c] = "up", UNCHANGED << db, life, fdmark >>,
         NEW me, IsCall(me), IsFd(me.fd), me.p \in Paths, me.q \in Paths, NEW known,
         c \notin fdmark => \A r : MarkedBy(db.files, c, r) => r = me.p,
         SendLinkOrRename(c, me, known)
  PROVE  IInv'
<1>1. CASE known
  <2>1. SendRename(c, me, me.st)
    BY <1>1, Zenon DEF SendLinkOrRename
  <2>. QED BY <2>1, SendRenameInv
<1>2. CASE ~known
  <2>1. PICK m, w : /\ m = Msg(c, "link", me.p, me.st) /\ Send(c, m)
                    /\ w = [dir |-> "request", msg |-> m]
    BY <1>2, Zenon DEF SendLinkOrRename
  <2>2. IsRequest(c, m) /\ m.op = "link"
    BY <2>1, MsgRequest DEF PathsOrNone, MarkRequests
  <2>3. PICK x : x = [me EXCEPT !.pc = "rename_link"] /\ cl' = [cl EXCEPT ![c] = x]
    BY <1>2, Zenon DEF SendLinkOrRename
  <2>4. x.fd = me.fd /\ x.p = me.p /\ x.q = me.q /\ IsCall(x) /\ x.pc = "rename_link"
    BY <2>3, Zenon DEF IsCall
  <2>5. Writes(c, "rename_link") /\ cl'[c] = x
    <3>1. cl' = [cl EXCEPT ![c] = x]
      BY <2>3
    <3>. QED BY <2>4, <3>1, WholeCall
  <2>6. w.dir = "request" /\ Request(w) = m
    BY <2>1, SentRequest
  <2>7. CallInv(x, w)
    BY <2>2, <2>4, <2>6 DEF CallInv, Waits, RenameSteps
  <2>8. c \notin fdmark => MarkInv(db.files, c, x, w)
    BY <2>4, <2>6 DEF MarkInv, DeletingIn
  <2>. QED BY <2>1, <2>2, <2>4, <2>5, <2>7, <2>8, MarkSend DEF PathsOrNone
<1>. QED BY <1>1, <1>2

LEMMA RenameLinkedInv ==
  ASSUME IInv, NEW c \in Clients, RenameLinked(c)
  PROVE  IInv'
<1>1. /\ life[c] = "up" /\ cl[c].pc = "rename_link" /\ CallInv(cl[c], chan[c])
      /\ c \notin fdmark => MarkInv(db.files, c, cl[c], chan[c])
  BY AnswerFacts DEF RenameLinked
<1>2. UNCHANGED << db, life, fdmark >> /\ SendRename(c, cl[c], cl[c].st)
  BY DEF RenameLinked, ghosts
<1>3. cl[c].p \in Paths /\ cl[c].q \in Paths
  BY <1>1 DEF CallInv, RenameSteps
<1>4. c \notin fdmark => \A r : MarkedBy(db.files, c, r) => r = cl[c].p
  BY <1>1 DEF MarkInv, DeletingIn
<1>. QED BY <1>1, <1>2, <1>3, <1>4, CallFields, SendRenameInv

LEMMA RenameDidInv ==
  ASSUME IInv, NEW c \in Clients, RenameDid(c)
  PROVE  IInv'
<1>1. /\ life[c] = "up" /\ cl[c].pc = "rename_did" /\ chan[c].dir = "answer"
      /\ chan[c].msg.result # "abort" /\ Request(chan[c]) = chan[c].request
      /\ CallInv(cl[c], chan[c]) /\ (c \notin fdmark => MarkInv(db.files, c, cl[c], chan[c]))
  BY AnswerFacts DEF RenameDid
<1>2. UNCHANGED << db, life, fdmark >> /\ SendLinkOrRename(c, cl[c], cl[c].mark)
  BY DEF RenameDid, ghosts
<1>3. /\ cl[c].p \in Paths /\ cl[c].q \in Paths
      /\ chan[c].request.op = "did_unlink" /\ chan[c].request.path = cl[c].q
  BY <1>1 DEF CallInv, Waits, RenameSteps
<1>4. ASSUME c \notin fdmark, NEW r, MarkedBy(db.files, c, r) PROVE r = cl[c].p
  <2>1. ~MarkedBy(db.files, c, cl[c].q)
    BY <1>1, <1>3, <1>4 DEF MarkInv, AnswerInv
  <2>2. DeletingIn(cl[c], chan[c], r)
    BY <1>1, <1>4 DEF MarkInv
  <2>. QED BY <1>1, <1>4, <2>1, <2>2 DEF DeletingIn
<1>. QED BY <1>1, <1>2, <1>3, <1>4, CallFields, LinkOrRenameInv

LEMMA RenameCancelOldInv ==
  ASSUME IInv, NEW c \in Clients, RenameCancelOld(c)
  PROVE  IInv'
<1>1. /\ life[c] = "up" /\ cl[c].pc = "rename_cancel" /\ chan[c].dir = "answer"
      /\ chan[c].msg.result # "abort" /\ Request(chan[c]) = chan[c].request
      /\ CallInv(cl[c], chan[c]) /\ (c \notin fdmark => MarkInv(db.files, c, cl[c], chan[c]))
  BY AnswerFacts DEF RenameCancelOld
<1>2. UNCHANGED << db, life, fdmark >>
  BY DEF RenameCancelOld, ghosts
<1>3. /\ cl[c].p \in Paths /\ cl[c].q \in Paths
      /\ chan[c].request.op = "cancel_unlink" /\ chan[c].request.path = cl[c].q
  BY <1>1 DEF CallInv, Waits, RenameSteps
<1>4. ASSUME c \notin fdmark, NEW r, MarkedBy(db.files, c, r) PROVE r = cl[c].p
  <2>1. ~MarkedBy(db.files, c, cl[c].q)
    BY <1>1, <1>3, <1>4 DEF MarkInv, AnswerInv
  <2>2. DeletingIn(cl[c], chan[c], r)
    BY <1>1, <1>4 DEF MarkInv
  <2>. QED BY <1>1, <1>4, <2>1, <2>2 DEF DeletingIn
<1>5. CASE cl[c].mark
  <2>1. PICK m : m = Msg(c, "cancel_unlink", cl[c].p, cl[c].st) /\ Send(c, m)
    BY <1>5, Zenon DEF RenameCancelOld
  <2>2. IsRequest(c, m) /\ m.op = "cancel_unlink" /\ m.path = cl[c].p
    BY <1>3, <2>1, MsgRequest DEF PathsOrNone
  <2>3. Goto(c, "last")
    BY <1>5, Zenon DEF RenameCancelOld
  <2>4. /\ Writes(c, "last") /\ cl'[c].p = cl[c].p /\ cl'[c].q = cl[c].q
        /\ cl'[c].fd = cl[c].fd
    BY <2>3, SetPc DEF Goto
  <2>. QED BY <1>1, <1>2, <1>4, <2>1, <2>2, <2>4, CallFields, LastSend
<1>6. CASE ~cl[c].mark
  <2>1. SendNothing(c) /\ Finish(c)
    BY <1>6, Zenon DEF RenameCancelOld
  <2>2. NotMarked(c)
    BY <1>1, <1>4, <1>6 DEF NotMarked, MarkInv
  <2>. QED BY <1>2, <2>1, <2>2, FinishSilent
<1>. QED BY <1>5, <1>6

\* The real rename: what the call does with me, its record with the two stat buffers
AfterRename(c, st, st2, me) ==
    \/ /\ me.mark2 /\ Send(c, Msg(c, "did_unlink", me.q, st2))
       /\ cl' = [cl EXCEPT ![c] = [me EXCEPT !.pc = "rename_did", !.mark = Succeeded(c),
                                             !.fd = Unlinked(@, me.q)]]
    \/ ~me.mark2 /\ SendLinkOrRename(c, me, Succeeded(c))
    \/ /\ me.mark2 /\ Send(c, Msg(c, "cancel_unlink", me.q, st2))
       /\ cl' = [cl EXCEPT ![c] = [me EXCEPT !.pc = "rename_cancel"]]
    \/ /\ ~me.mark2 /\ me.mark /\ Send(c, Msg(c, "cancel_unlink", me.p, st))
       /\ cl' = [cl EXCEPT ![c] = [me EXCEPT !.pc = "last"]]
    \/ ~me.mark2 /\ ~me.mark /\ SendNothing(c) /\ Finish(c)

LEMMA RealRenameInv ==
  ASSUME IInv, NEW c \in Clients, RealRename(c)
  PROVE  IInv'
<1>1. /\ life[c] = "up" /\ cl[c].pc = "rename_real" /\ chan[c].dir = "answer"
      /\ CallInv(cl[c], chan[c]) /\ (c \notin fdmark => MarkInv(db.files, c, cl[c], chan[c]))
  BY AnswerFacts DEF RealRename
<1>2. PICK st, st2, me :
        /\ me = [cl[c] EXCEPT !.st = st, !.st2 = st2]
        /\ AfterRename(c, st, st2, me)
  <2>1. PICK st, st2 : AfterRename(c, st, st2, [cl[c] EXCEPT !.st = st, !.st2 = st2])
    BY Zenon DEF RealRename, AfterRename
  <2>. QED BY <2>1, Zenon
<1>3. UNCHANGED << db, life, fdmark >>
  BY DEF RealRename, SetDir, ghosts
<1>4. /\ IsCall(me) /\ me.p = cl[c].p /\ me.q = cl[c].q /\ me.fd = cl[c].fd
      /\ me.mark = cl[c].mark /\ me.mark2 = cl[c].mark2
  <2>1. IsCall(cl[c]) /\ me = [cl[c] EXCEPT !.st = st, !.st2 = st2]
    BY <1>2, CallFields
  <2>. QED BY <2>1, Zenon DEF IsCall
<1>5. me.p \in Paths /\ me.q \in Paths /\ IsFd(me.fd)
  BY <1>1, <1>4, CallFields DEF CallInv, RenameSteps
<1>6. c \notin fdmark =>
        /\ \A r : MarkedBy(db.files, c, r) => r = me.p \/ r = me.q
        /\ ~me.mark2 /\ me.q # me.p => ~MarkedBy(db.files, c, me.q)
        /\ ~me.mark => ~MarkedBy(db.files, c, me.p)
  BY <1>1, <1>4 DEF MarkInv, DeletingIn
<1>7. CASE /\ Send(c, Msg(c, "did_unlink", me.q, st2))
           /\ cl' = [cl EXCEPT ![c] = [me EXCEPT !.pc = "rename_did", !.mark = Succeeded(c),
                                                 !.fd = Unlinked(@, me.q)]]
  <2>1. PICK m, w : /\ m = Msg(c, "did_unlink", me.q, st2) /\ Send(c, m)
                    /\ w = [dir |-> "request", msg |-> m]
    BY <1>7
  <2>2. IsRequest(c, m) /\ m.op = "did_unlink" /\ m.path = me.q
    BY <1>5, <2>1, MsgRequest DEF PathsOrNone
  <2>3. PICK x : /\ x = [me EXCEPT !.pc = "rename_did", !.mark = Succeeded(c),
                                   !.fd = Unlinked(me.fd, me.q)]
                 /\ cl' = [cl EXCEPT ![c] = x]
    BY <1>7, Zenon
  <2>4. /\ x.fd = Unlinked(me.fd, me.q) /\ x.p = me.p /\ x.q = me.q /\ IsCall(x)
        /\ x.pc = "rename_did"
    <3>1. x = [me EXCEPT !.pc = "rename_did", !.mark = Succeeded(c),
                         !.fd = Unlinked(me.fd, me.q)]
      BY <2>3
    <3>. QED BY <1>4, <3>1, Zenon DEF IsCall
  <2>5. Writes(c, "rename_did") /\ cl'[c] = x
    <3>1. cl' = [cl EXCEPT ![c] = x]
      BY <2>3
    <3>. QED BY <2>4, <3>1, WholeCall
  <2>6. w.dir = "request" /\ Request(w) = m
    BY <2>1, SentRequest
  <2>7. CallInv(x, w)
    BY <1>5, <2>2, <2>4, <2>6 DEF CallInv, Waits, RenameSteps
  <2>8. c \notin fdmark => MarkInv(db.files, c, x, w)
    BY <1>6, <2>4, <2>6 DEF MarkInv, DeletingIn
  <2>9. IsFd(x.fd)
    BY <1>5, <2>4, UnlinkedFd
  <2>. QED BY <1>1, <1>3, <1>5, <2>1, <2>2, <2>4, <2>5, <2>7, <2>8, <2>9, MarkSend DEF PathsOrNone
<1>8. CASE ~me.mark2 /\ SendLinkOrRename(c, me, Succeeded(c))
  <2>1. c \notin fdmark => \A r : MarkedBy(db.files, c, r) => r = me.p
    BY <1>6, <1>8
  <2>. QED BY <1>1, <1>3, <1>4, <1>5, <1>8, <2>1, LinkOrRenameInv
<1>9. CASE /\ me.mark2 /\ Send(c, Msg(c, "cancel_unlink", me.q, st2))
           /\ cl' = [cl EXCEPT ![c] = [me EXCEPT !.pc = "rename_cancel"]]
  <2>1. PICK m, w : /\ m = Msg(c, "cancel_unlink", me.q, st2) /\ Send(c, m)
                    /\ w = [dir |-> "request", msg |-> m]
    BY <1>9
  <2>2. IsRequest(c, m) /\ m.op = "cancel_unlink" /\ m.path = me.q
    BY <1>5, <2>1, MsgRequest DEF PathsOrNone
  <2>3. PICK x : x = [me EXCEPT !.pc = "rename_cancel"] /\ cl' = [cl EXCEPT ![c] = x]
    BY <1>9, Zenon
  <2>4. /\ x.fd = me.fd /\ x.p = me.p /\ x.q = me.q /\ x.mark = me.mark /\ IsCall(x)
        /\ x.pc = "rename_cancel"
    <3>1. x = [me EXCEPT !.pc = "rename_cancel"]
      BY <2>3
    <3>. QED BY <1>4, <3>1, Zenon DEF IsCall
  <2>5. Writes(c, "rename_cancel") /\ cl'[c] = x
    <3>1. cl' = [cl EXCEPT ![c] = x]
      BY <2>3
    <3>. QED BY <2>4, <3>1, WholeCall
  <2>6. w.dir = "request" /\ Request(w) = m
    BY <2>1, SentRequest
  <2>7. CallInv(x, w)
    BY <1>5, <2>2, <2>4, <2>6 DEF CallInv, Waits, RenameSteps
  <2>8. c \notin fdmark => MarkInv(db.files, c, x, w)
    BY <1>6, <2>4, <2>6 DEF MarkInv, DeletingIn
  <2>. QED BY <1>1, <1>3, <1>5, <2>1, <2>2, <2>4, <2>5, <2>7, <2>8, MarkSend DEF PathsOrNone
<1>10. CASE /\ ~me.mark2 /\ me.mark /\ Send(c, Msg(c, "cancel_unlink", me.p, st))
            /\ cl' = [cl EXCEPT ![c] = [me EXCEPT !.pc = "last"]]
  <2>1. PICK m : m = Msg(c, "cancel_unlink", me.p, st) /\ Send(c, m)
    BY <1>10
  <2>2. IsRequest(c, m) /\ m.op = "cancel_unlink" /\ m.path = me.p
    BY <1>5, <2>1, MsgRequest DEF PathsOrNone
  <2>3. PICK x : x = [me EXCEPT !.pc = "last"] /\ cl' = [cl EXCEPT ![c] = x]
    BY <1>10, Zenon
  <2>4. x.fd = me.fd /\ x.p = me.p /\ x.q = me.q /\ IsCall(x) /\ x.pc = "last"
    <3>1. x = [me EXCEPT !.pc = "last"]
      BY <2>3
    <3>. QED BY <1>4, <3>1, Zenon DEF IsCall
  <2>5. Writes(c, "last") /\ cl'[c] = x
    <3>1. cl' = [cl EXCEPT ![c] = x]
      BY <2>3
    <3>. QED BY <2>4, <3>1, WholeCall
  <2>6. c \notin fdmark => \A r : MarkedBy(db.files, c, r) => r = me.p
    BY <1>6, <1>10
  <2>. QED BY <1>1, <1>3, <1>5, <2>1, <2>2, <2>4, <2>5, <2>6, LastSend DEF PathsOrNone
<1>11. CASE ~me.mark2 /\ ~me.mark /\ SendNothing(c) /\ Finish(c)
  <2>1. NotMarked(c)
    BY <1>6, <1>11 DEF NotMarked
  <2>. QED BY <1>3, <1>11, <2>1, FinishSilent
<1>. QED BY <1>2, <1>7, <1>8, <1>9, <1>10, <1>11, Zenon DEF AfterRename
-----------------------------------------------------------------------------
(* The theorem *)

LEMMA StutterInv ==
  ASSUME IInv, UNCHANGED vars
  PROVE  IInv'
  BY DEF IInv, vars

LEMMA ClientInv ==
  ASSUME IInv, NEW c \in Clients, ClientStep(c)
  PROVE  IInv'
<1>1. ASSUME NEW p \in Own[c],
             \/ StartUnlink(c, p) \/ StartRmdir(c, p) \/ StartOpen(c, p)
             \/ RealMkdir(c, p) \/ RealSymlink(c, p) \/ RealMkdtemp(c, p)
             \/ RealMkfifo(c, p) \/ RealMkstemp(c, p)
             \/ RealMknod(c, p) \/ OneRequest(c, p) \/ StartChown(c, p)
      PROVE  IInv'
  <2>1. /\ Plain("mkdir") /\ Plain("symlink") /\ Plain("mkdtemp") /\ Plain("mkfifo")
    BY DEF Plain, RenameSteps
  <2>2. CASE StartUnlink(c, p) \/ StartRmdir(c, p)
    BY <2>2, MarkFirstInv DEF StartUnlink, StartRmdir
  <2>3. CASE \/ RealMkdir(c, p) \/ RealSymlink(c, p) \/ RealMkdtemp(c, p) \/ RealMkfifo(c, p)
    BY <2>1, <2>3, RealMakeInv DEF RealMkdir, RealSymlink, RealMkdtemp, RealMkfifo
  <2>. QED BY <1>1, <2>2, <2>3, StartOpenInv, RealMkstempInv, RealMknodInv, PathRequestInv,
              StartChownInv
<1>2. ASSUME NEW p \in Own[c], NEW q \in Own[c], RealLink(c, p, q) \/ StartRename(c, p, q)
      PROVE  IInv'
  BY <1>2, RealLinkInv, StartRenameInv
<1>3. CASE RealUnlink(c) \/ RealRmdir(c)
  BY <1>3, RemoveInv DEF RealUnlink, RealRmdir
<1>4. CASE MkdirStat(c) \/ SymlinkStat(c) \/ MkdtempStat(c) \/ MkfifoStat(c)
  <2>1. /\ Plain("mkdir") /\ Plain("symlink") /\ Plain("mkdtemp") /\ Plain("mkfifo")
        /\ \A op \in {"mkdir", "symlink", "creat", "mknod"} : op \notin MarkRequests
    BY DEF Plain, RenameSteps, MarkRequests
  <2>. QED BY <1>4, <2>1, ReportMadeInv DEF MkdirStat, SymlinkStat, MkdtempStat, MkfifoStat
<1>5. CASE \/ LastAnswer(c) \/ RealOpen(c) \/ OpenStat(c) \/ OpenCreated(c) \/ Close(c)
           \/ MkstempStat(c) \/ LinkStat(c) \/ LinkKnown(c)
           \/ OneFdRequest(c) \/ StartFchown(c) \/ ChownKnown(c)
  BY <1>5, LastAnswerInv, RealOpenInv, OpenStatInv, OpenCreatedInv, CloseInv,
     MkstempStatInv, LinkStatInv, LinkKnownInv, FdRequestInv, StartFchownInv, ChownKnownInv
<1>6. CASE \/ RenameMarkOld(c) \/ RenameStat(c) \/ RealRename(c)
           \/ RenameCancelOld(c) \/ RenameDid(c) \/ RenameLinked(c)
  BY <1>6, RenameMarkOldInv, RenameStatInv, RealRenameInv, RenameCancelOldInv, RenameDidInv,
     RenameLinkedInv
<1>. QED BY <1>1, <1>2, <1>3, <1>4, <1>5, <1>6, Zenon DEF ClientStep

\* The inductive invariant holds throughout: what each step of a client's call
\* waits for, and what the answers it got say about the marks it has set.
THEOREM Invariant == Spec => []IInv
<1>1. Init => IInv
  BY InitInv
<1>2. IInv /\ [Next]_vars => IInv'
  <2>. SUFFICES ASSUME IInv, [Next]_vars PROVE IInv'
    OBVIOUS
  <2>1. ASSUME NEW c \in Clients,
               ClientStep(c) \/ Serve(c) \/ LoseAnswer(c) \/ Abort(c) \/ Crash(c)
        PROVE  IInv'
    BY <2>1, ClientInv, ServeInv, LoseAnswerInv, AbortInv, CrashInv
  <2>2. CASE AtRest \/ UNCHANGED vars
    BY <2>2, StutterInv DEF AtRest
  <2>. QED BY <2>1, <2>2 DEF Next
<1>. QED BY <1>1, <1>2, PTL DEF Spec

\* A row is marked for deletion only on behalf of a client that is in the middle
\* of deleting or renaming that path, or that died there: whatever the clients
\* call, whoever is killed, and however many answers are lost, pseudo_op() and
\* the wrappers of unlink, rmdir and rename leave no mark behind.
THEOREM MarksLeaveNoTrace == Spec => []MarksOwned
  BY Invariant, InvMarksOwned, PTL
=============================================================================
