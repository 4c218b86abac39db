-------------------------- MODULE LoneClient_proof -------------------------
(***************************************************************************)
(* Theorems about PseudoClients when one process has the files to itself.  *)
(* Then the database is exact: whenever the process is between two calls,  *)
(* the rows are the names that are really there, with the inode, owner and *)
(* mode that the calls of the process gave them, and the attributes are    *)
(* those it set.  So no request is ever refused, and every answer is what  *)
(* the process did before.                                                 *)
(*                                                                         *)
(* In the middle of a call the database lags behind the directory.  The    *)
(* invariant says, for each step of each call, which directory the         *)
(* database describes (the real one without the name that was just made,   *)
(* or with the name that was just removed) and which rows are marked.      *)
(* While a request is on its way the database may be the one before it or  *)
(* the one after it, since an answer can be lost and the request sent      *)
(* again.                                                                  *)
(***************************************************************************)
EXTENDS PseudoClients_proof, FiniteSetTheorems, WellFoundedInduction

FdCalls == {"fstat", "fchmod", "fchown", "fchown_part"}

\* One process; all files are its own; it makes no calls by descriptor; it
\* renames only if no path contains another; a RENAME is not sent twice.
Lone(c) ==
    /\ Clients = {c} /\ Own[c] = Paths /\ InitialFiles = {} /\ IsFiniteSet(Paths)
    /\ Calls \cap FdCalls = {}
    /\ "rename" \in Calls => \A p \in Paths : Len(p) = 1
    /\ "rename" \in NotResent

LoneClient == \E c : Lone(c)

(***************************************************************************)
(* The database d describes the directory D, with the rows of the paths in *)
(* M marked by c, the owners and modes mt and the attributes xm.           *)
(***************************************************************************)
IsMode(mode) == mode = [type |-> mode.type, perm |-> mode.perm]

IsAttr(y) == y = [id |-> y.id, ino |-> y.ino, name |-> y.name, value |-> y.value]

\* the ids of a table are numbers, and have a largest one
Numbered(T) == (\A t \in T : t.id \in Nat) /\ \E n \in Nat : \A t \in T : t.id <= n

RowRight(r, D, M, c, mt) ==
    /\ IsRow(r) /\ r.path \in Paths /\ r.ino = D[r.path] /\ r.ino \in Inodes
    /\ mt[r.ino] = Tracked(r.uid, r.mode)
    /\ r.deleting = IF r.path \in M THEN c ELSE Nobody

FilesExact(F, D, M, c, mt) ==
    /\ \A r \in F : RowRight(r, D, M, c, mt)
    /\ \A r, s \in F : r.path = s.path => r = s
    /\ \A p \in Paths : D[p] # NoInode => \E r \in F : r.path = p
    /\ Numbered(F)

\* the attributes of inode i, as pairs of a name and a value
Pairs(X, i) == {<< y.name, y.value >> : y \in {z \in X : z.ino = i}}

InDir(D, i) == \E p \in Paths : D[p] = i

XattrsExact(X, D, xm) ==
    /\ \A y \in X : IsAttr(y) /\ y.ino \in Inodes /\ InDir(D, y.ino)
    /\ \A y, z \in X : y.ino = z.ino /\ y.name = z.name => y = z
    /\ \A p \in Paths : D[p] # NoInode => Pairs(X, D[p]) = xm[D[p]]
    /\ Numbered(X)

Exact(d, D, M, c, mt, xm) ==
    IsDB(d) /\ FilesExact(d.files, D, M, c, mt) /\ XattrsExact(d.xattrs, D, xm)

Dirs == [Paths -> Inodes \cup {NoInode}]

\* the directory D with i at p, and without p
Put(D, p, i) == [D EXCEPT ![p] = i]
Without(D, p) == Put(D, p, NoInode)

\* the inodes of D have the same owner and mode in both
Agree(D, mt, mt2) == \A q \in Paths : D[q] # NoInode => mt2[D[q]] = mt[D[q]]

(* The file system and the ghosts *)

Alike(mode, k) == (IsDir(mode) <=> k = "dir") /\ (IsLnk(mode) <=> k = "lnk")

MetaRight(i) ==
    \/ meta[i] = Untracked
    \/ /\ meta[i] = Tracked(meta[i].uid, meta[i].mode) /\ IsMode(meta[i].mode)
       /\ kind[i] # "free" => Alike(meta[i].mode, kind[i])

FsRight ==
    /\ dir \in Dirs
    /\ DOMAIN kind = Inodes /\ DOMAIN meta = Inodes /\ DOMAIN xmeta = Inodes
    /\ \A p \in Paths : dir[p] # NoInode => kind[dir[p]] # "free"
    /\ \A i \in Inodes : MetaRight(i)

\* no other path has the inode of p
Sole(p) == \A q \in Paths : dir[q] = dir[p] => q = p

\* a stat buffer, or a message, that was filled in from path p
Knows(st, p) ==
    /\ st.ino = dir[p]
    /\ st.ino # NoInode =>
          /\ IsMode(st.mode) /\ Alike(st.mode, kind[st.ino])
          /\ st.nlink = 1 => Sole(p)

IsStat(st) == st = [ino |-> st.ino, uid |-> st.uid, mode |-> st.mode, nlink |-> st.nlink]

DbIs(D, M, c) == Exact(db, D, M, c, meta, xmeta)

\* a file was made at p, and the server does not know of it
Fresh(p, c) ==
    /\ p \in Paths /\ dir[p] # NoInode /\ Sole(p) /\ xmeta[dir[p]] = {}
    /\ DbIs(Without(dir, p), {}, c)

(* The steps of a call that wait for no answer *)

Making == {"mkdir", "symlink", "mkdtemp", "mkfifo", "mkstemp"}

StepRight(x, c) ==
    /\ x.pc \in {"idle", "open", "open_stat", "link"} \cup Making
    /\ x.pc \in {"idle", "open"} => DbIs(dir, {}, c)
    /\ x.pc = "open" => x.p \in Paths /\ (x.mark <=> Exists(x.p))
    /\ x.pc = "open_stat" =>
          x.p \in Paths /\ Exists(x.p) /\ IF x.mark THEN DbIs(dir, {}, c) ELSE Fresh(x.p, c)
    /\ x.pc \in Making => Fresh(x.p, c)
    /\ x.pc = "mkstemp" => x.fd.ino = dir[x.p]
    /\ x.pc = "link" => /\ x.p \in Paths /\ x.q \in Paths /\ x.p # x.q
                        /\ Exists(x.p) /\ dir[x.q] = dir[x.p]
                        /\ DbIs(Without(dir, x.q), {}, c)

(* The requests: what the message says, and the database before and after it *)

Makes == {"creat", "mkdir", "mknod", "symlink"}
Asks  == {"stat", "chown", "chmod", "set_xattr", "get_xattr", "list_xattr",
          "remove_xattr", "open"}
Renaming == {"rename_old", "rename_stat", "rename_real", "rename_cancel"}

RequestRight(x, m) ==
    /\ m.path \in Paths /\ m.ino \in Inodes \cup {NoInode}
    /\ m.op # "did_unlink" => Knows(m, m.path)
    /\ m.op \notin {"may_unlink", "stat"} => m.ino # NoInode
    /\ m.op \in Makes => Sole(m.path) /\ xmeta[m.ino] = {}
    /\ m.op = "link" => \E p \in Paths : p # m.path /\ dir[p] = m.ino
    /\ m.op = "chown" => m.uid = Overridden(meta[m.ino].uid, m.args)
    /\ m.op = "did_unlink" => m.path = x.p \/ x.pc = "rename_did"
    /\ m.op = "rename" => /\ m.oldpath \in Paths /\ m.oldpath # m.path
                          /\ dir[m.oldpath] = NoInode

\* which request a step waits for, and what the call remembers
CallRight(x, m) ==
    /\ x.pc \in {"unlink", "rmdir", "open_created", "link_known", "chown", "last",
                 "rename_did"} \cup Renaming
    /\ x.pc \in {"unlink", "rmdir"} =>
          m.op = "may_unlink" /\ m.path = x.p /\ Knows(x.st, x.p) /\ m.ino # NoInode
    /\ x.pc = "open_created" => m.op = "creat" /\ m.path = x.p /\ Knows(x.st, x.p)
    /\ x.pc = "link_known" =>
          /\ m.op = "stat" /\ m.path = x.p /\ m.ino # NoInode
          /\ Knows(x.st, x.p) /\ IsStat(x.st)
          /\ x.q \in Paths /\ x.p # x.q /\ dir[x.q] = m.ino
    /\ x.pc = "chown" =>
          /\ m.op = "stat" /\ m.path = x.p /\ m.ino # NoInode
          /\ Knows(x.st, x.p) /\ IsStat(x.st)
    /\ x.pc \in Renaming =>
          /\ "rename" \in Calls
          /\ x.p \in Paths /\ x.q \in Paths /\ Knows(x.st2, x.q)
          /\ x.pc # "rename_cancel" \/ Exists(x.p) => Knows(x.st, x.p)
          /\ Exists(x.p) /\ Exists(x.q) => dir[x.p] # dir[x.q]
    /\ x.pc = "rename_old" => m.op = "may_unlink" /\ m.path = x.q
    /\ x.pc = "rename_stat" => m.op = "may_unlink" /\ m.path = x.p
    /\ x.pc = "rename_real" => m.op = "stat" /\ m.path = x.p
    /\ x.pc = "rename_cancel" => m.op = "cancel_unlink" /\ m.path = x.q
    /\ x.pc \in {"rename_stat", "rename_real"} => (x.mark2 <=> Exists(x.q))
    /\ x.pc \in {"rename_real", "rename_cancel"} => (x.mark <=> Exists(x.p))
    /\ x.pc = "rename_did" =>
          /\ "rename" \in Calls
          /\ m.op = "did_unlink" /\ m.path = x.q /\ x.mark = TRUE
          /\ x.p \in Paths /\ x.q \in Paths /\ x.p # x.q
          /\ dir[x.p] = NoInode /\ Exists(x.q) /\ Knows(x.st, x.q)
    /\ x.pc = "last" => m.op \in Asks \cup Makes \cup
                                 {"link", "did_unlink", "cancel_unlink", "rename"}
    /\ x.pc = "last" /\ m.op = "did_unlink" => dir[m.path] = NoInode
    /\ m.op = "rename" => x.pc = "last" /\ "rename" \in Calls

DirBefore(x, m) ==
    IF m.op \in Makes \cup {"link"} THEN Without(dir, m.path)
    ELSE IF m.op = "did_unlink" /\ x.pc = "last" THEN Put(dir, m.path, m.ino)
    ELSE IF m.op = "did_unlink" THEN Put(Put(dir, x.p, x.st.ino), m.path, m.ino)
    ELSE IF m.op = "rename" THEN Without(Put(dir, m.oldpath, m.ino), m.path)
    ELSE IF x.pc = "link_known" THEN Without(dir, x.q)
    ELSE dir

DirAfter(x, m) ==
    IF x.pc = "rename_did" THEN Without(Put(dir, x.p, x.st.ino), x.q)
    ELSE IF x.pc = "link_known" THEN Without(dir, x.q)
    ELSE dir

MarksBefore(x, m) ==
    IF x.pc = "rename_stat" THEN {x.q}
    ELSE IF x.pc \in {"rename_real", "rename_did", "rename_cancel"} THEN {x.p, x.q}
    ELSE IF x.pc = "last" /\ m.op \in {"did_unlink", "cancel_unlink"} THEN {m.path}
    ELSE IF x.pc = "last" /\ m.op = "rename" THEN {m.oldpath}
    ELSE {}

MarksAfter(x, m) ==
    IF x.pc \in {"unlink", "rmdir", "rename_did", "rename_cancel"} THEN {x.p}
    ELSE IF x.pc = "rename_old" THEN {x.q}
    ELSE IF x.pc \in {"rename_stat", "rename_real"} THEN {x.p, x.q}
    ELSE {}

Before(x, m, c) == DbIs(DirBefore(x, m), MarksBefore(x, m), c)
After(x, m, c) ==
    /\ DbIs(DirAfter(x, m), MarksAfter(x, m), c)
    /\ m.op = "creat" => meta[m.ino] = Tracked(m.uid, m.mode)

\* what the answer a to the request m says
AnswerRight(m, a) ==
    /\ a.result # "abort"
    /\ m.op = "may_unlink" => (a.result = "succeed" <=> m.ino # NoInode)
    /\ m.op = "stat" /\ m.ino = NoInode => a.result = "fail"
    /\ m.op = "stat" /\ m.ino # NoInode =>
          a.result = "succeed" /\ meta[m.ino] = Tracked(a.uid, a.mode)
    /\ m.op = "get_xattr" =>
          IF a.result = "succeed" THEN << m.name, a.value >> \in xmeta[m.ino]
          ELSE \A y \in xmeta[m.ino] : y[1] # m.name
    /\ m.op = "list_xattr" => a.value = {y[1] : y \in xmeta[m.ino]}

ConnectionRight(x, w, c) ==
    /\ w.dir = "none" => StepRight(x, c)
    /\ w.dir # "none" => RequestRight(x, Request(w)) /\ CallRight(x, Request(w))
    /\ w.dir = "request" =>
          \/ Before(x, w.msg, c)
          \/ w.msg.op # "rename" /\ After(x, w.msg, c)
    /\ w.dir = "answer" => After(x, w.request, c) /\ AnswerRight(w.request, w.msg)

LInv(c) ==
    /\ life[c] # "aborted"
    /\ life[c] # "up" => chan[c].dir # "answer"
    /\ life[c] = "up" => FsRight /\ ConnectionRight(cl[c], chan[c], c)

-----------------------------------------------------------------------------
(* Tables: the next id is a number, and the first of several rows exists *)

LEMMA LeastNumber ==
  ASSUME NEW S, S \subseteq Nat, S # {}
  PROVE  \E n \in S : \A k \in S : n <= k
<1>1. PICK n \in S : \A k \in S : ~(<< k, n >> \in OpToRel(<, Nat))
  BY WFMin, NatLessThanWellFounded, Zenon
<1>2. \A k \in S : ~(k < n)
  BY <1>1 DEF OpToRel
<1>. QED BY <1>2

LEMMA NextIdNumber ==
  ASSUME NEW T, Numbered(T)
  PROVE  NextId(T) \in Nat /\ \A t \in T : t.id < NextId(T)
<1>1. CASE T = {}
  BY <1>1 DEF NextId
<1>2. CASE T # {}
  <2>1. PICK n \in Nat : \A t \in T : t.id <= n
    BY DEF Numbered
  <2>. DEFINE S == {n - t.id : t \in T}
  <2>2. S \subseteq Nat /\ S # {}
    BY <1>2, <2>1 DEF Numbered
  <2>3. PICK k \in S : \A j \in S : k <= j
    <3>. HIDE DEF S
    <3>. QED BY <2>2, LeastNumber
  <2>4. PICK t \in T : k = n - t.id
    BY <2>3
  <2>5. \A s \in T : s.id <= t.id
    <3>1. SUFFICES ASSUME NEW s \in T PROVE s.id <= t.id
      OBVIOUS
    <3>2. n - s.id \in S
      OBVIOUS
    <3>3. n - t.id <= n - s.id
      BY <2>3, <2>4, <3>2
    <3>4. n \in Nat /\ s.id \in Nat /\ t.id \in Nat
      BY DEF Numbered
    <3>. QED BY <3>3, <3>4
  <2>. DEFINE I == {r.id : r \in T}
              big == CHOOSE i \in I : \A r \in T : r.id <= i
  <2>6. t.id \in I /\ \A r \in T : r.id <= t.id
    BY <2>5
  <2>7. big \in I /\ \A r \in T : r.id <= big
    <3>. HIDE DEF I
    <3>. QED BY <2>6, Zenon
  <2>8. big \in Nat
    BY <2>7 DEF Numbered
  <2>9. NextId(T) = 1 + big
    BY <1>2 DEF NextId
  <2>. HIDE DEF big
  <2>. QED BY <2>7, <2>8, <2>9 DEF Numbered
<1>. QED BY <1>1, <1>2

LEMMA FirstRow ==
  ASSUME NEW T, T # {}, \A t \in T : t.id \in Nat
  PROVE  FirstById(T) \in T
<1>. DEFINE S == {t.id : t \in T}
<1>1. S \subseteq Nat /\ S # {}
  OBVIOUS
<1>2. PICK n \in S : \A k \in S : n <= k
  <2>. HIDE DEF S
  <2>. QED BY <1>1, LeastNumber
<1>3. PICK t \in T : n = t.id
  BY <1>2
<1>4. \A s \in T : t.id <= s.id
  BY <1>2, <1>3
<1>. QED BY <1>4, Zenon DEF FirstById

LEMMA NumberedSubset ==
  ASSUME NEW T, Numbered(T), NEW S, \A s \in S : \E t \in T : s.id = t.id
  PROVE  Numbered(S)
<1>1. PICK n \in Nat : \A t \in T : t.id <= n
  BY DEF Numbered
<1>2. \A s \in S : s.id \in Nat /\ s.id <= n
  BY <1>1 DEF Numbered
<1>. QED BY <1>2 DEF Numbered

LEMMA NumberedAdd ==
  ASSUME NEW T, Numbered(T), NEW t, t.id = NextId(T)
  PROVE  Numbered(T \cup {t})
<1>1. NextId(T) \in Nat /\ \A s \in T : s.id < NextId(T)
  BY NextIdNumber
<1>2. PICK n : n = NextId(T)
  OBVIOUS
<1>3. \A s \in T \cup {t} : s.id \in Nat /\ s.id <= n
  BY <1>1, <1>2 DEF Numbered
<1>. QED BY <1>1, <1>2, <1>3 DEF Numbered

-----------------------------------------------------------------------------
(* The rows and the directory *)

LEMMA NoInodeNot == NoInode \notin Inodes
  BY InodesAssumption DEF NoInode

LEMMA PutDir ==
  ASSUME NEW D \in Dirs, NEW p \in Paths, NEW i \in Inodes
  PROVE  /\ Put(D, p, i) \in Dirs /\ Put(D, p, i)[p] = i
         /\ \A q \in Paths : q # p => Put(D, p, i)[q] = D[q]
  BY DEF Dirs, Put

LEMMA WithoutDir ==
  ASSUME NEW D \in Dirs, NEW p \in Paths
  PROVE  /\ Without(D, p) \in Dirs /\ Without(D, p)[p] = NoInode
         /\ \A q \in Paths : q # p => Without(D, p)[q] = D[q]
  BY DEF Dirs, Put, Without

LEMMA SameDir ==
  ASSUME NEW D \in Dirs, NEW E \in Dirs, \A p \in Paths : D[p] = E[p]
  PROVE  D = E
  BY DEF Dirs

\* Exact speaks only of the names and inodes that D has
LEMMA ExactSame ==
  ASSUME NEW d, NEW D, NEW M, NEW c, NEW mt, NEW xm, Exact(d, D, M, c, mt, xm),
         NEW N, NEW mt2, NEW xm2,
         \A p \in Paths : D[p] # NoInode =>
             /\ mt2[D[p]] = mt[D[p]] /\ xm2[D[p]] = xm[D[p]] /\ (p \in M <=> p \in N)
  PROVE  Exact(d, D, N, c, mt2, xm2)
<1>1. ASSUME NEW r \in d.files PROVE RowRight(r, D, N, c, mt2)
  BY NoInodeNot DEF Exact, FilesExact, RowRight
<1>2. FilesExact(d.files, D, N, c, mt2)
  BY <1>1 DEF Exact, FilesExact
<1>3. XattrsExact(d.xattrs, D, xm2)
  BY DEF Exact, XattrsExact
<1>. QED BY <1>2, <1>3 DEF Exact

\* the row that pdb_link_file() inserts, and the rows of the other paths
NewRow(F, m) ==
    [id |-> NextId(F), path |-> m.path, ino |-> m.ino, uid |-> m.uid, mode |-> m.mode,
     deleting |-> Nobody]
RowsNotAt(F, p) == {r \in F : r.path # p}

LEMMA AddRow ==
  ASSUME NEW F, NEW D \in Dirs, NEW M, NEW c, NEW mt, FilesExact(F, D, M, c, mt),
         NEW m, m.path \in Paths, D[m.path] = NoInode, m.path \notin M, m.ino \in Inodes,
         NEW mt2, mt2[m.ino] = Tracked(m.uid, m.mode), Agree(D, mt, mt2)
  PROVE  FilesExact(F \cup {NewRow(F, m)}, Put(D, m.path, m.ino), M, c, mt2)
<1>0. PICK r, E, p, i : /\ r = NewRow(F, m) /\ E = Put(D, m.path, m.ino)
                        /\ p = m.path /\ i = m.ino
  OBVIOUS
<1>1. /\ IsRow(r) /\ r.id = NextId(F) /\ r.path = p /\ r.ino = i /\ r.uid = m.uid
      /\ r.mode = m.mode /\ r.deleting = Nobody
  BY <1>0 DEF IsRow, NewRow
<1>2. E[p] = i /\ \A q \in Paths : q # p => E[q] = D[q]
  BY <1>0, PutDir
<1>3. RowRight(r, E, M, c, mt2)
  BY <1>0, <1>1, <1>2 DEF RowRight
<1>4. \A s \in F : s.path \in Paths /\ D[s.path] # NoInode
  BY NoInodeNot DEF FilesExact, RowRight
<1>5. ASSUME NEW s \in F PROVE s.path # p /\ RowRight(s, E, M, c, mt2)
  <2>1. RowRight(s, D, M, c, mt)
    BY DEF FilesExact
  <2>2. s.path # p
    BY <1>0, <1>4
  <2>. QED BY <1>2, <1>4, <2>1, <2>2 DEF RowRight, Agree
<1>6. Numbered(F \cup {r})
  <2>1. Numbered(F)
    BY DEF FilesExact
  <2>. QED BY <1>1, <2>1, NumberedAdd
<1>7. \A s, t \in F \cup {r} : s.path = t.path => s = t
  BY <1>1, <1>5 DEF FilesExact
<1>8. \A q \in Paths : E[q] # NoInode => \E s \in F \cup {r} : s.path = q
  BY <1>1, <1>2 DEF FilesExact
<1>9. FilesExact(F \cup {r}, E, M, c, mt2)
  BY <1>3, <1>5, <1>6, <1>7, <1>8 DEF FilesExact
<1>. QED BY <1>0, <1>9, Zenon

LEMMA DropRow ==
  ASSUME NEW F, NEW D \in Dirs, NEW M, NEW c, NEW mt, FilesExact(F, D, M, c, mt),
         NEW p \in Paths
  PROVE  FilesExact(RowsNotAt(F, p), Without(D, p), M, c, mt)
<1>0. PICK G, E : G = RowsNotAt(F, p) /\ E = Without(D, p)
  OBVIOUS
<1>g. G = {r \in F : r.path # p}
  BY <1>0 DEF RowsNotAt
<1>1. E[p] = NoInode /\ \A q \in Paths : q # p => E[q] = D[q]
  BY <1>0, WithoutDir
<1>2. \A r \in G : RowRight(r, E, M, c, mt)
  BY <1>g, <1>1 DEF FilesExact, RowRight
<1>3. \A r, s \in G : r.path = s.path => r = s
  BY <1>g DEF FilesExact
<1>4. \A q \in Paths : E[q] # NoInode => \E r \in G : r.path = q
  BY <1>g, <1>1 DEF FilesExact
<1>5. Numbered(G)
  <2>1. Numbered(F)
    BY DEF FilesExact
  <2>2. \A s \in G : \E t \in F : s.id = t.id
    BY <1>g
  <2>. QED BY <2>1, <2>2, NumberedSubset
<1>6. FilesExact(G, E, M, c, mt)
  BY <1>2, <1>3, <1>4, <1>5 DEF FilesExact
<1>. QED BY <1>0, <1>6, Zenon

\* an UPDATE: every row r becomes g[r]
Rewrites(F, G, g, E, N, c, mt) ==
    /\ G = {g[r] : r \in F}
    /\ \A r \in F : RowRight(g[r], E, N, c, mt) /\ g[r].id = r.id
    /\ \A r, s \in F : g[r].path = g[s].path => r.path = s.path
    /\ \A p \in Paths : E[p] # NoInode => \E r \in F : g[r].path = p

LEMMA Rewritten ==
  ASSUME NEW F, NEW D, NEW M, NEW c, NEW mt, FilesExact(F, D, M, c, mt),
         NEW g, NEW G, NEW E, NEW N, NEW mt2, Rewrites(F, G, g, E, N, c, mt2)
  PROVE  FilesExact(G, E, N, c, mt2)
<1>0. /\ G = {g[r] : r \in F}
      /\ \A r \in F : RowRight(g[r], E, N, c, mt2) /\ g[r].id = r.id
      /\ \A r, s \in F : g[r].path = g[s].path => r.path = s.path
      /\ \A p \in Paths : E[p] # NoInode => \E r \in F : g[r].path = p
  BY DEF Rewrites
<1>1. \A s \in G : RowRight(s, E, N, c, mt2)
  BY <1>0
<1>2. ASSUME NEW s \in G, NEW t \in G, s.path = t.path PROVE s = t
  <2>1. PICK r \in F : s = g[r]
    BY <1>0
  <2>2. PICK q \in F : t = g[q]
    BY <1>0
  <2>3. r = q
    BY <1>0, <1>2, <2>1, <2>2 DEF FilesExact
  <2>. QED BY <2>1, <2>2, <2>3
<1>3. \A p \in Paths : E[p] # NoInode => \E s \in G : s.path = p
  BY <1>0
<1>4. Numbered(G)
  <2>1. Numbered(F)
    BY DEF FilesExact
  <2>2. \A s \in G : \E t \in F : s.id = t.id
    BY <1>0
  <2>. QED BY <2>1, <2>2, NumberedSubset
<1>. QED BY <1>1, <1>2, <1>3, <1>4 DEF FilesExact

\* the rows that the UPDATEs make
LEMMA MarkedRow ==
  ASSUME NEW r, IsRow(r), NEW u, NEW s, s = [r EXCEPT !.deleting = u]
  PROVE  /\ IsRow(s) /\ s.id = r.id /\ s.path = r.path /\ s.ino = r.ino
         /\ s.uid = r.uid /\ s.mode = r.mode /\ s.deleting = u
  BY Zenon DEF IsRow

LEMMA MarkRow ==
  ASSUME NEW F, NEW D, NEW M, NEW c, NEW mt, FilesExact(F, D, M, c, mt),
         NEW p, NEW k, NEW N, \A q : q # p => (q \in N <=> q \in M),
         k = IF p \in N THEN c ELSE Nobody
  PROVE  FilesExact(Marked(F, p, k), D, N, c, mt)
<1>. DEFINE g == [r \in F |-> IF r.path = p THEN [r EXCEPT !.deleting = k] ELSE r]
            G == Marked(F, p, k)
<1>1. G = {g[r] : r \in F}
  BY Zenon DEF Marked
<1>2. ASSUME NEW r \in F
      PROVE  RowRight(g[r], D, N, c, mt) /\ g[r].id = r.id /\ g[r].path = r.path
  <2>1. RowRight(r, D, M, c, mt) /\ IsRow(r)
    BY DEF FilesExact, RowRight
  <2>2. CASE r.path = p
    <3>1. g[r] = [r EXCEPT !.deleting = k]
      BY <2>2, Zenon
    <3>2. /\ IsRow(g[r]) /\ g[r].id = r.id /\ g[r].path = r.path /\ g[r].ino = r.ino
          /\ g[r].uid = r.uid /\ g[r].mode = r.mode /\ g[r].deleting = k
      <4>. HIDE DEF g
      <4>. QED BY <2>1, <3>1, MarkedRow
    <3>. HIDE DEF g
    <3>. QED BY <2>1, <2>2, <3>2 DEF RowRight
  <2>3. CASE r.path # p
    BY <2>1, <2>3 DEF RowRight
  <2>. QED BY <2>2, <2>3
<1>. HIDE DEF g, G
<1>3. \A q \in Paths : D[q] # NoInode => \E r \in F : g[r].path = q
  BY <1>2 DEF FilesExact
<1>4. Rewrites(F, G, g, D, N, c, mt)
  BY <1>1, <1>2, <1>3, Zenon DEF Rewrites
<1>5. FilesExact(G, D, N, c, mt)
  BY <1>4, Rewritten, Zenon
<1>. QED BY <1>5 DEF G

\* UPDATE files SET uid, mode WHERE ino = i
UpdatedRows(F, i, u, w) ==
    {IF r.ino = i THEN [r EXCEPT !.uid = u, !.mode = w] ELSE r : r \in F}

LEMMA UpdateRows ==
  ASSUME NEW F, NEW D, NEW M, NEW c, NEW mt, FilesExact(F, D, M, c, mt),
         NEW i, NEW u, NEW w, NEW mt2, mt2[i] = Tracked(u, w),
         \A j \in Inodes : j # i => mt2[j] = mt[j]
  PROVE  FilesExact(UpdatedRows(F, i, u, w), D, M, c, mt2)
<1>. DEFINE g == [r \in F |-> IF r.ino = i THEN [r EXCEPT !.uid = u, !.mode = w] ELSE r]
            G == UpdatedRows(F, i, u, w)
<1>1. G = {g[r] : r \in F}
  BY Zenon DEF UpdatedRows
<1>2. ASSUME NEW r \in F
      PROVE  RowRight(g[r], D, M, c, mt2) /\ g[r].id = r.id /\ g[r].path = r.path
  <2>1. RowRight(r, D, M, c, mt) /\ IsRow(r)
    BY DEF FilesExact, RowRight
  <2>2. CASE r.ino = i
    <3>1. g[r] = [r EXCEPT !.uid = u, !.mode = w]
      BY <2>2, Zenon
    <3>2. /\ IsRow(g[r]) /\ g[r].id = r.id /\ g[r].path = r.path /\ g[r].ino = r.ino
          /\ g[r].uid = u /\ g[r].mode = w /\ g[r].deleting = r.deleting
      <4>. HIDE DEF g
      <4>1. PICK s : s = g[r]
        OBVIOUS
      <4>2. s = [r EXCEPT !.uid = u, !.mode = w]
        BY <3>1, <4>1, Zenon
      <4>. QED BY <2>1, <4>1, <4>2, Zenon DEF IsRow
    <3>. HIDE DEF g
    <3>. QED BY <2>1, <2>2, <3>2 DEF RowRight
  <2>3. CASE r.ino # i
    BY <2>1, <2>3 DEF RowRight
  <2>. QED BY <2>2, <2>3
<1>. HIDE DEF g, G
<1>3. \A q \in Paths : D[q] # NoInode => \E r \in F : g[r].path = q
  BY <1>2 DEF FilesExact
<1>4. Rewrites(F, G, g, D, M, c, mt2)
  BY <1>1, <1>2, <1>3, Zenon DEF Rewrites
<1>5. FilesExact(G, D, M, c, mt2)
  BY <1>4, Rewritten, Zenon
<1>. QED BY <1>5 DEF G

LEMMA MovedName ==
  ASSUME NEW D \in Dirs, NEW p \in Paths, NEW q \in Paths, p # q, D[p] # NoInode
  PROVE  LET E == Put(Without(D, p), q, D[p])
         IN  /\ E \in Dirs /\ E[p] = NoInode /\ E[q] = D[p]
             /\ \A s \in Paths : s \notin {p, q} => E[s] = D[s]
  BY DEF Dirs, Put, Without

\* a rename of p to q: the row of p becomes the row of q, without its mark
LEMMA RenameRow ==
  ASSUME NEW F, NEW D \in Dirs, NEW M, NEW c, NEW mt, FilesExact(F, D, M, c, mt),
         NEW p \in Paths, NEW q \in Paths, p # q, D[p] # NoInode, D[q] = NoInode, q \notin M
  PROVE  FilesExact(RenamedExact(F, p, q), Put(Without(D, p), q, D[p]), M, c, mt)
<1>0. PICK E : E = Put(Without(D, p), q, D[p])
  OBVIOUS
<1>. DEFINE g == [r \in F |-> IF r.path = p THEN [r EXCEPT !.path = q, !.deleting = Nobody]
                              ELSE r]
            G == RenamedExact(F, p, q)
<1>1. G = {g[r] : r \in F}
  BY Zenon DEF RenamedExact
<1>2. E[p] = NoInode /\ E[q] = D[p] /\ \A s \in Paths : s \notin {p, q} => E[s] = D[s]
  BY <1>0, MovedName
<1>3. ASSUME NEW r \in F
      PROVE  /\ RowRight(g[r], E, M, c, mt) /\ g[r].id = r.id
             /\ r.path = p => g[r].path = q
             /\ r.path # p => g[r].path = r.path /\ r.path # q
  <2>1. RowRight(r, D, M, c, mt) /\ IsRow(r)
    BY DEF FilesExact, RowRight
  <2>2. CASE r.path = p
    <3>1. g[r] = [r EXCEPT !.path = q, !.deleting = Nobody]
      BY <2>2, Zenon
    <3>2. /\ IsRow(g[r]) /\ g[r].id = r.id /\ g[r].path = q /\ g[r].ino = r.ino
          /\ g[r].uid = r.uid /\ g[r].mode = r.mode /\ g[r].deleting = Nobody
      <4>. HIDE DEF g
      <4>1. PICK s : s = g[r]
        OBVIOUS
      <4>2. s = [r EXCEPT !.path = q, !.deleting = Nobody]
        BY <3>1, <4>1, Zenon
      <4>. QED BY <2>1, <4>1, <4>2, Zenon DEF IsRow
    <3>. HIDE DEF g
    <3>. QED BY <1>2, <2>1, <2>2, <3>2 DEF RowRight
  <2>3. CASE r.path # p
    <3>1. r.path # q
      BY <2>1, NoInodeNot DEF RowRight
    <3>. QED BY <1>2, <2>1, <2>3, <3>1 DEF RowRight
  <2>. QED BY <2>2, <2>3
<1>. HIDE DEF g, G
<1>4. \A r, s \in F : g[r].path = g[s].path => r.path = s.path
  BY <1>3
<1>5. \A s \in Paths : E[s] # NoInode => \E r \in F : g[r].path = s
  BY <1>2, <1>3 DEF FilesExact
<1>6. Rewrites(F, G, g, E, M, c, mt)
  BY <1>1, <1>3, <1>4, <1>5, Zenon DEF Rewrites
<1>7. FilesExact(G, E, M, c, mt)
  BY <1>6, Rewritten, Zenon
<1>. QED BY <1>0, <1>7, Zenon DEF G

(* The attributes and the directory *)

LEMMA GrowXattrs ==
  ASSUME NEW X, NEW D \in Dirs, NEW xm, XattrsExact(X, D, xm),
         NEW p \in Paths, D[p] = NoInode, NEW i \in Inodes, InDir(D, i) \/ xm[i] = {}
  PROVE  XattrsExact(X, Put(D, p, i), xm)
<1>0. PICK E : E = Put(D, p, i)
  OBVIOUS
<1>1. E[p] = i /\ \A q \in Paths : q # p => E[q] = D[q]
  BY <1>0, PutDir
<1>2. \A j \in Inodes : InDir(D, j) => InDir(E, j)
  BY <1>1, NoInodeNot DEF InDir
<1>3. Pairs(X, i) = xm[i]
  <2>1. CASE InDir(D, i)
    BY <2>1, NoInodeNot DEF InDir, XattrsExact
  <2>2. CASE ~InDir(D, i)
    <3>1. {z \in X : z.ino = i} = {}
      BY <2>2 DEF XattrsExact
    <3>. QED BY <2>2, <3>1 DEF Pairs
  <2>. QED BY <2>1, <2>2
<1>4. \A q \in Paths : E[q] # NoInode => Pairs(X, E[q]) = xm[E[q]]
  BY <1>1, <1>3 DEF XattrsExact
<1>5. XattrsExact(X, E, xm)
  BY <1>2, <1>4 DEF XattrsExact
<1>. QED BY <1>0, <1>5, Zenon

\* what pdb_clear_xattrs() leaves when the names are those of E
Needed(X, E, i) == {y \in X : y.ino = i => InDir(E, i)}

LEMMA ShrinkXattrs ==
  ASSUME NEW X, NEW D \in Dirs, NEW xm, XattrsExact(X, D, xm),
         NEW p \in Paths, NEW i, i = D[p] \/ D[p] = NoInode
  PROVE  XattrsExact(Needed(X, Without(D, p), i), Without(D, p), xm)
<1>0. PICK E, Y : E = Without(D, p) /\ Y = Needed(X, E, i)
  OBVIOUS
<1>y. Y = {y \in X : y.ino = i => InDir(E, i)}
  BY <1>0 DEF Needed
<1>1. E[p] = NoInode /\ \A q \in Paths : q # p => E[q] = D[q]
  BY <1>0, WithoutDir
<1>2. \A y \in Y : IsAttr(y) /\ y.ino \in Inodes /\ InDir(E, y.ino)
  <2>1. SUFFICES ASSUME NEW y \in Y PROVE InDir(E, y.ino)
    BY <1>y DEF XattrsExact
  <2>2. CASE y.ino = i
    BY <1>y, <2>2
  <2>3. CASE y.ino # i
    BY <1>y, <1>1, <2>3, NoInodeNot DEF XattrsExact, InDir
  <2>. QED BY <2>2, <2>3
<1>3. ASSUME NEW q \in Paths, E[q] # NoInode PROVE Pairs(Y, E[q]) = xm[E[q]]
  <2>1. q # p /\ D[q] = E[q]
    BY <1>1, <1>3
  <2>2. InDir(E, E[q])
    BY DEF InDir
  <2>3. {z \in Y : z.ino = E[q]} = {z \in X : z.ino = E[q]}
    BY <1>y, <2>2
  <2>4. Pairs(Y, E[q]) = Pairs(X, E[q])
    BY <2>3, Zenon DEF Pairs
  <2>. QED BY <1>3, <2>1, <2>4 DEF XattrsExact
<1>4. Numbered(Y)
  <2>1. Numbered(X)
    BY DEF XattrsExact
  <2>2. \A s \in Y : \E t \in X : s.id = t.id
    BY <1>y
  <2>. QED BY <2>1, <2>2, NumberedSubset
<1>5. XattrsExact(Y, E, xm)
  BY <1>y, <1>2, <1>3, <1>4 DEF XattrsExact
<1>. QED BY <1>0, <1>5, Zenon

LEMMA MoveXattrs ==
  ASSUME NEW X, NEW D \in Dirs, NEW xm, XattrsExact(X, D, xm),
         NEW p \in Paths, NEW q \in Paths, p # q, D[p] # NoInode, D[q] = NoInode
  PROVE  XattrsExact(X, Put(Without(D, p), q, D[p]), xm)
<1>0. PICK E : E = Put(Without(D, p), q, D[p])
  OBVIOUS
<1>1. E[p] = NoInode /\ E[q] = D[p] /\ \A s \in Paths : s \notin {p, q} => E[s] = D[s]
  BY <1>0, MovedName
<1>2. \A j \in Inodes : InDir(D, j) => InDir(E, j)
  BY <1>1, NoInodeNot DEF InDir
<1>3. ASSUME NEW s \in Paths, E[s] # NoInode PROVE Pairs(X, E[s]) = xm[E[s]]
  <2>1. \E t \in Paths : D[t] = E[s]
    BY <1>1, <1>3
  <2>. QED BY <1>3, <2>1 DEF XattrsExact
<1>4. XattrsExact(X, E, xm)
  BY <1>2, <1>3 DEF XattrsExact
<1>. QED BY <1>0, <1>4, Zenon

-----------------------------------------------------------------------------
(* The statements of FilesDB on an exact database *)

LEMMA HasFileInDir ==
  ASSUME NEW d, NEW D, NEW M, NEW c, NEW mt, FilesExact(d.files, D, M, c, mt), NEW i \in Inodes
  PROVE  HasFile(d, i) <=> InDir(D, i)
<1>1. ASSUME HasFile(d, i) PROVE InDir(D, i)
  BY <1>1 DEF HasFile, InDir, FilesExact, RowRight
<1>2. ASSUME InDir(D, i) PROVE HasFile(d, i)
  <2>1. PICK p \in Paths : D[p] = i
    BY <1>2 DEF InDir
  <2>2. PICK r \in d.files : r.path = p
    BY <2>1, NoInodeNot DEF FilesExact
  <2>. QED BY <2>1, <2>2 DEF HasFile, FilesExact, RowRight
<1>. QED BY <1>1, <1>2

WithFiles(d, G) == [d EXCEPT !.files = G]
WithXattrs(d, X) == [d EXCEPT !.xattrs = X]

LEMMA NewFiles ==
  ASSUME NEW d, IsDB(d), NEW G
  PROVE  /\ IsDB(WithFiles(d, G)) /\ WithFiles(d, G).files = G
         /\ WithFiles(d, G).xattrs = d.xattrs
<1>1. PICK e : e = WithFiles(d, G)
  OBVIOUS
<1>2. e = [d EXCEPT !.files = G]
  BY <1>1 DEF WithFiles
<1>3. IsDB(e) /\ e.files = G /\ e.xattrs = d.xattrs
  BY <1>2 DEF IsDB
<1>. QED BY <1>1, <1>3, Zenon

LEMMA NewXattrs ==
  ASSUME NEW d, IsDB(d), NEW X
  PROVE  /\ IsDB(WithXattrs(d, X)) /\ WithXattrs(d, X).files = d.files
         /\ WithXattrs(d, X).xattrs = X
<1>1. PICK e : e = WithXattrs(d, X)
  OBVIOUS
<1>2. e = [d EXCEPT !.xattrs = X]
  BY <1>1 DEF WithXattrs
<1>3. IsDB(e) /\ e.files = d.files /\ e.xattrs = X
  BY <1>2 DEF IsDB
<1>. QED BY <1>1, <1>3, Zenon

\* pdb_clear_xattrs() and pdb_check_xattrs() do the same
UsedXattrs(d, i) == {y \in d.xattrs : y.ino = i => HasFile(d, i)}

LEMMA Cleared ==
  ASSUME NEW d, IsDB(d), NEW i
  PROVE  /\ pdb_clear_xattrs(d, i) = WithXattrs(d, UsedXattrs(d, i))
         /\ pdb_check_xattrs(d, i) = WithXattrs(d, UsedXattrs(d, i))
<1>1. pdb_clear_xattrs(d, i) = WithXattrs(d, UsedXattrs(d, i))
  BY Zenon DEF pdb_clear_xattrs, WithXattrs, UsedXattrs
<1>2. CASE HasFile(d, i)
  <2>1. UsedXattrs(d, i) = d.xattrs
    BY <1>2 DEF UsedXattrs
  <2>2. pdb_check_xattrs(d, i) = d
    BY <1>2, Zenon DEF pdb_check_xattrs
  <2>3. WithXattrs(d, d.xattrs) = d
    <3>1. PICK e : e = [d EXCEPT !.xattrs = d.xattrs]
      OBVIOUS
    <3>2. e = d
      BY <3>1 DEF IsDB
    <3>. QED BY <3>1, <3>2, Zenon DEF WithXattrs
  <2>. QED BY <1>1, <2>1, <2>2, <2>3, Zenon
<1>3. CASE ~HasFile(d, i)
  BY <1>1, <1>3, Zenon DEF pdb_check_xattrs
<1>. QED BY <1>1, <1>2, <1>3

\* the row of one name is deleted, and the attributes of inode i if none needs them
Dropped(d, e, p) == IsDB(e) /\ e.files = RowsNotAt(d.files, p) /\ e.xattrs = d.xattrs

LEMMA DropName ==
  ASSUME NEW d, NEW D \in Dirs, NEW M, NEW c, NEW mt, NEW xm, Exact(d, D, M, c, mt, xm),
         NEW p \in Paths, NEW i \in Inodes, i = D[p] \/ D[p] = NoInode,
         NEW e, Dropped(d, e, p),
         NEW f, f = pdb_clear_xattrs(e, i) \/ f = pdb_check_xattrs(e, i)
  PROVE  Exact(f, Without(D, p), M, c, mt, xm)
<1>0. PICK E : E = Without(D, p)
  OBVIOUS
<1>1. FilesExact(e.files, E, M, c, mt)
  <2>1. FilesExact(d.files, D, M, c, mt)
    BY DEF Exact
  <2>2. FilesExact(RowsNotAt(d.files, p), Without(D, p), M, c, mt)
    BY <2>1, DropRow
  <2>. QED BY <1>0, <2>2, Zenon DEF Dropped
<1>2. IsDB(f) /\ f.files = e.files /\ f.xattrs = UsedXattrs(e, i)
  <2>1. IsDB(e)
    BY DEF Dropped
  <2>2. f = WithXattrs(e, UsedXattrs(e, i))
    BY <2>1, Cleared, Zenon
  <2>. QED BY <2>1, <2>2, NewXattrs, Zenon
<1>3. HasFile(e, i) <=> InDir(E, i)
  BY <1>1, HasFileInDir
<1>4. f.xattrs = Needed(d.xattrs, E, i)
  BY <1>2, <1>3 DEF Dropped, Needed, UsedXattrs
<1>5. XattrsExact(Needed(d.xattrs, Without(D, p), i), Without(D, p), xm)
  <2>1. XattrsExact(d.xattrs, D, xm)
    BY DEF Exact
  <2>. QED BY <2>1, ShrinkXattrs
<1>6. XattrsExact(f.xattrs, E, xm)
  BY <1>0, <1>4, <1>5, Zenon
<1>7. Exact(f, E, M, c, mt, xm)
  BY <1>1, <1>2, <1>6, Zenon DEF Exact
<1>. QED BY <1>0, <1>7, Zenon

LEMMA DbLink ==
  ASSUME NEW d, NEW D \in Dirs, NEW M, NEW c, NEW mt, NEW xm, Exact(d, D, M, c, mt, xm),
         NEW m, m.path \in Paths, D[m.path] = NoInode, m.path \notin M, m.ino \in Inodes,
         InDir(D, m.ino) \/ xm[m.ino] = {},
         NEW mt2, mt2[m.ino] = Tracked(m.uid, m.mode), Agree(D, mt, mt2)
  PROVE  Exact(pdb_link_file(d, m), Put(D, m.path, m.ino), M, c, mt2, xm)
<1>0. PICK E, G, e : /\ E = Put(D, m.path, m.ino) /\ e = pdb_link_file(d, m)
                     /\ G = d.files \cup {NewRow(d.files, m)}
  OBVIOUS
<1>1. m.path # NoPath
  BY Values
<1>2. e = WithFiles(d, G)
  BY <1>0, <1>1, Zenon DEF pdb_link_file, NewRow, WithFiles
<1>3. FilesExact(G, E, M, c, mt2)
  <2>1. FilesExact(d.files, D, M, c, mt)
    BY DEF Exact
  <2>2. FilesExact(d.files \cup {NewRow(d.files, m)}, Put(D, m.path, m.ino), M, c, mt2)
    BY <2>1, AddRow
  <2>. QED BY <1>0, <2>2, Zenon
<1>4. XattrsExact(d.xattrs, E, xm)
  <2>1. XattrsExact(d.xattrs, D, xm)
    BY DEF Exact
  <2>. QED BY <1>0, <2>1, GrowXattrs
<1>5. IsDB(d)
  BY DEF Exact
<1>6. IsDB(e) /\ e.files = G /\ e.xattrs = d.xattrs
  BY <1>2, <1>5, NewFiles, Zenon
<1>7. Exact(e, E, M, c, mt2, xm)
  BY <1>3, <1>4, <1>6, Zenon DEF Exact
<1>. QED BY <1>0, <1>7, Zenon

LEMMA DbUnlink ==
  ASSUME NEW d, NEW D \in Dirs, NEW M, NEW c, NEW mt, NEW xm, Exact(d, D, M, c, mt, xm),
         NEW m, m.path \in Paths, m.ino \in Inodes, m.ino = D[m.path] \/ D[m.path] = NoInode
  PROVE  Exact(pdb_unlink_file(d, m), Without(D, m.path), M, c, mt, xm)
<1>0. PICK e, f : /\ e = WithFiles(d, RowsNotAt(d.files, m.path))
                  /\ f = pdb_unlink_file(d, m)
  OBVIOUS
<1>1. m.path # NoPath
  BY Values
<1>2. f = pdb_check_xattrs(e, m.ino)
  BY <1>0, <1>1, Zenon DEF pdb_unlink_file, RowsNotAt, WithFiles
<1>3. Dropped(d, e, m.path)
  <2>1. IsDB(d)
    BY DEF Exact
  <2>. QED BY <1>0, <2>1, NewFiles, Zenon DEF Dropped
<1>4. Exact(f, Without(D, m.path), M, c, mt, xm)
  BY <1>2, <1>3, DropName
<1>. QED BY <1>0, <1>4, Zenon

\* DELETE ... WHERE ino = i, of an inode that has no name but p
LEMMA DbUnlinkDev ==
  ASSUME NEW d, NEW D \in Dirs, NEW M, NEW c, NEW mt, NEW xm, Exact(d, D, M, c, mt, xm),
         NEW p \in Paths, NEW m, m.ino \in Inodes, m.ino = D[p] \/ D[p] = NoInode,
         \A q \in Paths : D[q] = m.ino => q = p
  PROVE  Exact(pdb_unlink_file_dev(d, m), Without(D, p), M, c, mt, xm)
<1>0. PICK G, e, f : /\ G = {r \in d.files : r.ino # m.ino}
                     /\ e = WithFiles(d, G)
                     /\ f = pdb_unlink_file_dev(d, m)
  OBVIOUS
<1>1. \A r \in d.files : r.ino # m.ino <=> r.path # p
  BY NoInodeNot DEF Exact, FilesExact, RowRight
<1>2. G = RowsNotAt(d.files, p)
  BY <1>0, <1>1 DEF RowsNotAt
<1>3. f = pdb_clear_xattrs(e, m.ino)
  BY <1>0, Zenon DEF pdb_unlink_file_dev, WithFiles
<1>4. Dropped(d, e, p)
  <2>1. IsDB(d)
    BY DEF Exact
  <2>. QED BY <1>0, <1>2, <2>1, NewFiles, Zenon DEF Dropped
<1>5. Exact(f, Without(D, p), M, c, mt, xm)
  BY <1>3, <1>4, DropName
<1>. QED BY <1>0, <1>5, Zenon

\* DELETE ... WHERE path = p AND deleting = c: if there is a row, it is marked
LEMMA DbDidUnlink ==
  ASSUME NEW d, NEW D \in Dirs, NEW M, NEW c, NEW mt, NEW xm, Exact(d, D, M, c, mt, xm),
         NEW p \in Paths, NEW m, m.ino \in Inodes, (m.ino = D[p] /\ p \in M) \/ D[p] = NoInode
  PROVE  Exact(pdb_did_unlink_file(d, p, m, c), Without(D, p), M, c, mt, xm)
<1>0. PICK G, e, f : /\ G = {r \in d.files : ~(r.path = p /\ r.deleting = c)}
                     /\ e = WithFiles(d, G)
                     /\ f = pdb_did_unlink_file(d, p, m, c)
  OBVIOUS
<1>1. \A r \in d.files : r.path = p => r.deleting = c
  BY NoInodeNot DEF Exact, FilesExact, RowRight
<1>2. G = RowsNotAt(d.files, p)
  BY <1>0, <1>1 DEF RowsNotAt
<1>3. f = pdb_clear_xattrs(e, m.ino)
  BY <1>0, Zenon DEF pdb_did_unlink_file, DeleteMarked, WithFiles
<1>4. Dropped(d, e, p)
  <2>1. IsDB(d)
    BY DEF Exact
  <2>. QED BY <1>0, <1>2, <2>1, NewFiles, Zenon DEF Dropped
<1>5. Exact(f, Without(D, p), M, c, mt, xm)
  BY <1>3, <1>4, DropName
<1>. QED BY <1>0, <1>5, Zenon

\* a mark set, and a mark taken back
LEMMA DbMark ==
  ASSUME NEW d, NEW D, NEW M, NEW c, NEW mt, NEW xm, Exact(d, D, M, c, mt, xm),
         NEW m, m.path \in Paths
  PROVE  Exact(pdb_may_unlink_file(d, m, c), D, M \cup {m.path}, c, mt, xm)
<1>0. PICK e, p : e = pdb_may_unlink_file(d, m, c) /\ p = m.path
  OBVIOUS
<1>1. m.path # NoPath
  BY Values
<1>2. e = WithFiles(d, Marked(d.files, p, c))
  BY <1>0, <1>1, Zenon DEF pdb_may_unlink_file, WithFiles
<1>3. IsDB(e) /\ e.files = Marked(d.files, p, c) /\ e.xattrs = d.xattrs
  <2>1. IsDB(d)
    BY DEF Exact
  <2>. QED BY <1>2, <2>1, NewFiles, Zenon
<1>4. FilesExact(Marked(d.files, p, c), D, M \cup {p}, c, mt)
  <2>1. FilesExact(d.files, D, M, c, mt)
    BY DEF Exact
  <2>2. PICK N : N = M \cup {p}
    OBVIOUS
  <2>3. p \in N /\ \A q : q # p => (q \in N <=> q \in M)
    BY <2>2
  <2>4. FilesExact(Marked(d.files, p, c), D, N, c, mt)
    BY <2>1, <2>3, MarkRow
  <2>. QED BY <2>2, <2>4, Zenon
<1>. QED BY <1>0, <1>3, <1>4, Zenon DEF Exact

LEMMA DbCancel ==
  ASSUME NEW d, NEW D, NEW M, NEW c, NEW mt, NEW xm, Exact(d, D, M, c, mt, xm),
         NEW m, m.path \in Paths, m.ino = D[m.path], m.ino \in Inodes
  PROVE  Exact(pdb_cancel_unlink_file(d, m), D, M \ {m.path}, c, mt, xm)
<1>0. PICK e, f, p : /\ p = m.path /\ e = WithFiles(d, Marked(d.files, p, Nobody))
                     /\ f = pdb_cancel_unlink_file(d, m)
  OBVIOUS
<1>1. m.path # NoPath
  BY Values
<1>2. f = pdb_check_xattrs(e, m.ino)
  BY <1>0, <1>1, Zenon DEF pdb_cancel_unlink_file, WithFiles
<1>3. IsDB(e) /\ e.files = Marked(d.files, p, Nobody) /\ e.xattrs = d.xattrs
  <2>1. IsDB(d)
    BY DEF Exact
  <2>. QED BY <1>0, <2>1, NewFiles, Zenon
<1>4. FilesExact(e.files, D, M \ {p}, c, mt)
  <2>1. FilesExact(d.files, D, M, c, mt)
    BY DEF Exact
  <2>2. PICK N : N = M \ {p}
    OBVIOUS
  <2>3. p \notin N /\ \A q : q # p => (q \in N <=> q \in M)
    BY <2>2
  <2>4. FilesExact(Marked(d.files, p, Nobody), D, N, c, mt)
    BY <2>1, <2>3, MarkRow
  <2>. QED BY <1>3, <2>2, <2>4, Zenon
<1>5. HasFile(e, m.ino)
  <2>1. InDir(D, m.ino)
    BY DEF InDir
  <2>. QED BY <1>4, <2>1, HasFileInDir
<1>6. f = e
  BY <1>2, <1>5, Zenon DEF pdb_check_xattrs
<1>7. Exact(e, D, M \ {p}, c, mt, xm)
  BY <1>3, <1>4, Zenon DEF Exact
<1>. QED BY <1>0, <1>6, <1>7, Zenon

LEMMA DbUpdate ==
  ASSUME NEW d, NEW D, NEW M, NEW c, NEW mt, NEW xm, Exact(d, D, M, c, mt, xm),
         NEW m, NEW mt2, mt2[m.ino] = Tracked(m.uid, m.mode),
         \A j \in Inodes : j # m.ino => mt2[j] = mt[j]
  PROVE  Exact(pdb_update_file(d, m), D, M, c, mt2, xm)
<1>0. PICK e, G : e = pdb_update_file(d, m) /\ G = UpdatedRows(d.files, m.ino, m.uid, m.mode)
  OBVIOUS
<1>1. e = WithFiles(d, G)
  BY <1>0, Zenon DEF pdb_update_file, UpdatedRows, WithFiles
<1>2. IsDB(e) /\ e.files = G /\ e.xattrs = d.xattrs
  <2>1. IsDB(d)
    BY DEF Exact
  <2>. QED BY <1>1, <2>1, NewFiles, Zenon
<1>3. FilesExact(G, D, M, c, mt2)
  <2>1. FilesExact(d.files, D, M, c, mt)
    BY DEF Exact
  <2>. QED BY <1>0, <2>1, UpdateRows
<1>. QED BY <1>0, <1>2, <1>3, Zenon DEF Exact


\* the paths do not contain one another, so only one row changes
LEMMA DbRename ==
  ASSUME NEW d, NEW D \in Dirs, NEW M, NEW c, NEW mt, NEW xm, Exact(d, D, M, c, mt, xm),
         NEW m, NEW old \in Paths, m.path \in Paths, old # m.path,
         m.ino \in Inodes, D[old] = m.ino, D[m.path] = NoInode, m.path \notin M,
         \A p \in Paths : Len(p) = 1
  PROVE  Exact(pdb_update_inode(pdb_rename_file(d, old, m), m, NoPath),
               Put(Without(D, old), m.path, m.ino), M, c, mt, xm)
<1>0. PICK E, G, e, q : /\ E = Put(Without(D, old), m.path, m.ino) /\ q = m.path
                        /\ G = RenamedExact(d.files, old, q) /\ e = WithFiles(d, G)
  OBVIOUS
<1>1. m.path # NoPath
  BY Values
<1>2. FilesExact(G, E, M, c, mt)
  <2>1. FilesExact(d.files, D, M, c, mt)
    BY DEF Exact
  <2>2. D[old] # NoInode
    BY NoInodeNot
  <2>3. FilesExact(RenamedExact(d.files, old, q), Put(Without(D, old), q, D[old]), M, c, mt)
    BY <1>0, <2>1, <2>2, RenameRow
  <2>. QED BY <1>0, <2>3, Zenon
<1>3. XattrsExact(d.xattrs, E, xm)
  <2>1. XattrsExact(d.xattrs, D, xm)
    BY DEF Exact
  <2>2. D[old] # NoInode
    BY NoInodeNot
  <2>3. XattrsExact(d.xattrs, Put(Without(D, old), q, D[old]), xm)
    BY <1>0, <2>1, <2>2, MoveXattrs
  <2>. QED BY <1>0, <2>3, Zenon
<1>4. IsDB(e) /\ e.files = G /\ e.xattrs = d.xattrs
  <2>1. IsDB(d)
    BY DEF Exact
  <2>. QED BY <1>0, <2>1, NewFiles, Zenon
<1>5. pdb_rename_file(d, old, m) = e
  <2>1. \A r \in G : ~IsUnder(r.path, old)
    BY <1>2 DEF IsUnder, FilesExact, RowRight
  <2>2. RenamedBelow(G, old, q) = G
    BY <2>1 DEF RenamedBelow
  <2>3. pdb_rename_file(d, old, m) = WithFiles(d, RenamedBelow(G, old, q))
    BY <1>0, <1>1, Zenon DEF pdb_rename_file, WithFiles
  <2>. QED BY <1>0, <2>2, <2>3, Zenon
<1>6. pdb_update_inode(e, m, NoPath) = e
  <2>. DEFINE H == {IF r.path = m.path THEN [r EXCEPT !.ino = m.ino] ELSE r : r \in e.files}
  <2>1. pdb_update_inode(e, m, NoPath) = WithFiles(e, H)
    BY <1>1, Zenon DEF pdb_update_inode, WithFiles
  <2>2. E[m.path] = m.ino
    <3>1. D[old] # NoInode
      BY NoInodeNot
    <3>. QED BY <1>0, <3>1, MovedName
  <2>3. ASSUME NEW r \in G, r.path = m.path PROVE [r EXCEPT !.ino = m.ino] = r
    <3>1. IsRow(r) /\ r.ino = m.ino
      BY <1>2, <2>2, <2>3 DEF FilesExact, RowRight
    <3>. QED BY <3>1 DEF IsRow
  <2>4. \A r \in e.files : (IF r.path = m.path THEN [r EXCEPT !.ino = m.ino] ELSE r) = r
    BY <1>4, <2>3, Zenon
  <2>5. H = e.files
    BY <2>4, Zenon
  <2>6. WithFiles(e, e.files) = e
    <3>1. PICK f : f = [e EXCEPT !.files = e.files]
      OBVIOUS
    <3>2. f = e
      BY <1>4, <3>1 DEF IsDB
    <3>. QED BY <3>1, <3>2, Zenon DEF WithFiles
  <2>. HIDE DEF H
  <2>. QED BY <2>1, <2>5, <2>6, Zenon
<1>7. Exact(e, E, M, c, mt, xm)
  BY <1>2, <1>3, <1>4, Zenon DEF Exact
<1>. QED BY <1>0, <1>5, <1>6, <1>7, Zenon

\* the attributes of inode i without the one named n
OtherPairs(P, n) == {x \in P : x[1] # n}

\* the rows Y are those of X, but for the attribute n of inode i
Replaced(X, Y, i, n) ==
    /\ \A y \in Y : (y.ino = i /\ y.name = n) \/ y \in X
    /\ \A y \in X : (y.ino = i /\ y.name = n) \/ y \in Y

LEMMA ReplacedElsewhere ==
  ASSUME NEW X, NEW Y, NEW i, NEW n, Replaced(X, Y, i, n), NEW j, j # i
  PROVE  Pairs(Y, j) = Pairs(X, j)
<1>1. {z \in Y : z.ino = j} = {z \in X : z.ino = j}
  BY DEF Replaced
<1>. QED BY <1>1, Zenon DEF Pairs

LEMMA ReplacedThere ==
  ASSUME NEW X, NEW Y, NEW i, NEW n, Replaced(X, Y, i, n)
  PROVE  OtherPairs(Pairs(Y, i), n) = OtherPairs(Pairs(X, i), n)
<1>1. ASSUME NEW A, NEW B, Replaced(A, B, i, n), NEW x \in OtherPairs(Pairs(B, i), n)
      PROVE  x \in OtherPairs(Pairs(A, i), n)
  <2>1. x \in Pairs(B, i) /\ x[1] # n
    BY DEF OtherPairs
  <2>2. PICK z \in B : z.ino = i /\ x = << z.name, z.value >>
    BY <2>1 DEF Pairs
  <2>3. x[1] = z.name
    BY <2>2
  <2>4. z \in A
    BY <1>1, <2>1, <2>2, <2>3 DEF Replaced
  <2>5. x \in Pairs(A, i)
    BY <2>2, <2>4 DEF Pairs
  <2>. QED BY <2>1, <2>5 DEF OtherPairs
<1>2. Replaced(Y, X, i, n)
  BY DEF Replaced
<1>3. PICK P, Q : /\ P = OtherPairs(Pairs(Y, i), n) /\ Q = OtherPairs(Pairs(X, i), n)
  OBVIOUS
<1>4. \A x : x \in P => x \in Q
  BY <1>1, <1>3, Zenon
<1>5. \A x : x \in Q => x \in P
  BY <1>1, <1>2, <1>3, Zenon
<1>6. P = Q
  BY <1>4, <1>5
<1>. QED BY <1>3, <1>6, Zenon

LEMMA XattrRemoved ==
  ASSUME NEW X, NEW D, NEW xm, XattrsExact(X, D, xm), NEW i \in Inodes, InDir(D, i), NEW n,
         NEW Y, Y = {y \in X : ~(y.ino = i /\ y.name = n)},
         NEW xm2, xm2[i] = OtherPairs(xm[i], n), \A j \in Inodes : j # i => xm2[j] = xm[j],
         D \in Dirs
  PROVE  XattrsExact(Y, D, xm2)
<1>1. Replaced(X, Y, i, n)
  BY DEF Replaced
<1>2. Pairs(X, i) = xm[i]
  BY NoInodeNot DEF XattrsExact, InDir
<1>3. \A x \in Pairs(Y, i) : x[1] # n
  <2>1. SUFFICES ASSUME NEW z \in Y, z.ino = i PROVE << z.name, z.value >>[1] # n
    BY DEF Pairs
  <2>. QED BY <2>1
<1>4. Pairs(Y, i) = OtherPairs(Pairs(Y, i), n)
  BY <1>3 DEF OtherPairs
<1>5. Pairs(Y, i) = xm2[i]
  <2>1. OtherPairs(Pairs(Y, i), n) = OtherPairs(Pairs(X, i), n)
    BY <1>1, ReplacedThere
  <2>. QED BY <1>2, <1>4, <2>1, Zenon
<1>6. ASSUME NEW p \in Paths, D[p] # NoInode PROVE Pairs(Y, D[p]) = xm2[D[p]]
  <2>1. D[p] \in Inodes
    BY <1>6 DEF Dirs
  <2>2. CASE D[p] = i
    BY <1>5, <2>2
  <2>3. CASE D[p] # i
    <3>1. Pairs(Y, D[p]) = Pairs(X, D[p])
      BY <1>1, <2>3, ReplacedElsewhere
    <3>. QED BY <1>6, <2>1, <2>3, <3>1 DEF XattrsExact
  <2>. QED BY <2>2, <2>3
<1>7. Numbered(Y)
  <2>1. Numbered(X)
    BY DEF XattrsExact
  <2>2. \A s \in Y : \E t \in X : s.id = t.id
    OBVIOUS
  <2>. QED BY <2>1, <2>2, NumberedSubset
<1>. QED BY <1>6, <1>7 DEF XattrsExact

LEMMA XattrAdded ==
  ASSUME NEW X, NEW D \in Dirs, NEW xm, XattrsExact(X, D, xm), NEW i \in Inodes, InDir(D, i),
         NEW n, NEW v, NEW y, y.ino = i, y.name = n, y.value = v, IsAttr(y),
         NEW Y, y \in Y, Numbered(Y), Replaced(X, Y, i, n),
         \A z \in Y : z.ino = i /\ z.name = n => z = y,
         NEW xm2, xm2[i] = OtherPairs(xm[i], n) \cup {<< n, v >>},
         \A j \in Inodes : j # i => xm2[j] = xm[j]
  PROVE  XattrsExact(Y, D, xm2)
<1>1. Pairs(X, i) = xm[i]
  BY NoInodeNot DEF XattrsExact, InDir
<1>2. \A x \in Pairs(Y, i) : x[1] = n => x = << n, v >>
  <2>1. SUFFICES ASSUME NEW z \in Y, z.ino = i, z.name = n PROVE z.value = v
    BY DEF Pairs
  <2>. QED BY <2>1
<1>3. << n, v >> \in Pairs(Y, i)
  BY DEF Pairs
<1>4. Pairs(Y, i) = OtherPairs(Pairs(Y, i), n) \cup {<< n, v >>}
  BY <1>2, <1>3 DEF OtherPairs
<1>5. Pairs(Y, i) = xm2[i]
  <2>1. OtherPairs(Pairs(Y, i), n) = OtherPairs(Pairs(X, i), n)
    BY ReplacedThere
  <2>. QED BY <1>1, <1>4, <2>1, Zenon
<1>6. ASSUME NEW p \in Paths, D[p] # NoInode PROVE Pairs(Y, D[p]) = xm2[D[p]]
  <2>1. D[p] \in Inodes
    BY <1>6 DEF Dirs
  <2>2. CASE D[p] = i
    BY <1>5, <2>2
  <2>3. CASE D[p] # i
    <3>1. Pairs(Y, D[p]) = Pairs(X, D[p])
      BY <2>3, ReplacedElsewhere
    <3>. QED BY <1>6, <2>1, <2>3, <3>1 DEF XattrsExact
  <2>. QED BY <2>2, <2>3
<1>7. \A z \in Y : IsAttr(z) /\ z.ino \in Inodes /\ InDir(D, z.ino)
  BY DEF Replaced, XattrsExact
<1>8. \A z, w \in Y : z.ino = w.ino /\ z.name = w.name => z = w
  BY DEF Replaced, XattrsExact
<1>. QED BY <1>6, <1>7, <1>8 DEF XattrsExact


LEMMA DbRemoveXattr ==
  ASSUME NEW d, NEW D \in Dirs, NEW M, NEW c, NEW mt, NEW xm, Exact(d, D, M, c, mt, xm),
         NEW m, m.ino \in Inodes, InDir(D, m.ino),
         NEW xm2, xm2[m.ino] = OtherPairs(xm[m.ino], m.name),
         \A j \in Inodes : j # m.ino => xm2[j] = xm[j]
  PROVE  Exact(pdb_remove_xattr(d, m), D, M, c, mt, xm2)
<1>0. PICK Y, e : /\ Y = {y \in d.xattrs : ~(y.ino = m.ino /\ y.name = m.name)}
                  /\ e = pdb_remove_xattr(d, m)
  OBVIOUS
<1>1. e = WithXattrs(d, d.xattrs \ XattrRows(d, m))
  BY <1>0, Zenon DEF pdb_remove_xattr, WithXattrs
<1>2. d.xattrs \ XattrRows(d, m) = Y
  BY <1>0 DEF XattrRows
<1>3. IsDB(e) /\ e.files = d.files /\ e.xattrs = Y
  <2>1. IsDB(d)
    BY DEF Exact
  <2>. QED BY <1>1, <1>2, <2>1, NewXattrs, Zenon
<1>4. XattrsExact(Y, D, xm2)
  <2>1. XattrsExact(d.xattrs, D, xm)
    BY DEF Exact
  <2>. QED BY <1>0, <2>1, XattrRemoved
<1>5. FilesExact(d.files, D, M, c, mt)
  BY DEF Exact
<1>. QED BY <1>0, <1>3, <1>4, <1>5, Zenon DEF Exact

LEMMA DbSetXattr ==
  ASSUME NEW d, NEW D \in Dirs, NEW M, NEW c, NEW mt, NEW xm, Exact(d, D, M, c, mt, xm),
         NEW m, m.op = "set_xattr", m.ino \in Inodes, InDir(D, m.ino),
         NEW xm2, xm2[m.ino] = OtherPairs(xm[m.ino], m.name) \cup {<< m.name, m.value >>},
         \A j \in Inodes : j # m.ino => xm2[j] = xm[j]
  PROVE  Exact(pdb_set_xattr(d, m), D, M, c, mt, xm2)
<1>0. PICK e, X, rows : /\ e = pdb_set_xattr(d, m) /\ X = d.xattrs /\ rows = XattrRows(d, m)
  OBVIOUS
<1>r. rows = {y \in X : y.ino = m.ino /\ y.name = m.name}
  BY <1>0 DEF XattrRows
<1>1. XattrsExact(X, D, xm) /\ FilesExact(d.files, D, M, c, mt) /\ IsDB(d)
  BY <1>0 DEF Exact
<1>2. ~SetXattrFails(d, m)
  BY DEF SetXattrFails
<1>3. SUFFICES ASSUME NEW y, NEW Y, e = WithXattrs(d, Y), y \in Y, Numbered(Y), IsAttr(y),
                      y.ino = m.ino, y.name = m.name, y.value = m.value,
                      Replaced(X, Y, m.ino, m.name),
                      \A z \in Y : z.ino = m.ino /\ z.name = m.name => z = y
               PROVE  Exact(e, D, M, c, mt, xm2)
  <2>1. CASE rows = {}
    <3>1. PICK y : y = [id |-> NextId(X), ino |-> m.ino, name |-> m.name, value |-> m.value]
      OBVIOUS
    <3>2. PICK Y : Y = X \cup {y}
      OBVIOUS
    <3>3. e = WithXattrs(d, Y)
      BY <1>0, <1>2, <2>1, <3>1, <3>2, Zenon DEF pdb_set_xattr, WithXattrs
    <3>4. Numbered(Y)
      <4>1. Numbered(X) /\ y.id = NextId(X)
        BY <1>1, <3>1 DEF XattrsExact
      <4>. QED BY <3>2, <4>1, NumberedAdd
    <3>5. IsAttr(y) /\ y.ino = m.ino /\ y.name = m.name /\ y.value = m.value
      BY <3>1 DEF IsAttr
    <3>6. Replaced(X, Y, m.ino, m.name)
      BY <3>2, <3>5 DEF Replaced
    <3>7. y \in Y /\ \A z \in Y : z.ino = m.ino /\ z.name = m.name => z = y
      BY <1>r, <2>1, <3>2
    <3>8. Exact(e, D, M, c, mt, xm2)
      BY <1>3, <3>3, <3>4, <3>5, <3>6, <3>7
    <3>. QED BY <1>0, <3>8, Zenon
  <2>2. CASE rows # {}
    <3>1. PICK row : row = FirstById(rows)
      OBVIOUS
    <3>2. row \in rows
      <4>1. \A t \in rows : t.id \in Nat
        BY <1>r, <1>1 DEF XattrsExact, Numbered
      <4>. QED BY <2>2, <3>1, <4>1, FirstRow
    <3>3. IsAttr(row) /\ row \in X /\ row.ino = m.ino /\ row.name = m.name
      BY <1>r, <1>1, <3>2 DEF XattrsExact
    <3>4. PICK y : y = [row EXCEPT !.value = m.value]
      OBVIOUS
    <3>5. /\ IsAttr(y) /\ y.id = row.id /\ y.ino = m.ino /\ y.name = m.name
          /\ y.value = m.value
      BY <3>3, <3>4 DEF IsAttr
    <3>6. PICK Y : Y = (X \ {row}) \cup {y}
      OBVIOUS
    <3>7. e = WithXattrs(d, Y)
      BY <1>0, <1>2, <2>2, <3>1, <3>4, <3>6, Zenon DEF pdb_set_xattr, WithXattrs
    <3>8. Numbered(Y)
      <4>1. Numbered(X)
        BY <1>1 DEF XattrsExact
      <4>2. \A s \in Y : \E t \in X : s.id = t.id
        BY <3>3, <3>5, <3>6
      <4>. QED BY <4>1, <4>2, NumberedSubset
    <3>9. Replaced(X, Y, m.ino, m.name)
      BY <3>3, <3>5, <3>6 DEF Replaced
    <3>10. y \in Y /\ \A z \in Y : z.ino = m.ino /\ z.name = m.name => z = y
      BY <1>1, <3>3, <3>6 DEF XattrsExact
    <3>11. Exact(e, D, M, c, mt, xm2)
      BY <1>3, <3>5, <3>7, <3>8, <3>9, <3>10
    <3>. QED BY <1>0, <3>11, Zenon
  <2>. QED BY <2>1, <2>2
<1>4. XattrsExact(Y, D, xm2)
  <2>1. XattrsExact(X, D, xm)
    BY <1>1
  <2>. QED BY <1>3, <2>1, XattrAdded
<1>5. IsDB(e) /\ e.files = d.files /\ e.xattrs = Y
  BY <1>1, <1>3, NewXattrs, Zenon
<1>. QED BY <1>1, <1>4, <1>5, Zenon DEF Exact

-----------------------------------------------------------------------------
(* pseudo_op() on an exact database: no lookup contradicts the request *)

Sent(m) == [m EXCEPT !.result = "succeed"]

LEMMA SentFields ==
  ASSUME NEW m, IsMsg(m)
  PROVE  LET n == Sent(m)
         IN  /\ Like(n, n) /\ n.op = m.op /\ n.path = m.path /\ n.oldpath = m.oldpath
             /\ n.ino = m.ino /\ n.uid = m.uid /\ n.mode = m.mode /\ n.nlink = m.nlink
             /\ n.client = m.client /\ n.name = m.name /\ n.value = m.value
             /\ n.args = m.args /\ n.result = "succeed"
<1>1. PICK n : n = [m EXCEPT !.result = "succeed"]
  OBVIOUS
<1>2. /\ IsMsg(n) /\ n.op = m.op /\ n.path = m.path /\ n.oldpath = m.oldpath
      /\ n.ino = m.ino /\ n.uid = m.uid /\ n.mode = m.mode /\ n.nlink = m.nlink
      /\ n.client = m.client /\ n.name = m.name /\ n.value = m.value
      /\ n.args = m.args /\ n.result = "succeed"
  BY <1>1, Zenon DEF IsMsg
<1>3. Like(n, n)
  BY <1>2, Zenon DEF Like
<1>. QED BY <1>1, <1>2, <1>3, Zenon DEF Sent

\* b is n with the owner and mode that the inode has
Loaded(b, n, mt) ==
    Like(n, b) /\ b.ino = n.ino /\ mt[n.ino] = Tracked(b.uid, b.mode)

\* a request of c that agrees with what is known of its inode
Ready(m, D, mt, c) ==
    /\ IsMsg(m) /\ m.client = c /\ m.path \in Paths
    /\ m.op \notin PrefersInode \cup {"exec"}
    /\ m.ino \in Inodes \cup {NoInode}
    /\ m.op # "did_unlink" /\ m.ino \in Inodes /\ InDir(D, m.ino) => ~KindClash(mt[m.ino], m)

\* the contexts: the row of the path and the inode, the row of the inode, no row
FoundAll(k, d, n, mt) ==
    /\ IsCtx(k) /\ k.db = d /\ k.msg = n /\ k.header = n
    /\ Loaded(k.by_ino, n, mt) /\ k.by_path = k.by_ino /\ k.path_by_ino = n.path
    /\ k.found_path /\ k.found_ino /\ k.found_exact /\ ~k.abort

FoundInode(k, d, n, mt) ==
    /\ IsCtx(k) /\ k.db = d /\ k.msg = n /\ k.header = n
    /\ Loaded(k.by_ino, n, mt) /\ k.by_path = n
    /\ \E r \in d.files : r.ino = n.ino /\ k.path_by_ino = r.path
    /\ ~k.found_path /\ k.found_ino /\ ~k.found_exact /\ ~k.abort

FoundNothing(k, d, n) ==
    /\ IsCtx(k) /\ k.db = d /\ k.msg = n /\ k.header = n
    /\ k.by_ino = n /\ k.by_path = n
    /\ ~k.found_path /\ ~k.found_ino /\ ~k.found_exact /\ ~k.abort

LEMMA LoadedRow ==
  ASSUME NEW d, NEW D, NEW M, NEW c, NEW mt, FilesExact(d.files, D, M, c, mt),
         NEW n, Like(n, n), NEW r \in d.files, r.ino = n.ino
  PROVE  Loaded(LoadRow(n, r), n, mt)
<1>1. PICK b : b = LoadRow(n, r)
  OBVIOUS
<1>2. IsMsg(n) /\ b = [n EXCEPT !.uid = r.uid, !.mode = r.mode, !.deleting = r.deleting]
  BY <1>1, Zenon DEF Like, LoadRow
<1>3. b.ino = n.ino /\ b.uid = r.uid /\ b.mode = r.mode
  BY <1>2, Zenon DEF IsMsg
<1>4. Like(n, b)
  BY <1>1, LikeLoaded, Zenon
<1>5. mt[r.ino] = Tracked(r.uid, r.mode)
  BY DEF FilesExact, RowRight
<1>. QED BY <1>1, <1>3, <1>4, <1>5, Zenon DEF Loaded

LEMMA SameContext ==
  ASSUME NEW k, IsCtx(k), NEW e, e = k.db
  PROVE  [k EXCEPT !.db = e] = k
<1>1. PICK l : l = [k EXCEPT !.db = e]
  OBVIOUS
<1>2. l = k
  BY <1>1 DEF IsCtx
<1>. QED BY <1>1, <1>2, Zenon

LEMMA LoadedAgrees ==
  ASSUME NEW b, NEW n, NEW mt, Loaded(b, n, mt), ~KindClash(mt[n.ino], n)
  PROVE  ~KindClash(b, n)
<1>1. mt[n.ino].mode = b.mode
  BY DEF Loaded, Tracked
<1>. QED BY <1>1, Zenon DEF KindClash

LEMMA FoundAllStays ==
  ASSUME NEW k, NEW d, NEW n, NEW mt, FoundAll(k, d, n, mt), n.path \in Paths,
         n.op # "rename", n.op # "did_unlink" => ~KindClash(mt[n.ino], n)
  PROVE  CheckIno(CheckPath(k)) = k
<1>1. /\ IsCtx(k) /\ k.msg = n /\ k.header = n /\ k.by_path = k.by_ino
      /\ k.path_by_ino = n.path /\ Loaded(k.by_ino, n, mt)
  BY DEF FoundAll
<1>2. n.path # NoPath
  BY Values
<1>3. CASE n.op = "did_unlink"
  BY <1>1, <1>3, Zenon DEF CheckPath, CheckIno
<1>4. CASE n.op # "did_unlink"
  <2>1. ~KindClash(k.by_ino, n)
    BY <1>1, <1>4, LoadedAgrees
  <2>2. DropSuperseded(k) = k.db
    <3>1. k.by_path.ino = k.header.ino
      BY <1>1 DEF Loaded
    <3>. QED BY <3>1, Zenon DEF DropSuperseded, SupersededRow
  <2>3. [k EXCEPT !.db = DropSuperseded(k)] = k
    BY <1>1, <2>2, SameContext, Zenon
  <2>4. CheckPath(k) = k
    BY <1>1, <2>1, <2>3, Zenon DEF CheckPath
  <2>5. ~PathMismatch(k)
    BY <1>1 DEF PathMismatch
  <2>6. NameNameless(k) = k.db
    BY <1>1, <1>2, Zenon DEF NameNameless
  <2>7. [k EXCEPT !.db = NameNameless(k)] = k
    BY <1>1, <2>6, SameContext, Zenon
  <2>8. CheckIno(k) = k
    BY <1>1, <2>1, <2>5, <2>7, Zenon DEF CheckIno
  <2>. QED BY <2>4, <2>8
<1>. QED BY <1>3, <1>4

LEMMA FoundNothingStays ==
  ASSUME NEW k, NEW d, NEW n, FoundNothing(k, d, n)
  PROVE  CheckIno(CheckPath(k)) = k
  BY Zenon DEF FoundNothing, CheckPath, CheckIno

LEMMA FoundInodeStays ==
  ASSUME NEW k, NEW d, NEW n, NEW mt, FoundInode(k, d, n, mt), n.path \in Paths,
         \A r \in d.files : r.path \in Paths,
         n.op \in {"link", "rename", "did_unlink"},
         n.op # "did_unlink" => ~KindClash(mt[n.ino], n),
         n.op = "rename" /\ n.nlink = 1 =>
            \A r \in d.files : r.ino = n.ino => r.path = n.oldpath
  PROVE  CheckIno(CheckPath(k)) = k
<1>1. /\ IsCtx(k) /\ k.msg = n /\ k.header = n /\ Loaded(k.by_ino, n, mt) /\ ~k.found_path
  BY DEF FoundInode
<1>2. PICK r \in d.files : r.ino = n.ino /\ k.path_by_ino = r.path
  BY DEF FoundInode
<1>3. CheckPath(k) = k
  BY <1>1, Zenon DEF CheckPath
<1>4. CASE n.op = "did_unlink"
  BY <1>1, <1>3, <1>4, Zenon DEF CheckIno
<1>5. CASE n.op # "did_unlink"
  <2>1. ~KindClash(k.by_ino, n)
    BY <1>1, <1>5, LoadedAgrees
  <2>2. ~PathMismatch(k)
    <3>1. CASE n.op = "link"
      BY <1>1, <3>1 DEF PathMismatch
    <3>2. CASE n.op = "rename"
      BY <1>1, <1>2, <3>2 DEF PathMismatch
    <3>. QED BY <1>5, <3>1, <3>2
  <2>3. k.path_by_ino # NoPath
    BY <1>2, Values
  <2>4. NameNameless(k) = k.db
    BY <2>3, Zenon DEF NameNameless
  <2>5. [k EXCEPT !.db = NameNameless(k)] = k
    BY <1>1, <2>4, SameContext, Zenon
  <2>6. CheckIno(k) = k
    BY <1>1, <2>1, <2>2, <2>5, Zenon DEF CheckIno
  <2>. QED BY <1>3, <2>6
<1>. QED BY <1>4, <1>5


LEMMA LookupAll ==
  ASSUME NEW d, NEW D, NEW M, NEW c, NEW mt, FilesExact(d.files, D, M, c, mt),
         NEW n, Like(n, n), n.path \in Paths, n.ino = D[n.path], n.ino \in Inodes
  PROVE  FoundAll(Lookup(d, n), d, n, mt)
<1>0. PICK k, rows : k = Lookup(d, n) /\ rows = pdb_find_file_exact(d, n)
  OBVIOUS
<1>r. rows = {r \in d.files : r.path = n.path /\ r.ino = n.ino}
  BY <1>0 DEF pdb_find_file_exact
<1>1. n.path # NoPath /\ n.ino # NoInode
  BY Values, NoInodeNot
<1>2. rows # {}
  BY <1>r, <1>1 DEF FilesExact, RowRight
<1>3. PICK r : r = FirstById(rows)
  OBVIOUS
<1>4. r \in d.files /\ r.ino = n.ino
  <2>1. \A t \in rows : t.id \in Nat
    BY <1>r DEF FilesExact, Numbered
  <2>2. r \in rows
    BY <1>2, <1>3, <2>1, FirstRow
  <2>. QED BY <1>r, <2>2
<1>5. PICK b : b = LoadRow(n, r)
  OBVIOUS
<1>6. Loaded(b, n, mt)
  BY <1>4, <1>5, LoadedRow
<1>7. k = FoundExact(d, n)
  BY <1>0, <1>1, <1>2, Zenon DEF Lookup
<1>8. k = [db |-> d, msg |-> n, header |-> n, by_path |-> b, by_ino |-> b,
           path_by_ino |-> n.path, found_path |-> TRUE, found_ino |-> TRUE,
           found_exact |-> TRUE, abort |-> FALSE]
  BY <1>0, <1>3, <1>5, <1>7, Zenon DEF FoundExact
<1>9. FoundAll(k, d, n, mt)
  BY <1>6, <1>8 DEF FoundAll, IsCtx
<1>. QED BY <1>0, <1>9, Zenon

LEMMA LookupOther ==
  ASSUME NEW d, NEW D, NEW M, NEW c, NEW mt, FilesExact(d.files, D, M, c, mt),
         NEW n, Like(n, n), n.path \in Paths, D[n.path] = NoInode
  PROVE  /\ n.ino \in Inodes /\ InDir(D, n.ino) => FoundInode(Lookup(d, n), d, n, mt)
         /\ n.ino = NoInode \/ ~InDir(D, n.ino) => FoundNothing(Lookup(d, n), d, n)
<1>0. PICK k : k = Lookup(d, n)
  OBVIOUS
<1>1. \A r \in d.files : r.path # n.path /\ InDir(D, r.ino)
  BY NoInodeNot DEF FilesExact, RowRight, InDir
<1>2. pdb_find_file_exact(d, n) = {} /\ pdb_find_file_path(d, n) = {}
  BY <1>1 DEF pdb_find_file_exact, pdb_find_file_path
<1>3. k = FoundSeparately(d, n)
  BY <1>0, <1>2, Zenon DEF Lookup
<1>4. AfterPathLookup(d, n) = n
  BY <1>2, Zenon DEF AfterPathLookup
<1>5. PICK rows : rows = IF n.ino = NoInode THEN {} ELSE pdb_find_file_dev(d, n)
  OBVIOUS
<1>6. k = [db |-> d, msg |-> n, header |-> n, by_path |-> n,
           by_ino |-> IF rows = {} THEN n ELSE LoadRow(n, FirstById(rows)),
           path_by_ino |-> IF rows = {} THEN NoPath ELSE FirstById(rows).path,
           found_path |-> pdb_find_file_path(d, n) # {},
           found_ino |-> rows # {}, found_exact |-> FALSE, abort |-> FALSE]
  BY <1>3, <1>4, <1>5, Zenon DEF FoundSeparately
<1>7. ASSUME n.ino \in Inodes, InDir(D, n.ino)
      PROVE  FoundInode(k, d, n, mt)
  <2>1. rows = {r \in d.files : r.ino = n.ino}
    BY <1>5, <1>7, NoInodeNot DEF pdb_find_file_dev
  <2>2. rows # {}
    <3>1. HasFile(d, n.ino)
      BY <1>7, HasFileInDir
    <3>. QED BY <2>1, <3>1 DEF HasFile
  <2>3. PICK r : r = FirstById(rows)
    OBVIOUS
  <2>4. r \in d.files /\ r.ino = n.ino
    <3>1. \A t \in rows : t.id \in Nat
      BY <2>1 DEF FilesExact, Numbered
    <3>2. r \in rows
      BY <2>2, <2>3, <3>1, FirstRow
    <3>. QED BY <2>1, <3>2
  <2>5. PICK b : b = LoadRow(n, r)
    OBVIOUS
  <2>6. Loaded(b, n, mt)
    BY <2>4, <2>5, LoadedRow
  <2>7. k.by_ino = b /\ k.path_by_ino = r.path
    BY <1>6, <2>2, <2>3, <2>5
  <2>8. /\ IsCtx(k) /\ k.db = d /\ k.msg = n /\ k.header = n /\ k.by_path = n
        /\ ~k.found_path /\ k.found_ino /\ ~k.found_exact /\ ~k.abort
    <3>1. PICK u, v : k = [db |-> d, msg |-> n, header |-> n, by_path |-> n, by_ino |-> u,
                           path_by_ino |-> v, found_path |-> FALSE, found_ino |-> TRUE,
                           found_exact |-> FALSE, abort |-> FALSE]
      BY <1>2, <1>6, <2>2, Zenon
    <3>. QED BY <3>1 DEF IsCtx
  <2>. QED BY <2>4, <2>6, <2>7, <2>8 DEF FoundInode
<1>8. ASSUME n.ino = NoInode \/ ~InDir(D, n.ino)
      PROVE  FoundNothing(k, d, n)
  <2>1. rows = {}
    BY <1>1, <1>5, <1>8 DEF pdb_find_file_dev
  <2>2. PICK v : k = [db |-> d, msg |-> n, header |-> n, by_path |-> n, by_ino |-> n,
                      path_by_ino |-> v, found_path |-> FALSE, found_ino |-> FALSE,
                      found_exact |-> FALSE, abort |-> FALSE]
    BY <1>2, <1>6, <2>1, Zenon
  <2>. QED BY <2>2 DEF FoundNothing, IsCtx
<1>. QED BY <1>0, <1>7, <1>8, Zenon

\* when the lookups repair nothing, the request is just carried out
LEMMA Carried ==
  ASSUME NEW d, NEW m, IsMsg(m), m.op \notin PrefersInode, NEW stale, NEW k,
         k = Lookup(d, Sent(m)), CheckIno(CheckPath(k)) = k, ~k.abort, k.header = Sent(m)
  PROVE  pseudo_op(d, m, stale) = OpSwitch(k, stale)
<1>1. k = CheckIno(CheckPath(Lookup(d, [m EXCEPT !.result = "succeed"])))
  BY Zenon DEF Sent
<1>2. k.header.op \notin PrefersInode
  BY SentFields
<1>3. MarkUnlinkedFd(k, OpSwitch(k, stale)) = OpSwitch(k, stale)
  BY <1>2, Zenon DEF MarkUnlinkedFd
<1>. QED BY <1>1, <1>3, Zenon DEF pseudo_op

\* the three ways in which a request meets an exact database
Met(d, m, D, mt, stale, out) ==
    \/ /\ D[m.path] = m.ino /\ m.ino \in Inodes
       /\ \E k : FoundAll(k, d, Sent(m), mt) /\ out = OpSwitch(k, stale)
    \/ /\ D[m.path] = NoInode /\ m.ino \in Inodes /\ InDir(D, m.ino)
       /\ \E k : FoundInode(k, d, Sent(m), mt) /\ out = OpSwitch(k, stale)
    \/ /\ D[m.path] = NoInode /\ (m.ino = NoInode \/ ~InDir(D, m.ino))
       /\ \E k : FoundNothing(k, d, Sent(m)) /\ out = OpSwitch(k, stale)

LEMMA Meets ==
  ASSUME NEW d, NEW D, NEW M, NEW c, NEW mt, FilesExact(d.files, D, M, c, mt),
         NEW m, Ready(m, D, mt, c), NEW stale,
         D[m.path] = m.ino \/ D[m.path] = NoInode,
         m.op = "rename" => D[m.path] = NoInode,
         D[m.path] = NoInode /\ m.ino \in Inodes /\ InDir(D, m.ino) =>
            m.op \in {"link", "rename", "did_unlink"},
         m.op = "rename" /\ m.nlink = 1 => \A q \in Paths : D[q] = m.ino => q = m.oldpath
  PROVE  Met(d, m, D, mt, stale, pseudo_op(d, m, stale))
<1>1. PICK n, k, out : n = Sent(m) /\ k = Lookup(d, n) /\ out = pseudo_op(d, m, stale)
  OBVIOUS
<1>2. IsMsg(m) /\ m.op \notin PrefersInode /\ m.path \in Paths /\ m.ino \in Inodes \cup {NoInode}
  BY DEF Ready
<1>3. /\ Like(n, n) /\ n.op = m.op /\ n.path = m.path /\ n.oldpath = m.oldpath
      /\ n.ino = m.ino /\ n.nlink = m.nlink /\ n.mode = m.mode
  BY <1>1, <1>2, SentFields, Zenon
<1>4. ASSUME n.op # "did_unlink", n.ino \in Inodes, InDir(D, n.ino)
      PROVE  ~KindClash(mt[n.ino], n)
  <2>1. ~KindClash(mt[m.ino], m)
    BY <1>3, <1>4 DEF Ready
  <2>. QED BY <1>3, <2>1, Zenon DEF KindClash
<1>5. CASE m.ino \in Inodes /\ D[m.path] = m.ino
  <2>1. FoundAll(k, d, n, mt)
    BY <1>1, <1>2, <1>3, <1>5, LookupAll
  <2>2. InDir(D, n.ino)
    BY <1>2, <1>3, <1>5 DEF InDir
  <2>3. m.op # "rename"
    BY <1>5, NoInodeNot
  <2>4. CheckIno(CheckPath(k)) = k
    BY <1>2, <1>3, <1>4, <1>5, <2>1, <2>2, <2>3, FoundAllStays
  <2>5. out = OpSwitch(k, stale)
    BY <1>1, <1>2, <2>1, <2>4, Carried DEF FoundAll
  <2>. QED BY <1>1, <1>5, <2>1, <2>5, Zenon DEF Met
<1>6. CASE D[m.path] = NoInode /\ m.ino \in Inodes /\ InDir(D, m.ino)
  <2>1. FoundInode(k, d, n, mt)
    BY <1>1, <1>2, <1>3, <1>6, LookupOther
  <2>2. \A r \in d.files : r.path \in Paths /\ D[r.path] = r.ino
    BY DEF FilesExact, RowRight
  <2>3. CheckIno(CheckPath(k)) = k
    <3>1. n.op \in {"link", "rename", "did_unlink"}
      BY <1>3, <1>6
    <3>2. n.op # "did_unlink" => ~KindClash(mt[n.ino], n)
      BY <1>3, <1>4, <1>6
    <3>3. n.op = "rename" /\ n.nlink = 1 =>
            \A r \in d.files : r.ino = n.ino => r.path = n.oldpath
      BY <1>3, <2>2
    <3>. QED BY <1>2, <1>3, <2>1, <2>2, <3>1, <3>2, <3>3, FoundInodeStays
  <2>4. out = OpSwitch(k, stale)
    BY <1>1, <1>2, <2>1, <2>3, Carried DEF FoundInode
  <2>. QED BY <1>1, <1>6, <2>1, <2>4, Zenon DEF Met
<1>7. CASE D[m.path] = NoInode /\ (m.ino = NoInode \/ ~InDir(D, m.ino))
  <2>1. FoundNothing(k, d, n)
    BY <1>1, <1>2, <1>3, <1>7, LookupOther
  <2>2. CheckIno(CheckPath(k)) = k
    BY <2>1, FoundNothingStays
  <2>3. out = OpSwitch(k, stale)
    BY <1>1, <1>2, <2>1, <2>2, Carried DEF FoundNothing
  <2>. QED BY <1>1, <1>7, <2>1, <2>3, Zenon DEF Met
<1>. QED BY <1>2, <1>5, <1>6, <1>7

-----------------------------------------------------------------------------
(* The operations on an exact database.  n is the request, k its context. *)

LEMMA Switch ==
  ASSUME NEW k, NEW n, k.header = n, NEW stale
  PROVE  LET out == OpSwitch(k, stale)
         IN  /\ n.op = "creat" => out = OpCreat(k)
             /\ n.op \in {"mkdir", "mknod"} => out = OpMkdir(k)
             /\ n.op \in {"link", "symlink"} => out = OpLink(k)
             /\ n.op = "chmod" => out = OpChmod(k)
             /\ n.op = "chown" => out = OpChown(k)
             /\ n.op = "stat" => out = OpStat(k)
             /\ n.op = "rename" => out = OpRename(k, stale)
             /\ n.op = "may_unlink" => out = OpMayUnlink(k)
             /\ n.op = "did_unlink" => out = OpDidUnlink(k)
             /\ n.op = "cancel_unlink" => out = OpCancelUnlink(k)
             /\ n.op = "get_xattr" => out = OpGetXattr(k)
             /\ n.op = "set_xattr" => out = OpSetXattr(k)
             /\ n.op = "list_xattr" => out = OpListXattr(k)
             /\ n.op = "remove_xattr" => out = OpRemoveXattr(k)
             /\ n.op = "open" => out = Answer(k.db, k.msg)
<1>. DEFINE out == OpSwitch(k, stale)
<1>1. ASSUME n.op = "creat" PROVE out = OpCreat(k)
  BY <1>1 DEF OpSwitch
<1>2. ASSUME n.op \in {"mkdir", "mknod"} PROVE out = OpMkdir(k)
  BY <1>2 DEF OpSwitch
<1>3. ASSUME n.op \in {"link", "symlink"} PROVE out = OpLink(k)
  BY <1>3 DEF OpSwitch
<1>4. ASSUME n.op = "chmod" PROVE out = OpChmod(k)
  BY <1>4 DEF OpSwitch
<1>5. ASSUME n.op = "chown" PROVE out = OpChown(k)
  BY <1>5 DEF OpSwitch
<1>6. ASSUME n.op = "stat" PROVE out = OpStat(k)
  BY <1>6 DEF OpSwitch
<1>7. ASSUME n.op = "rename" PROVE out = OpRename(k, stale)
  BY <1>7 DEF OpSwitch
<1>8. ASSUME n.op = "may_unlink" PROVE out = OpMayUnlink(k)
  BY <1>8 DEF OpSwitch
<1>9. ASSUME n.op = "did_unlink" PROVE out = OpDidUnlink(k)
  BY <1>9 DEF OpSwitch
<1>10. ASSUME n.op = "cancel_unlink" PROVE out = OpCancelUnlink(k)
  BY <1>10 DEF OpSwitch
<1>11. ASSUME n.op = "get_xattr" PROVE out = OpGetXattr(k)
  BY <1>11 DEF OpSwitch
<1>12. ASSUME n.op = "set_xattr" PROVE out = OpSetXattr(k)
  BY <1>12 DEF OpSwitch
<1>13. ASSUME n.op = "list_xattr" PROVE out = OpListXattr(k)
  BY <1>13 DEF OpSwitch
<1>14. ASSUME n.op = "remove_xattr" PROVE out = OpRemoveXattr(k)
  BY <1>14 DEF OpSwitch
<1>15. ASSUME n.op = "open" PROVE out = Answer(k.db, k.msg)
  BY <1>15 DEF OpSwitch
<1>. HIDE DEF out
<1>16. QED BY <1>1, <1>2, <1>3, <1>4, <1>5, <1>6, <1>7, <1>8, <1>9, <1>10, <1>11, <1>12,
              <1>13, <1>14, <1>15, Zenon DEF out

\* two functions of inodes differ at i only
OnlyAt(i, mt, mt2) == \A j \in Inodes : j # i => mt2[j] = mt[j]

LEMMA AgreeWithout ==
  ASSUME NEW D \in Dirs, NEW p \in Paths, NEW i, \A q \in Paths : D[q] = i => q = p,
         NEW mt, NEW mt2, OnlyAt(i, mt, mt2)
  PROVE  Agree(Without(D, p), mt, mt2)
<1>1. PICK E : E = Without(D, p)
  OBVIOUS
<1>2. E[p] = NoInode /\ \A q \in Paths : q # p => E[q] = D[q]
  BY <1>1, WithoutDir
<1>3. Agree(E, mt, mt2)
  BY <1>2 DEF Agree, OnlyAt, Dirs
<1>. QED BY <1>1, <1>3, Zenon

LEMMA PutWithout ==
  ASSUME NEW D \in Dirs, NEW p \in Paths, NEW i \in Inodes
  PROVE  /\ Put(Without(D, p), p, i) = Put(D, p, i)
         /\ Without(Without(D, p), p) = Without(D, p)
         /\ D[p] = i => Put(D, p, i) = D
         /\ D[p] = NoInode => Without(D, p) = D
         /\ Without(Put(D, p, i), p) = Without(D, p)
  BY DEF Dirs, Put, Without

\* pdb_link_file() after the rows of the path are gone: n is all that is known
LEMMA Relink ==
  ASSUME NEW d, NEW D \in Dirs, NEW M, NEW c, NEW mt, NEW xm,
         NEW n, n.path \in Paths, n.ino \in Inodes, Exact(d, Without(D, n.path), M, c, mt, xm),
         n.path \notin M, xm[n.ino] = {}, \A q \in Paths : D[q] = n.ino => q = n.path,
         NEW mt2, mt2[n.ino] = Tracked(n.uid, n.mode), OnlyAt(n.ino, mt, mt2)
  PROVE  Exact(pdb_link_file(d, n), Put(D, n.path, n.ino), M, c, mt2, xm)
<1>1. PICK E : E = Without(D, n.path)
  OBVIOUS
<1>2. E \in Dirs /\ E[n.path] = NoInode
  BY <1>1, WithoutDir
<1>3. Agree(E, mt, mt2)
  BY <1>1, AgreeWithout
<1>4. Exact(d, E, M, c, mt, xm)
  BY <1>1, Zenon
<1>5. Exact(pdb_link_file(d, n), Put(E, n.path, n.ino), M, c, mt2, xm)
  BY <1>2, <1>3, <1>4, DbLink
<1>6. Put(E, n.path, n.ino) = Put(D, n.path, n.ino)
  BY <1>1, PutWithout
<1>. QED BY <1>5, <1>6, Zenon

LEMMA MakeNew ==
  ASSUME NEW d, NEW D \in Dirs, NEW M, NEW c, NEW mt, NEW xm, Exact(d, D, M, c, mt, xm),
         NEW n, Like(n, n), n.op \in Makes, n.path \in Paths, n.ino \in Inodes,
         n.path \notin M, xm[n.ino] = {}, \A q \in Paths : D[q] = n.ino => q = n.path,
         NEW mt2, mt2[n.ino] = Tracked(n.uid, n.mode), OnlyAt(n.ino, mt, mt2),
         NEW k, FoundNothing(k, d, n), D[n.path] = NoInode,
         NEW stale, NEW out, out = OpSwitch(k, stale)
  PROVE  Exact(out.db, Put(D, n.path, n.ino), M, c, mt2, xm) /\ out.msg.result = n.result
<1>2. /\ k.db = d /\ k.msg = n /\ k.header = n /\ k.by_path = n /\ k.by_ino = n
      /\ ~k.found_path /\ ~k.found_ino /\ ~k.found_exact
  BY DEF FoundNothing
<1>3. out = Answer(pdb_link_file(d, n), n)
  <2>1. CASE n.op = "creat"
    BY <1>2, <2>1, Switch, Zenon DEF OpCreat
  <2>2. CASE n.op \in {"mkdir", "mknod"}
    <3>1. out = OpMkdir(k)
      BY <1>2, <2>2, Switch
    <3>. QED BY <1>2, <3>1, Zenon DEF OpMkdir
  <2>3. CASE n.op = "symlink"
    <3>1. out = OpLink(k)
      BY <1>2, <2>3, Switch
    <3>. QED BY <1>2, <3>1, Zenon DEF OpLink
  <2>. QED BY <2>1, <2>2, <2>3 DEF Makes
<1>4. Exact(d, Without(D, n.path), M, c, mt, xm)
  BY PutWithout
<1>5. Exact(pdb_link_file(d, n), Put(D, n.path, n.ino), M, c, mt2, xm)
  BY <1>4, Relink
<1>6. out.db = pdb_link_file(d, n) /\ out.msg = n
  BY <1>3, AnswerFields
<1>. QED BY <1>5, <1>6, Zenon

LEMMA MakeAgain ==
  ASSUME NEW d, NEW D \in Dirs, NEW M, NEW c, NEW mt, NEW xm, Exact(d, D, M, c, mt, xm),
         NEW n, Like(n, n), n.op \in Makes, n.path \in Paths, n.ino \in Inodes,
         n.path \notin M, xm[n.ino] = {}, \A q \in Paths : D[q] = n.ino => q = n.path,
         NEW mt2, mt2[n.ino] = Tracked(n.uid, n.mode), OnlyAt(n.ino, mt, mt2),
         NEW k, FoundAll(k, d, n, mt), D[n.path] = n.ino,
         n.op = "creat" => mt[n.ino] = Tracked(n.uid, n.mode),
         NEW stale, NEW out, out = OpSwitch(k, stale)
  PROVE  Exact(out.db, D, M, c, mt2, xm) /\ out.msg.result = n.result
<1>1. PICK E : E = Without(D, n.path)
  OBVIOUS
<1>2. /\ k.db = d /\ k.msg = n /\ k.header = n /\ Loaded(k.by_ino, n, mt)
      /\ k.found_path /\ k.found_ino /\ k.found_exact
  BY DEF FoundAll
<1>3. CASE n.op = "creat"
  <2>1. out = Answer(d, n)
    BY <1>1, <1>2, <1>3, Switch, Zenon DEF OpCreat
  <2>2. \A p \in Paths : D[p] # NoInode => mt2[D[p]] = mt[D[p]]
    BY <1>3 DEF OnlyAt, Dirs
  <2>3. Exact(d, D, M, c, mt2, xm)
    BY <2>2, ExactSame
  <2>4. out.db = d /\ out.msg = n
    BY <2>1, AnswerFields
  <2>. QED BY <2>3, <2>4, Zenon
<1>4. PICK d1 : d1 = pdb_unlink_file(d, n)
  OBVIOUS
<1>5. Exact(d1, E, M, c, mt, xm)
  BY <1>1, <1>4, DbUnlink
<1>6. SUFFICES ASSUME NEW d2, Exact(d2, E, M, c, mt, xm), out = Answer(pdb_link_file(d2, n), n)
               PROVE  Exact(out.db, D, M, c, mt2, xm) /\ out.msg.result = n.result
  <2>1. CASE n.op \in {"mkdir", "mknod"}
    <3>1. PICK d2 : d2 = pdb_unlink_file_dev(d1, k.by_ino)
      OBVIOUS
    <3>2. out = OpMkdir(k)
      BY <1>1, <1>2, <2>1, Switch
    <3>3. out = Answer(pdb_link_file(d2, n), n)
      BY <1>2, <1>4, <3>1, <3>2, Zenon DEF OpMkdir
    <3>4. Exact(d2, E, M, c, mt, xm)
      <4>1. E \in Dirs /\ E[n.path] = NoInode /\ \A q \in Paths : q # n.path => E[q] = D[q]
        BY <1>1, WithoutDir
      <4>2. k.by_ino.ino = n.ino
        BY <1>2 DEF Loaded
      <4>3. \A q \in Paths : E[q] = n.ino => q = n.path
        BY <4>1
      <4>4. Exact(d2, Without(E, n.path), M, c, mt, xm)
        BY <1>5, <3>1, <4>1, <4>2, <4>3, DbUnlinkDev
      <4>5. Without(E, n.path) = E
        BY <1>1, PutWithout
      <4>. QED BY <4>4, <4>5, Zenon
    <3>. QED BY <1>1, <1>6, <3>3, <3>4
  <2>2. CASE n.op = "symlink"
    <3>1. out = OpLink(k)
      BY <1>1, <1>2, <2>2, Switch
    <3>2. out = Answer(pdb_link_file(d1, n), n)
      BY <1>2, <1>4, <2>2, <3>1, Zenon DEF OpLink
    <3>. QED BY <1>1, <1>5, <1>6, <3>2
  <2>3. CASE n.op = "creat"
    BY <1>3, <2>3
  <2>. QED BY <2>1, <2>2, <2>3 DEF Makes
<1>7. Exact(d2, Without(D, n.path), M, c, mt, xm)
  BY <1>1, <1>6, Zenon
<1>8. Exact(pdb_link_file(d2, n), Put(D, n.path, n.ino), M, c, mt2, xm)
  BY <1>7, Relink
<1>9. Put(D, n.path, n.ino) = D
  BY PutWithout
<1>10. out.db = pdb_link_file(d2, n) /\ out.msg = n
  BY <1>6, AnswerFields
<1>. QED BY <1>8, <1>9, <1>10, Zenon


LEMMA LinkNew ==
  ASSUME NEW d, NEW D \in Dirs, NEW M, NEW c, NEW mt, NEW xm, Exact(d, D, M, c, mt, xm),
         NEW n, n.op = "link", n.path \in Paths, n.ino \in Inodes, n.path \notin M,
         InDir(D, n.ino), NEW k, FoundInode(k, d, n, mt), D[n.path] = NoInode,
         NEW stale, NEW out, out = OpSwitch(k, stale)
  PROVE  Exact(out.db, Put(D, n.path, n.ino), M, c, mt, xm) /\ out.msg.result = n.result
<1>1. PICK b : b = k.by_ino
  OBVIOUS
<1>2. /\ k.db = d /\ k.header = n /\ Loaded(b, n, mt) /\ ~k.found_path /\ k.found_ino
  BY <1>1 DEF FoundInode
<1>3. out = OpLink(k)
  BY <1>2, Switch
<1>4. out = Answer(pdb_link_file(d, b), b)
  <2>1. n.op # "symlink"
    OBVIOUS
  <2>. QED BY <1>1, <1>2, <1>3, <2>1, Zenon DEF OpLink
<1>5. b.path = n.path /\ b.ino = n.ino /\ b.result = n.result /\ mt[b.ino] = Tracked(b.uid, b.mode)
  BY <1>2 DEF Loaded, Like
<1>6. Agree(D, mt, mt)
  BY DEF Agree
<1>7. Exact(pdb_link_file(d, b), Put(D, b.path, b.ino), M, c, mt, xm)
  BY <1>5, <1>6, DbLink
<1>8. out.db = pdb_link_file(d, b) /\ out.msg = b
  BY <1>4, AnswerFields
<1>. QED BY <1>5, <1>7, <1>8, Zenon

LEMMA LinkAgain ==
  ASSUME NEW d, NEW D \in Dirs, NEW M, NEW c, NEW mt, NEW xm, Exact(d, D, M, c, mt, xm),
         NEW n, n.op = "link", n.path \in Paths, n.ino \in Inodes, n.path \notin M,
         \E q \in Paths : q # n.path /\ D[q] = n.ino,
         NEW k, FoundAll(k, d, n, mt), D[n.path] = n.ino,
         NEW stale, NEW out, out = OpSwitch(k, stale)
  PROVE  Exact(out.db, D, M, c, mt, xm) /\ out.msg.result = n.result
<1>1. PICK b, d1, E : b = k.by_ino /\ d1 = pdb_unlink_file(d, n) /\ E = Without(D, n.path)
  OBVIOUS
<1>2. /\ k.db = d /\ k.msg = n /\ k.header = n /\ Loaded(b, n, mt)
      /\ k.found_path /\ k.found_ino
  BY <1>1 DEF FoundAll
<1>3. out = OpLink(k)
  BY <1>2, Switch
<1>4. out = Answer(pdb_link_file(d1, b), b)
  <2>1. n.op # "symlink"
    OBVIOUS
  <2>. QED BY <1>1, <1>2, <1>3, <2>1, Zenon DEF OpLink
<1>5. b.path = n.path /\ b.ino = n.ino /\ b.result = n.result /\ mt[b.ino] = Tracked(b.uid, b.mode)
  BY <1>2 DEF Loaded, Like
<1>6. Exact(d1, E, M, c, mt, xm)
  BY <1>1, DbUnlink
<1>7. E \in Dirs /\ E[n.path] = NoInode /\ \A q \in Paths : q # n.path => E[q] = D[q]
  BY <1>1, WithoutDir
<1>8. InDir(E, n.ino) /\ Agree(E, mt, mt)
  BY <1>7 DEF InDir, Agree
<1>9. Exact(pdb_link_file(d1, b), Put(E, b.path, b.ino), M, c, mt, xm)
  BY <1>5, <1>6, <1>7, <1>8, DbLink
<1>10. Put(E, n.path, n.ino) = D
  BY <1>1, PutWithout
<1>11. out.db = pdb_link_file(d1, b) /\ out.msg = b
  BY <1>4, AnswerFields
<1>. QED BY <1>5, <1>9, <1>10, <1>11, Zenon

LEMMA StatKnown ==
  ASSUME NEW d, NEW mt, NEW n, n.op = "stat", NEW k, FoundAll(k, d, n, mt),
         NEW stale, NEW out, out = OpSwitch(k, stale)
  PROVE  out.db = d /\ Loaded(out.msg, n, mt)
<1>1. /\ k.db = d /\ k.header = n /\ Loaded(k.by_ino, n, mt) /\ k.by_path = k.by_ino
      /\ k.found_path
  BY DEF FoundAll
<1>2. out = OpStat(k)
  BY <1>1, Switch
<1>3. DbHeader(k) = k.by_ino
  BY <1>1, Zenon DEF DbHeader
<1>4. out = Answer(d, k.by_ino)
  BY <1>1, <1>2, <1>3, Zenon DEF OpStat
<1>5. out.db = d /\ out.msg = k.by_ino
  BY <1>4, AnswerFields
<1>. QED BY <1>1, <1>5, Zenon

LEMMA FailFields == ASSUME NEW n, IsMsg(n) PROVE Fail(n).result = "fail"
<1>1. PICK a : a = [n EXCEPT !.result = "fail"]
  OBVIOUS
<1>2. a.result = "fail"
  BY <1>1, Zenon DEF IsMsg
<1>. QED BY <1>1, <1>2, Zenon DEF Fail

LEMMA StatUnknown ==
  ASSUME NEW d, NEW n, n.op = "stat", Like(n, n), NEW k, FoundNothing(k, d, n),
         NEW stale, NEW out, out = OpSwitch(k, stale)
  PROVE  out.db = d /\ out.msg.result = "fail"
<1>1. k.db = d /\ k.msg = n /\ k.header = n /\ ~k.found_path /\ ~k.found_ino
  BY DEF FoundNothing
<1>2. out = OpStat(k)
  BY <1>1, Switch
<1>3. out = Answer(d, Fail(n))
  BY <1>1, <1>2, Zenon DEF OpStat
<1>4. out.db = d /\ out.msg = Fail(n)
  BY <1>3, AnswerFields
<1>. QED BY <1>4, FailFields DEF Like

LEMMA ChownOp ==
  ASSUME NEW d, NEW D, NEW M, NEW c, NEW mt, NEW xm, Exact(d, D, M, c, mt, xm),
         NEW n, n.op = "chown", NEW k, FoundAll(k, d, n, mt),
         NEW mt2, mt2[n.ino] = Tracked(n.uid, mt[n.ino].mode), OnlyAt(n.ino, mt, mt2),
         NEW stale, NEW out, out = OpSwitch(k, stale)
  PROVE  Exact(out.db, D, M, c, mt2, xm) /\ out.msg.result = n.result
<1>1. PICK b, a : b = k.by_ino /\ a = [b EXCEPT !.uid = n.uid]
  OBVIOUS
<1>2. /\ k.db = d /\ k.header = n /\ Loaded(b, n, mt) /\ k.found_path /\ k.found_ino
  BY <1>1 DEF FoundAll
<1>3. out = OpChown(k)
  BY <1>2, Switch
<1>4. out = Answer(pdb_update_file(d, a), a)
  BY <1>1, <1>2, <1>3, Zenon DEF OpChown, UpdateOrLink, Known
<1>5. IsMsg(b) /\ b.ino = n.ino /\ b.result = n.result
  BY <1>2 DEF Loaded, Like
<1>6. a.ino = n.ino /\ a.result = n.result /\ a.uid = n.uid /\ a.mode = b.mode
  BY <1>1, <1>5, Zenon DEF IsMsg
<1>7. mt[n.ino].mode = b.mode
  BY <1>2 DEF Loaded, Tracked
<1>8. mt2[a.ino] = Tracked(a.uid, a.mode) /\ \A j \in Inodes : j # a.ino => mt2[j] = mt[j]
  BY <1>6, <1>7, Zenon DEF OnlyAt
<1>9. Exact(pdb_update_file(d, a), D, M, c, mt2, xm)
  BY <1>8, DbUpdate
<1>10. out.db = pdb_update_file(d, a) /\ out.msg = a
  BY <1>4, AnswerFields
<1>. QED BY <1>6, <1>9, <1>10, Zenon

\* chmod(): the type stays, the permissions are those of the request
WithPerm(mode, perm) == [mode EXCEPT !.perm = perm]

LEMMA ChmodOp ==
  ASSUME NEW d, NEW D, NEW M, NEW c, NEW mt, NEW xm, Exact(d, D, M, c, mt, xm),
         NEW n, n.op = "chmod", NEW k, FoundAll(k, d, n, mt),
         NEW mt2, mt2[n.ino] = Tracked(mt[n.ino].uid, WithPerm(mt[n.ino].mode, n.mode.perm)),
         OnlyAt(n.ino, mt, mt2), NEW stale, NEW out, out = OpSwitch(k, stale)
  PROVE  Exact(out.db, D, M, c, mt2, xm) /\ out.msg.result = n.result
<1>1. PICK b, a : b = k.by_ino /\ a = [b EXCEPT !.mode.perm = n.mode.perm]
  OBVIOUS
<1>2. /\ k.db = d /\ k.header = n /\ Loaded(b, n, mt) /\ k.found_path /\ k.found_ino
  BY <1>1 DEF FoundAll
<1>3. out = OpChmod(k)
  BY <1>2, Switch
<1>4. out = Answer(pdb_update_file(d, a), a)
  BY <1>1, <1>2, <1>3, Zenon DEF OpChmod, UpdateOrLink, Known
<1>5. IsMsg(b) /\ b.ino = n.ino /\ b.result = n.result
  BY <1>2 DEF Loaded, Like
<1>6. /\ a.ino = n.ino /\ a.result = n.result /\ a.uid = b.uid
      /\ a.mode = WithPerm(b.mode, n.mode.perm)
  BY <1>1, <1>5, Zenon DEF IsMsg, WithPerm
<1>7. mt[n.ino].mode = b.mode /\ mt[n.ino].uid = b.uid
  BY <1>2 DEF Loaded, Tracked
<1>8. mt2[a.ino] = Tracked(a.uid, a.mode) /\ \A j \in Inodes : j # a.ino => mt2[j] = mt[j]
  BY <1>6, <1>7, Zenon DEF OnlyAt
<1>9. Exact(pdb_update_file(d, a), D, M, c, mt2, xm)
  BY <1>8, DbUpdate
<1>10. out.db = pdb_update_file(d, a) /\ out.msg = a
  BY <1>4, AnswerFields
<1>. QED BY <1>6, <1>9, <1>10, Zenon

\* what the contexts have in common
Plainly(k, d, n) == k.db = d /\ k.msg = n /\ k.header = n

LEMMA MayUnlinkExact ==
  ASSUME NEW d, NEW D, NEW M, NEW c, NEW mt, NEW xm, Exact(d, D, M, c, mt, xm),
         NEW n, Like(n, n), n.op = "may_unlink", n.path \in Paths, n.client = c,
         NEW k, Plainly(k, d, n), NEW stale, NEW out, out = OpSwitch(k, stale)
  PROVE  /\ Exact(out.db, D, M \cup {n.path}, c, mt, xm)
         /\ D[n.path] # NoInode => out.msg.result = n.result
         /\ D[n.path] = NoInode => out.msg.result = "fail"
<1>1. k.db = d /\ k.msg = n /\ k.header = n
  BY DEF Plainly
<1>2. out = OpMayUnlink(k)
  BY <1>1, Switch
<1>3. out = Answer(pdb_may_unlink_file(d, n, c), IF Markable(d, n) THEN n ELSE Fail(n))
  BY <1>1, <1>2, Zenon DEF OpMayUnlink
<1>4. out.db = pdb_may_unlink_file(d, n, c) /\ out.msg = IF Markable(d, n) THEN n ELSE Fail(n)
  BY <1>3, AnswerFields
<1>5. Exact(pdb_may_unlink_file(d, n, c), D, M \cup {n.path}, c, mt, xm)
  BY DbMark
<1>6. Markable(d, n) <=> D[n.path] # NoInode
  <2>1. n.path # NoPath
    BY Values
  <2>. QED BY <2>1, NoInodeNot DEF Markable, Exact, FilesExact, RowRight
<1>7. Fail(n).result = "fail"
  BY FailFields DEF Like
<1>. QED BY <1>4, <1>5, <1>6, <1>7, Zenon

LEMMA DidUnlinkExact ==
  ASSUME NEW d, NEW D \in Dirs, NEW M, NEW c, NEW mt, NEW xm, Exact(d, D, M, c, mt, xm),
         NEW n, n.op = "did_unlink", n.path \in Paths, n.client = c, n.ino \in Inodes,
         (n.ino = D[n.path] /\ n.path \in M) \/ D[n.path] = NoInode,
         NEW k, Plainly(k, d, n), NEW stale, NEW out, out = OpSwitch(k, stale)
  PROVE  Exact(out.db, Without(D, n.path), M, c, mt, xm) /\ out.msg.result = n.result
<1>1. k.db = d /\ k.msg = n /\ k.header = n
  BY DEF Plainly
<1>2. out = OpDidUnlink(k)
  BY <1>1, Switch
<1>3. out = Answer(pdb_did_unlink_file(d, n.path, n, c), n)
  BY <1>1, <1>2, Zenon DEF OpDidUnlink
<1>4. out.db = pdb_did_unlink_file(d, n.path, n, c) /\ out.msg = n
  BY <1>3, AnswerFields
<1>5. Exact(pdb_did_unlink_file(d, n.path, n, c), Without(D, n.path), M, c, mt, xm)
  BY DbDidUnlink
<1>. QED BY <1>4, <1>5, Zenon

LEMMA CancelExact ==
  ASSUME NEW d, NEW D, NEW M, NEW c, NEW mt, NEW xm, Exact(d, D, M, c, mt, xm),
         NEW n, n.op = "cancel_unlink", n.path \in Paths, n.ino \in Inodes,
         n.ino = D[n.path],
         NEW k, Plainly(k, d, n), NEW stale, NEW out, out = OpSwitch(k, stale)
  PROVE  Exact(out.db, D, M \ {n.path}, c, mt, xm) /\ out.msg.result = n.result
<1>1. k.db = d /\ k.msg = n /\ k.header = n
  BY DEF Plainly
<1>2. out = OpCancelUnlink(k)
  BY <1>1, Switch
<1>3. out = Answer(pdb_cancel_unlink_file(d, n), n)
  BY <1>1, <1>2, Zenon DEF OpCancelUnlink
<1>4. out.db = pdb_cancel_unlink_file(d, n) /\ out.msg = n
  BY <1>3, AnswerFields
<1>5. Exact(pdb_cancel_unlink_file(d, n), D, M \ {n.path}, c, mt, xm)
  BY DbCancel
<1>. QED BY <1>4, <1>5, Zenon

LEMMA RenameExact ==
  ASSUME NEW d, NEW D \in Dirs, NEW M, NEW c, NEW mt, NEW xm, Exact(d, D, M, c, mt, xm),
         NEW n, n.op = "rename", n.path \in Paths, n.oldpath \in Paths, n.oldpath # n.path,
         n.ino \in Inodes, D[n.oldpath] = n.ino, D[n.path] = NoInode, n.path \notin M,
         \A p \in Paths : Len(p) = 1,
         NEW k, Plainly(k, d, n), NEW out, out = OpSwitch(k, NoPath)
  PROVE  /\ Exact(out.db, Put(Without(D, n.oldpath), n.path, n.ino), M, c, mt, xm)
         /\ out.msg.result = n.result
<1>1. k.db = d /\ k.msg = n /\ k.header = n
  BY DEF Plainly
<1>2. out = OpRename(k, NoPath)
  BY <1>1, Switch
<1>3. PICK e : e = pdb_update_inode(pdb_rename_file(d, n.oldpath, n), n, NoPath)
  OBVIOUS
<1>4. out = Answer(e, n)
  BY <1>1, <1>2, <1>3, Zenon DEF OpRename
<1>5. out.db = e /\ out.msg = n
  BY <1>4, AnswerFields
<1>6. Exact(e, Put(Without(D, n.oldpath), n.path, n.ino), M, c, mt, xm)
  BY <1>3, DbRename
<1>. QED BY <1>5, <1>6, Zenon

LEMMA OpenExact ==
  ASSUME NEW d, NEW n, n.op = "open", NEW k, Plainly(k, d, n),
         NEW stale, NEW out, out = OpSwitch(k, stale)
  PROVE  out.db = d /\ out.msg = n
<1>1. k.db = d /\ k.msg = n /\ k.header = n
  BY DEF Plainly
<1>2. out = Answer(d, n)
  BY <1>1, Switch, Zenon
<1>. QED BY <1>2, AnswerFields


\* what getxattr() and listxattr() answer if the attributes are the pairs P
GotXattr(P, n, a) ==
    \/ a.result = n.result /\ << n.name, a.value >> \in P
    \/ a.result = "fail" /\ \A y \in P : y[1] # n.name

NamesOf(P) == {y[1] : y \in P}

LEMMA GetXattrExact ==
  ASSUME NEW d, NEW D \in Dirs, NEW M, NEW c, NEW mt, NEW xm, Exact(d, D, M, c, mt, xm),
         NEW n, Like(n, n), n.op = "get_xattr", n.ino \in Inodes, InDir(D, n.ino),
         NEW k, Plainly(k, d, n), NEW stale, NEW out, out = OpSwitch(k, stale)
  PROVE  out.db = d /\ GotXattr(xm[n.ino], n, out.msg)
<1>1. k.db = d /\ k.msg = n /\ k.header = n
  BY DEF Plainly
<1>2. out = OpGetXattr(k)
  BY <1>1, Switch
<1>3. PICK rows, X : rows = pdb_get_xattr(d, n) /\ X = d.xattrs
  OBVIOUS
<1>4. rows = {x \in X : x.ino = n.ino /\ x.name = n.name}
  BY <1>3 DEF pdb_get_xattr, XattrRows
<1>5. XattrsExact(X, D, xm)
  BY <1>3 DEF Exact
<1>6. Pairs(X, n.ino) = xm[n.ino]
  BY <1>5, NoInodeNot DEF XattrsExact, InDir
<1>7. CASE rows = {}
  <2>1. out = Answer(d, Fail(n))
    BY <1>1, <1>2, <1>3, <1>7, Zenon DEF OpGetXattr
  <2>2. out.db = d /\ out.msg = Fail(n)
    BY <2>1, AnswerFields
  <2>3. Fail(n).result = "fail"
    BY FailFields DEF Like
  <2>4. \A y \in Pairs(X, n.ino) : y[1] # n.name
    <3>1. SUFFICES ASSUME NEW z \in X, z.ino = n.ino PROVE << z.name, z.value >>[1] # n.name
      BY DEF Pairs
    <3>. QED BY <1>4, <1>7, <3>1
  <2>. QED BY <1>6, <2>2, <2>3, <2>4, Zenon DEF GotXattr
<1>8. CASE rows # {}
  <2>1. PICK r, a : r = FirstById(rows) /\ a = [n EXCEPT !.value = r.value]
    OBVIOUS
  <2>2. out = Answer(d, a)
    BY <1>1, <1>2, <1>3, <1>8, <2>1, Zenon DEF OpGetXattr
  <2>3. out.db = d /\ out.msg = a
    BY <2>2, AnswerFields
  <2>4. r \in rows
    <3>1. \A t \in rows : t.id \in Nat
      BY <1>4, <1>5 DEF XattrsExact, Numbered
    <3>. QED BY <1>8, <2>1, <3>1, FirstRow
  <2>5. a.value = r.value /\ a.result = n.result
    <3>1. IsMsg(n)
      BY DEF Like
    <3>. QED BY <2>1, <3>1, Zenon DEF IsMsg
  <2>6. << n.name, r.value >> \in Pairs(X, n.ino)
    BY <1>4, <2>4 DEF Pairs
  <2>. QED BY <1>6, <2>3, <2>5, <2>6, Zenon DEF GotXattr
<1>. QED BY <1>7, <1>8

LEMMA ListXattrExact ==
  ASSUME NEW d, NEW D \in Dirs, NEW M, NEW c, NEW mt, NEW xm, Exact(d, D, M, c, mt, xm),
         NEW n, Like(n, n), n.op = "list_xattr", n.ino \in Inodes, InDir(D, n.ino),
         NEW k, Plainly(k, d, n), NEW stale, NEW out, out = OpSwitch(k, stale)
  PROVE  out.db = d /\ out.msg.result = n.result /\ out.msg.value = NamesOf(xm[n.ino])
<1>1. k.db = d /\ k.msg = n /\ k.header = n
  BY DEF Plainly
<1>2. out = OpListXattr(k)
  BY <1>1, Switch
<1>3. PICK v, X : v = pdb_list_xattr(d, n) /\ X = d.xattrs
  OBVIOUS
<1>4. v = {x.name : x \in {y \in X : y.ino = n.ino}}
  BY <1>3 DEF pdb_list_xattr
<1>5. Pairs(X, n.ino) = xm[n.ino]
  BY <1>3, NoInodeNot DEF Exact, XattrsExact, InDir
<1>6. PICK a : a = [n EXCEPT !.value = v]
  OBVIOUS
<1>7. out = Answer(d, a)
  BY <1>1, <1>2, <1>3, <1>6, Zenon DEF OpListXattr
<1>8. out.db = d /\ out.msg = a
  BY <1>7, AnswerFields
<1>9. a.value = v /\ a.result = n.result
  <2>1. IsMsg(n)
    BY DEF Like
  <2>. QED BY <1>6, <2>1, Zenon DEF IsMsg
<1>10. PICK P : P = Pairs(X, n.ino)
  OBVIOUS
<1>11. \A x \in v : \E y \in P : x = y[1]
  <2>1. SUFFICES ASSUME NEW z \in X, z.ino = n.ino PROVE \E y \in P : z.name = y[1]
    BY <1>4
  <2>2. << z.name, z.value >> \in P /\ z.name = << z.name, z.value >>[1]
    BY <1>10, <2>1 DEF Pairs
  <2>. QED BY <2>2
<1>12. \A y \in P : y[1] \in v
  <2>1. SUFFICES ASSUME NEW z \in X, z.ino = n.ino PROVE << z.name, z.value >>[1] \in v
    BY <1>10 DEF Pairs
  <2>. QED BY <1>4, <2>1
<1>13. v = {y[1] : y \in P}
  BY <1>11, <1>12
<1>. QED BY <1>5, <1>8, <1>9, <1>10, <1>13, Zenon DEF NamesOf

LEMMA SetXattrExact ==
  ASSUME NEW d, NEW D \in Dirs, NEW M, NEW c, NEW mt, NEW xm, Exact(d, D, M, c, mt, xm),
         NEW n, n.op = "set_xattr", n.ino \in Inodes, InDir(D, n.ino),
         NEW xm2, xm2[n.ino] = OtherPairs(xm[n.ino], n.name) \cup {<< n.name, n.value >>},
         OnlyAt(n.ino, xm, xm2),
         NEW k, Plainly(k, d, n), NEW stale, NEW out, out = OpSwitch(k, stale)
  PROVE  Exact(out.db, D, M, c, mt, xm2) /\ out.msg.result = n.result
<1>1. k.db = d /\ k.msg = n /\ k.header = n
  BY DEF Plainly
<1>2. out = OpSetXattr(k)
  BY <1>1, Switch
<1>3. ~SetXattrFails(d, n)
  BY DEF SetXattrFails
<1>4. out = Answer(pdb_set_xattr(d, n), n)
  BY <1>1, <1>2, <1>3, Zenon DEF OpSetXattr
<1>5. out.db = pdb_set_xattr(d, n) /\ out.msg = n
  BY <1>4, AnswerFields
<1>6. Exact(pdb_set_xattr(d, n), D, M, c, mt, xm2)
  BY DbSetXattr DEF OnlyAt
<1>. QED BY <1>5, <1>6, Zenon

LEMMA RemoveXattrExact ==
  ASSUME NEW d, NEW D \in Dirs, NEW M, NEW c, NEW mt, NEW xm, Exact(d, D, M, c, mt, xm),
         NEW n, n.op = "remove_xattr", n.ino \in Inodes, InDir(D, n.ino),
         NEW xm2, xm2[n.ino] = OtherPairs(xm[n.ino], n.name), OnlyAt(n.ino, xm, xm2),
         NEW k, Plainly(k, d, n), NEW stale, NEW out, out = OpSwitch(k, stale)
  PROVE  Exact(out.db, D, M, c, mt, xm2) /\ out.msg.result = n.result
<1>1. k.db = d /\ k.msg = n /\ k.header = n
  BY DEF Plainly
<1>2. out = OpRemoveXattr(k)
  BY <1>1, Switch
<1>4. out = Answer(pdb_remove_xattr(d, n), n)
  BY <1>1, <1>2, Zenon DEF OpRemoveXattr
<1>5. out.db = pdb_remove_xattr(d, n) /\ out.msg = n
  BY <1>4, AnswerFields
<1>6. Exact(pdb_remove_xattr(d, n), D, M, c, mt, xm2)
  BY DbRemoveXattr DEF OnlyAt
<1>. QED BY <1>5, <1>6, Zenon

-----------------------------------------------------------------------------
(* The ghosts: what a request promises *)

LEMMA PromisedAt ==
  ASSUME FsRight, NEW i \in Inodes, NEW v
  PROVE  /\ Put(meta, i, v)[i] = v /\ OnlyAt(i, meta, Put(meta, i, v))
         /\ DOMAIN Put(meta, i, v) = Inodes
  BY DEF FsRight, OnlyAt, Put

LEMMA PromisedMake ==
  ASSUME FsRight, NEW m, m.ino \in Inodes, m.op \in Makes
  PROVE  /\ Promised(m)[m.ino] = Tracked(m.uid, m.mode)
         /\ OnlyAt(m.ino, meta, Promised(m)) /\ DOMAIN Promised(m) = Inodes
<1>1. Promised(m) = Put(meta, m.ino, Tracked(m.uid, m.mode))
  BY DEF Promised, Makes, Put
<1>. QED BY <1>1, PromisedAt, Zenon

LEMMA PromisedChown ==
  ASSUME FsRight, NEW m, m.ino \in Inodes, m.op = "chown",
         NEW u, NEW w, meta[m.ino] = Tracked(u, w)
  PROVE  /\ Promised(m)[m.ino] = Tracked(Overridden(u, m.args), w)
         /\ OnlyAt(m.ino, meta, Promised(m)) /\ DOMAIN Promised(m) = Inodes
<1>1. PICK v : v = IF meta[m.ino].tracked
                   THEN Tracked(Overridden(meta[m.ino].uid, m.args), meta[m.ino].mode)
                   ELSE Tracked(Overridden(RealUid, m.args), m.mode)
  OBVIOUS
<1>2. Promised(m) = [meta EXCEPT ![m.ino] =
                        IF @.tracked THEN Tracked(Overridden(@.uid, m.args), @.mode)
                        ELSE Tracked(Overridden(RealUid, m.args), m.mode)]
  BY DEF Promised
<1>3. Promised(m) = Put(meta, m.ino, v)
  BY <1>1, <1>2, Zenon DEF Put
<1>4. meta[m.ino].tracked /\ meta[m.ino].uid = u /\ meta[m.ino].mode = w
  BY DEF Tracked
<1>5. v = Tracked(Overridden(u, m.args), w)
  BY <1>1, <1>4, Zenon
<1>6. /\ Put(meta, m.ino, v)[m.ino] = v /\ OnlyAt(m.ino, meta, Put(meta, m.ino, v))
      /\ DOMAIN Put(meta, m.ino, v) = Inodes
  BY PromisedAt
<1>. QED BY <1>3, <1>5, <1>6, Zenon

LEMMA PromisedChmod ==
  ASSUME FsRight, NEW m, m.ino \in Inodes, m.op = "chmod",
         NEW u, NEW w, meta[m.ino] = Tracked(u, w)
  PROVE  /\ Promised(m)[m.ino] = Tracked(u, WithPerm(w, m.mode.perm))
         /\ OnlyAt(m.ino, meta, Promised(m)) /\ DOMAIN Promised(m) = Inodes
<1>1. PICK t, perm : t = meta[m.ino] /\ perm = m.mode.perm
  OBVIOUS
<1>2. PICK v : v = IF meta[m.ino].tracked THEN [meta[m.ino] EXCEPT !.mode.perm = m.mode.perm]
                   ELSE Tracked(m.uid, m.mode)
  OBVIOUS
<1>3. Promised(m) = [meta EXCEPT ![m.ino] =
                        IF @.tracked THEN [@ EXCEPT !.mode.perm = m.mode.perm]
                        ELSE Tracked(m.uid, m.mode)]
  BY DEF Promised
<1>4. Promised(m) = Put(meta, m.ino, v)
  BY <1>2, <1>3, Zenon DEF Put
<1>5. t = [tracked |-> TRUE, uid |-> u, mode |-> w]
  BY <1>1 DEF Tracked
<1>6. v = [t EXCEPT !.mode.perm = perm]
  BY <1>1, <1>2, <1>5
<1>7. v = Tracked(u, WithPerm(w, perm))
  BY <1>5, <1>6 DEF Tracked, WithPerm
<1>8. v = Tracked(u, WithPerm(w, m.mode.perm))
  BY <1>1, <1>7, Zenon
<1>9. /\ Put(meta, m.ino, v)[m.ino] = v /\ OnlyAt(m.ino, meta, Put(meta, m.ino, v))
      /\ DOMAIN Put(meta, m.ino, v) = Inodes
  BY PromisedAt
<1>. QED BY <1>4, <1>8, <1>9, Zenon

LEMMA PromisedNothing ==
  ASSUME NEW m, m.op \notin Makes \cup {"chown", "chmod"} \cup PrefersInode,
         m.op = "link" => m.ino \in Inodes /\ meta[m.ino].tracked
  PROVE  Promised(m) = meta
<1>1. CASE m.ino \notin Inodes
  <2>1. m.op \notin {"creat", "mkdir", "mknod", "symlink", "link", "chown", "fchown",
                    "chmod", "fchmod"}
    BY <1>1 DEF Makes, PrefersInode
  <2>. QED BY <1>1, <2>1 DEF Promised
<1>2. CASE m.ino \in Inodes /\ m.op = "link"
  <2>1. meta[m.ino].tracked
    BY <1>2
  <2>. QED BY <1>2, <2>1 DEF Promised
<1>3. CASE m.ino \in Inodes /\ m.op # "link"
  <2>1. m.op \notin {"creat", "mkdir", "mknod", "symlink", "link", "chown", "fchown",
                    "chmod", "fchmod"}
    BY <1>3 DEF Makes, PrefersInode
  <2>. QED BY <1>3, <2>1 DEF Promised
<1>. QED BY <1>1, <1>2, <1>3

LEMMA PromisedXattrsAt ==
  ASSUME FsRight, NEW m, m.ino \in Inodes
  PROVE  /\ m.op = "set_xattr" =>
              PromisedXattrs(m)[m.ino] =
                 OtherPairs(xmeta[m.ino], m.name) \cup {<< m.name, m.value >>}
         /\ m.op = "remove_xattr" =>
              PromisedXattrs(m)[m.ino] = OtherPairs(xmeta[m.ino], m.name)
         /\ OnlyAt(m.ino, xmeta, PromisedXattrs(m)) /\ DOMAIN PromisedXattrs(m) = Inodes
<1>1. ASSUME NEW v, NEW xm2, xm2 = [xmeta EXCEPT ![m.ino] = v]
      PROVE  xm2[m.ino] = v /\ OnlyAt(m.ino, xmeta, xm2) /\ DOMAIN xm2 = Inodes
  BY <1>1 DEF FsRight, OnlyAt
<1>2. CASE m.op = "set_xattr"
  <2>1. PICK v : v = OtherPairs(xmeta[m.ino], m.name) \cup {<< m.name, m.value >>}
    OBVIOUS
  <2>2. PromisedXattrs(m) = [xmeta EXCEPT ![m.ino] =
                {x \in @ : x[1] # m.name} \cup {<< m.name, m.value >>}]
    BY <1>2 DEF PromisedXattrs
  <2>3. PromisedXattrs(m) = [xmeta EXCEPT ![m.ino] = v]
    BY <2>1, <2>2, Zenon DEF OtherPairs
  <2>. QED BY <1>1, <1>2, <2>1, <2>3
<1>3. CASE m.op = "remove_xattr"
  <2>1. PICK v : v = OtherPairs(xmeta[m.ino], m.name)
    OBVIOUS
  <2>2. PromisedXattrs(m) = [xmeta EXCEPT ![m.ino] = {x \in @ : x[1] # m.name}]
    BY <1>3 DEF PromisedXattrs
  <2>3. PromisedXattrs(m) = [xmeta EXCEPT ![m.ino] = v]
    BY <2>1, <2>2, Zenon DEF OtherPairs
  <2>. QED BY <1>1, <1>3, <2>1, <2>3
<1>4. CASE m.op \notin {"set_xattr", "remove_xattr"}
  BY <1>4 DEF PromisedXattrs, FsRight, OnlyAt
<1>. QED BY <1>2, <1>3, <1>4

LEMMA PromisedNoXattrs ==
  ASSUME NEW m, m.op \notin {"set_xattr", "remove_xattr"}
  PROVE  PromisedXattrs(m) = xmeta
  BY DEF PromisedXattrs

-----------------------------------------------------------------------------
(* The server answers an outstanding request *)

Outstanding(c, x, m) ==
    IsRequest(c, m) /\ FsRight /\ RequestRight(x, m) /\ CallRight(x, m)

\* what the answer leaves behind
Served(c, x, m, out) ==
    /\ Exact(out.db, DirAfter(x, m), MarksAfter(x, m), c, Promised(m), PromisedXattrs(m))
    /\ AnswerRight(m, out.msg)

PathRequests == {"open", "chown", "chmod", "set_xattr", "get_xattr", "list_xattr", "remove_xattr"}

LEMMA RequestStep ==
  ASSUME NEW x, NEW m, CallRight(x, m)
  PROVE  /\ m.op \in Makes => x.pc \in {"open_created", "last"}
         /\ m.op \in PathRequests \cup {"link", "rename"} => x.pc = "last"
         /\ m.op = "stat" => x.pc \in {"link_known", "chown", "rename_real", "last"}
         /\ m.op = "may_unlink" => x.pc \in {"unlink", "rmdir", "rename_old", "rename_stat"}
         /\ m.op = "did_unlink" => x.pc \in {"rename_did", "last"}
         /\ m.op = "cancel_unlink" => x.pc \in {"rename_cancel", "last"}
         /\ m.op \in Makes \cup PathRequests \cup {"link", "rename", "stat", "may_unlink",
                                             "did_unlink", "cancel_unlink"}
  BY DEF CallRight, Makes, Asks, Renaming, PathRequests

LEMMA RequestViews ==
  ASSUME NEW x, NEW m, CallRight(x, m)
  PROVE  /\ m.op \in Makes \cup {"link"} =>
              /\ DirBefore(x, m) = Without(dir, m.path) /\ DirAfter(x, m) = dir
              /\ MarksBefore(x, m) = {} /\ MarksAfter(x, m) = {}
         /\ m.op \in PathRequests =>
              /\ DirBefore(x, m) = dir /\ DirAfter(x, m) = dir
              /\ MarksBefore(x, m) = {} /\ MarksAfter(x, m) = {}
         /\ m.op = "stat" => DirBefore(x, m) = DirAfter(x, m)
         /\ m.op = "stat" => MarksBefore(x, m) = MarksAfter(x, m)
         /\ m.op \in {"may_unlink", "cancel_unlink"} =>
              DirBefore(x, m) = dir /\ DirAfter(x, m) = dir
<1>1. /\ m.op \in Makes => x.pc \in {"open_created", "last"}
      /\ m.op \in PathRequests \cup {"link", "rename"} => x.pc = "last"
      /\ m.op = "stat" => x.pc \in {"link_known", "chown", "rename_real", "last"}
      /\ m.op = "may_unlink" => x.pc \in {"unlink", "rmdir", "rename_old", "rename_stat"}
      /\ m.op = "cancel_unlink" => x.pc \in {"rename_cancel", "last"}
  BY RequestStep
<1>2. CASE m.op \in Makes \cup {"link"}
  BY <1>1, <1>2 DEF DirBefore, DirAfter, MarksBefore, MarksAfter, Makes, PathRequests
<1>3. CASE m.op \in PathRequests
  BY <1>1, <1>3 DEF DirBefore, DirAfter, MarksBefore, MarksAfter, Makes, PathRequests
<1>4. CASE m.op = "stat"
  BY <1>1, <1>4 DEF DirBefore, DirAfter, MarksBefore, MarksAfter, Makes, PathRequests
<1>5. CASE m.op \in {"may_unlink", "cancel_unlink"}
  BY <1>1, <1>5 DEF DirBefore, DirAfter, Makes, PathRequests
<1>. QED BY <1>2, <1>3, <1>4, <1>5 DEF Makes, PathRequests

LEMMA ReadyRequest ==
  ASSUME NEW c, NEW x, NEW m, Outstanding(c, x, m), m.op \notin PrefersInode \cup {"exec"},
         NEW D, NEW M, FilesExact(db.files, D, M, c, meta)
  PROVE  Ready(m, D, meta, c)
<1>1. SUFFICES ASSUME m.op # "did_unlink", m.ino \in Inodes, InDir(D, m.ino)
               PROVE  ~KindClash(meta[m.ino], m)
  BY DEF Outstanding, IsRequest, RequestRight, Ready
<1>2. PICK p \in Paths : D[p] = m.ino
  BY <1>1 DEF InDir
<1>3. PICK r \in db.files : r.path = p
  BY <1>1, <1>2, NoInodeNot DEF FilesExact
<1>4. meta[m.ino] = Tracked(r.uid, r.mode)
  BY <1>2, <1>3 DEF FilesExact, RowRight
<1>5. meta[m.ino] # Untracked
  BY <1>4 DEF Tracked, Untracked
<1>6. m.ino = dir[m.path] /\ m.path \in Paths /\ Alike(m.mode, kind[m.ino])
  BY <1>1, NoInodeNot DEF Outstanding, RequestRight, Knows
<1>7. kind[m.ino] # "free" /\ MetaRight(m.ino)
  BY <1>1, <1>6, NoInodeNot DEF Outstanding, FsRight
<1>8. Alike(meta[m.ino].mode, kind[m.ino])
  BY <1>5, <1>7 DEF MetaRight
<1>. QED BY <1>6, <1>8 DEF Alike, KindClash, IsDir, IsLnk

LEMMA ServeMakes ==
  ASSUME NEW c, NEW x, NEW m, Outstanding(c, x, m), m.op \in Makes,
         NEW D \in Dirs, DbIs(D, {}, c),
         D = Without(dir, m.path) \/ D = dir,
         D = dir /\ m.op = "creat" => meta[m.ino] = Tracked(m.uid, m.mode),
         NEW stale, NEW out, out = pseudo_op(db, m, stale)
  PROVE  Served(c, x, m, out)
<1>1. Exact(db, D, {}, c, meta, xmeta) /\ FilesExact(db.files, D, {}, c, meta)
  BY DEF DbIs, Exact
<1>2. m.op \notin PrefersInode \cup {"exec", "link", "rename", "did_unlink", "may_unlink", "stat"}
  BY DEF Makes, PrefersInode
<1>3. Ready(m, D, meta, c)
  BY <1>1, <1>2, ReadyRequest
<1>4. /\ m.path \in Paths /\ m.ino \in Inodes /\ dir[m.path] = m.ino
      /\ \A q \in Paths : dir[q] = dir[m.path] => q = m.path
      /\ xmeta[m.ino] = {} /\ dir \in Dirs
  BY <1>2 DEF Outstanding, RequestRight, Knows, Sole, FsRight
<1>5. D[m.path] = m.ino \/ D[m.path] = NoInode
  BY <1>4, WithoutDir
<1>6. \A q \in Paths : D[q] = m.ino => q = m.path
  BY <1>4, WithoutDir
<1>7. D[m.path] = NoInode => ~InDir(D, m.ino)
  BY <1>4, <1>6, NoInodeNot DEF InDir
<1>8. Met(db, m, D, meta, stale, out)
  BY <1>1, <1>2, <1>3, <1>5, <1>7, Meets
<1>9. PICK n : n = Sent(m)
  OBVIOUS
<1>10. /\ Like(n, n) /\ n.op = m.op /\ n.path = m.path /\ n.ino = m.ino /\ n.uid = m.uid
       /\ n.mode = m.mode /\ n.result = "succeed"
  BY <1>3, <1>9, SentFields DEF Ready
<1>11. PICK mt2 : mt2 = Promised(m)
  OBVIOUS
<1>12. mt2[n.ino] = Tracked(n.uid, n.mode) /\ OnlyAt(n.ino, meta, mt2)
  BY <1>4, <1>10, <1>11, PromisedMake DEF Outstanding
<1>13. PromisedXattrs(m) = xmeta
  BY PromisedNoXattrs DEF Makes
<1>14. DirAfter(x, m) = dir /\ MarksAfter(x, m) = {}
  BY RequestViews DEF Outstanding
<1>15. Exact(out.db, dir, {}, c, mt2, xmeta) /\ out.msg.result = "succeed"
  <2>1. CASE D[m.path] = m.ino
    <3>1. PICK k : FoundAll(k, db, n, meta) /\ out = OpSwitch(k, stale)
      BY <1>4, <1>8, <1>9, <2>1, NoInodeNot DEF Met
    <3>2. D = dir
      BY <1>4, <2>1, WithoutDir, NoInodeNot
    <3>. QED BY <1>1, <1>4, <1>6, <1>10, <1>12, <2>1, <3>1, <3>2, MakeAgain
  <2>2. CASE D[m.path] = NoInode
    <3>1. PICK k : FoundNothing(k, db, n) /\ out = OpSwitch(k, stale)
      BY <1>4, <1>7, <1>8, <1>9, <2>2, NoInodeNot DEF Met
    <3>2. Put(D, n.path, n.ino) = dir
      <4>1. D = Without(dir, m.path)
        BY <1>4, <2>2, NoInodeNot
      <4>. QED BY <1>4, <1>10, <4>1, PutWithout
    <3>3. /\ n.op \in Makes /\ n.path \in Paths /\ n.ino \in Inodes /\ n.path \notin {}
          /\ xmeta[n.ino] = {} /\ D[n.path] = NoInode
          /\ \A q \in Paths : D[q] = n.ino => q = n.path
      BY <1>4, <1>6, <1>10, <2>2
    <3>4. Exact(out.db, Put(D, n.path, n.ino), {}, c, mt2, xmeta) /\ out.msg.result = n.result
      BY <1>1, <1>10, <1>12, <3>1, <3>3, MakeNew
    <3>. QED BY <1>10, <3>2, <3>4, Zenon
  <2>. QED BY <1>5, <2>1, <2>2
<1>16. AnswerRight(m, out.msg)
  BY <1>15 DEF AnswerRight, Makes
<1>. QED BY <1>11, <1>13, <1>14, <1>15, <1>16, Zenon DEF Served

LEMMA TrackedFields ==
  ASSUME NEW u, NEW w
  PROVE  /\ Tracked(u, w).tracked /\ Tracked(u, w).uid = u /\ Tracked(u, w).mode = w
         /\ Tracked(u, w) # Untracked
  BY DEF Tracked, Untracked

LEMMA KnownInode ==
  ASSUME NEW F, NEW D, NEW M, NEW c, NEW mt, FilesExact(F, D, M, c, mt),
         NEW i \in Inodes, InDir(D, i)
  PROVE  mt[i] = Tracked(mt[i].uid, mt[i].mode) /\ mt[i].tracked
<1>1. PICK p \in Paths : D[p] = i
  BY DEF InDir
<1>2. PICK r \in F : r.path = p
  BY <1>1, NoInodeNot DEF FilesExact
<1>3. mt[i] = Tracked(r.uid, r.mode)
  BY <1>1, <1>2 DEF FilesExact, RowRight
<1>4. mt[i].uid = r.uid /\ mt[i].mode = r.mode /\ mt[i].tracked
  BY <1>3 DEF Tracked
<1>. QED BY <1>3, <1>4, Zenon

LEMMA ServeLink ==
  ASSUME NEW c, NEW x, NEW m, Outstanding(c, x, m), m.op = "link",
         NEW D \in Dirs, DbIs(D, {}, c),
         D = Without(dir, m.path) \/ D = dir,
         NEW stale, NEW out, out = pseudo_op(db, m, stale)
  PROVE  Served(c, x, m, out)
<1>1. Exact(db, D, {}, c, meta, xmeta) /\ FilesExact(db.files, D, {}, c, meta)
  BY DEF DbIs, Exact
<1>2. m.op \notin PrefersInode \cup Makes \cup
                  {"exec", "rename", "did_unlink", "may_unlink", "stat", "chown", "chmod",
                   "get_xattr", "list_xattr", "set_xattr", "remove_xattr"}
  BY DEF Makes, PrefersInode
<1>3. Ready(m, D, meta, c)
  BY <1>1, <1>2, ReadyRequest
<1>4. /\ m.path \in Paths /\ m.ino \in Inodes /\ dir[m.path] = m.ino /\ dir \in Dirs
      /\ \E q \in Paths : q # m.path /\ dir[q] = m.ino
  BY <1>2 DEF Outstanding, RequestRight, Knows, FsRight
<1>5. D[m.path] = m.ino \/ D[m.path] = NoInode
  BY <1>4, WithoutDir
<1>6. \E q \in Paths : q # m.path /\ D[q] = m.ino
  BY <1>4, WithoutDir
<1>7. InDir(D, m.ino)
  BY <1>6 DEF InDir
<1>8. Met(db, m, D, meta, stale, out)
  BY <1>1, <1>2, <1>3, <1>5, Meets
<1>9. PICK n : n = Sent(m)
  OBVIOUS
<1>10. /\ Like(n, n) /\ n.op = "link" /\ n.path = m.path /\ n.ino = m.ino
       /\ n.result = "succeed"
  BY <1>3, <1>9, SentFields DEF Ready
<1>11. meta[m.ino].tracked
  BY <1>1, <1>4, <1>7, KnownInode
<1>12. Promised(m) = meta
  BY <1>2, <1>4, <1>11, PromisedNothing
<1>13. PromisedXattrs(m) = xmeta
  BY PromisedNoXattrs
<1>14. DirAfter(x, m) = dir /\ MarksAfter(x, m) = {}
  BY RequestViews DEF Outstanding
<1>15. Exact(out.db, dir, {}, c, meta, xmeta) /\ out.msg.result = "succeed"
  <2>1. CASE D[m.path] = m.ino
    <3>1. PICK k : FoundAll(k, db, n, meta) /\ out = OpSwitch(k, stale)
      BY <1>4, <1>8, <1>9, <2>1, NoInodeNot DEF Met
    <3>2. D = dir
      BY <1>4, <2>1, WithoutDir, NoInodeNot
    <3>3. n.path \in Paths /\ n.ino \in Inodes /\ n.path \notin {} /\ D[n.path] = n.ino
          /\ \E q \in Paths : q # n.path /\ D[q] = n.ino
      BY <1>4, <1>6, <1>10, <2>1
    <3>. QED BY <1>1, <1>10, <3>1, <3>2, <3>3, LinkAgain
  <2>2. CASE D[m.path] = NoInode
    <3>1. PICK k : FoundInode(k, db, n, meta) /\ out = OpSwitch(k, stale)
      BY <1>4, <1>7, <1>8, <1>9, <2>2, NoInodeNot DEF Met
    <3>2. Put(D, n.path, n.ino) = dir
      <4>1. D = Without(dir, m.path)
        BY <1>4, <2>2, NoInodeNot
      <4>. QED BY <1>4, <1>10, <4>1, PutWithout
    <3>3. n.path \in Paths /\ n.ino \in Inodes /\ n.path \notin {} /\ D[n.path] = NoInode
          /\ InDir(D, n.ino)
      BY <1>4, <1>7, <1>10, <2>2
    <3>4. Exact(out.db, Put(D, n.path, n.ino), {}, c, meta, xmeta) /\ out.msg.result = n.result
      BY <1>1, <1>10, <3>1, <3>3, LinkNew
    <3>. QED BY <1>10, <3>2, <3>4, Zenon
  <2>. QED BY <1>5, <2>1, <2>2
<1>16. AnswerRight(m, out.msg)
  BY <1>15 DEF AnswerRight
<1>. QED BY <1>12, <1>13, <1>14, <1>15, <1>16, Zenon DEF Served

\* a request about a path that the database knows: the context
LEMMA AskedAll ==
  ASSUME NEW c, NEW x, NEW m, Outstanding(c, x, m), NEW D \in Dirs, NEW M, DbIs(D, M, c),
         m.op \notin PrefersInode \cup {"exec", "rename"}, m.ino \in Inodes, D[m.path] = m.ino,
         NEW stale, NEW out, out = pseudo_op(db, m, stale)
  PROVE  /\ Exact(db, D, M, c, meta, xmeta) /\ InDir(D, m.ino)
         /\ meta[m.ino] = Tracked(meta[m.ino].uid, meta[m.ino].mode)
         /\ \E k : FoundAll(k, db, Sent(m), meta) /\ Plainly(k, db, Sent(m))
                   /\ out = OpSwitch(k, stale)
         /\ LET n == Sent(m)
            IN  /\ Like(n, n) /\ n.op = m.op /\ n.path = m.path /\ n.ino = m.ino
                /\ n.uid = m.uid /\ n.mode = m.mode /\ n.client = c /\ n.name = m.name
                /\ n.value = m.value /\ n.result = "succeed"
<1>1. Exact(db, D, M, c, meta, xmeta) /\ FilesExact(db.files, D, M, c, meta)
  BY DEF DbIs, Exact
<1>2. Ready(m, D, meta, c)
  BY <1>1, ReadyRequest
<1>3. Met(db, m, D, meta, stale, out)
  BY <1>1, <1>2, NoInodeNot, Meets
<1>4. PICK k : FoundAll(k, db, Sent(m), meta) /\ out = OpSwitch(k, stale)
  BY <1>3, NoInodeNot DEF Met
<1>5. Plainly(k, db, Sent(m))
  BY <1>4 DEF FoundAll, Plainly
<1>6. m.path \in Paths /\ InDir(D, m.ino)
  BY <1>2 DEF Ready, InDir
<1>7. meta[m.ino] = Tracked(meta[m.ino].uid, meta[m.ino].mode)
  BY <1>1, <1>6, KnownInode
<1>8. LET n == Sent(m)
      IN  /\ Like(n, n) /\ n.op = m.op /\ n.path = m.path /\ n.ino = m.ino
          /\ n.uid = m.uid /\ n.mode = m.mode /\ n.client = c /\ n.name = m.name
          /\ n.value = m.value /\ n.result = "succeed"
  BY <1>2, SentFields DEF Ready
<1>. QED BY <1>1, <1>4, <1>5, <1>6, <1>7, <1>8

LEMMA AskedHere ==
  ASSUME NEW c, NEW x, NEW m, Outstanding(c, x, m), m.op \in PathRequests
  PROVE  /\ m.op \notin PrefersInode \cup Makes \cup {"exec", "rename", "link", "did_unlink"}
         /\ m.path \in Paths /\ m.ino \in Inodes /\ dir[m.path] = m.ino /\ dir \in Dirs
         /\ DirAfter(x, m) = dir /\ MarksAfter(x, m) = {} /\ FsRight
<1>1. m.op \notin PrefersInode \cup Makes \cup {"exec", "rename", "link", "did_unlink",
                                                "may_unlink", "stat"}
  BY DEF Makes, PrefersInode, PathRequests
<1>2. m.path \in Paths /\ m.ino \in Inodes /\ dir[m.path] = m.ino /\ dir \in Dirs
  BY <1>1 DEF Outstanding, RequestRight, Knows, FsRight
<1>3. DirAfter(x, m) = dir /\ MarksAfter(x, m) = {}
  BY RequestViews DEF Outstanding
<1>. QED BY <1>1, <1>2, <1>3 DEF Outstanding

LEMMA ServeChown ==
  ASSUME NEW c, NEW x, NEW m, Outstanding(c, x, m), m.op = "chown", DbIs(dir, {}, c),
         NEW stale, NEW out, out = pseudo_op(db, m, stale)
  PROVE  Served(c, x, m, out)
<1>1. /\ m.op \notin PrefersInode \cup Makes \cup {"exec", "rename", "link", "did_unlink"}
      /\ m.path \in Paths /\ m.ino \in Inodes /\ dir[m.path] = m.ino /\ dir \in Dirs
      /\ DirAfter(x, m) = dir /\ MarksAfter(x, m) = {} /\ FsRight
  BY AskedHere DEF PathRequests
<1>2. PICK n : n = Sent(m)
  OBVIOUS
<1>3. /\ Exact(db, dir, {}, c, meta, xmeta) /\ InDir(dir, m.ino)
      /\ meta[m.ino] = Tracked(meta[m.ino].uid, meta[m.ino].mode)
      /\ \E k : FoundAll(k, db, n, meta) /\ Plainly(k, db, n) /\ out = OpSwitch(k, stale)
      /\ n.op = "chown" /\ n.ino = m.ino /\ n.uid = m.uid /\ n.result = "succeed"
  BY <1>1, <1>2, AskedAll
<1>4. PICK k : FoundAll(k, db, n, meta) /\ out = OpSwitch(k, stale)
  BY <1>3
<1>5. PICK mt2 : mt2 = Promised(m)
  OBVIOUS
<1>6. /\ mt2[m.ino] = Tracked(Overridden(meta[m.ino].uid, m.args), meta[m.ino].mode)
      /\ OnlyAt(m.ino, meta, mt2)
  BY <1>1, <1>3, <1>5, PromisedChown
<1>7. m.uid = Overridden(meta[m.ino].uid, m.args)
  BY DEF Outstanding, RequestRight
<1>8. mt2[n.ino] = Tracked(n.uid, meta[n.ino].mode) /\ OnlyAt(n.ino, meta, mt2)
  BY <1>3, <1>6, <1>7, Zenon
<1>9. Exact(out.db, dir, {}, c, mt2, xmeta) /\ out.msg.result = n.result
  BY <1>3, <1>4, <1>8, ChownOp
<1>10. PromisedXattrs(m) = xmeta
  BY PromisedNoXattrs
<1>11. AnswerRight(m, out.msg)
  BY <1>3, <1>9 DEF AnswerRight
<1>. QED BY <1>1, <1>5, <1>9, <1>10, <1>11, Zenon DEF Served

LEMMA ServeChmod ==
  ASSUME NEW c, NEW x, NEW m, Outstanding(c, x, m), m.op = "chmod", DbIs(dir, {}, c),
         NEW stale, NEW out, out = pseudo_op(db, m, stale)
  PROVE  Served(c, x, m, out)
<1>1. /\ m.op \notin PrefersInode \cup Makes \cup {"exec", "rename", "link", "did_unlink"}
      /\ m.path \in Paths /\ m.ino \in Inodes /\ dir[m.path] = m.ino /\ dir \in Dirs
      /\ DirAfter(x, m) = dir /\ MarksAfter(x, m) = {} /\ FsRight
  BY AskedHere DEF PathRequests
<1>2. PICK n : n = Sent(m)
  OBVIOUS
<1>3. /\ Exact(db, dir, {}, c, meta, xmeta) /\ InDir(dir, m.ino)
      /\ meta[m.ino] = Tracked(meta[m.ino].uid, meta[m.ino].mode)
      /\ \E k : FoundAll(k, db, n, meta) /\ Plainly(k, db, n) /\ out = OpSwitch(k, stale)
      /\ n.op = "chmod" /\ n.ino = m.ino /\ n.mode = m.mode /\ n.result = "succeed"
  BY <1>1, <1>2, AskedAll
<1>4. PICK k : FoundAll(k, db, n, meta) /\ out = OpSwitch(k, stale)
  BY <1>3
<1>5. PICK mt2 : mt2 = Promised(m)
  OBVIOUS
<1>6. /\ mt2[m.ino] = Tracked(meta[m.ino].uid, WithPerm(meta[m.ino].mode, m.mode.perm))
      /\ OnlyAt(m.ino, meta, mt2)
  BY <1>1, <1>3, <1>5, PromisedChmod
<1>8. /\ mt2[n.ino] = Tracked(meta[n.ino].uid, WithPerm(meta[n.ino].mode, n.mode.perm))
      /\ OnlyAt(n.ino, meta, mt2)
  BY <1>3, <1>6, Zenon
<1>9. Exact(out.db, dir, {}, c, mt2, xmeta) /\ out.msg.result = n.result
  BY <1>3, <1>4, <1>8, ChmodOp
<1>10. PromisedXattrs(m) = xmeta
  BY PromisedNoXattrs
<1>11. AnswerRight(m, out.msg)
  BY <1>3, <1>9 DEF AnswerRight
<1>. QED BY <1>1, <1>5, <1>9, <1>10, <1>11, Zenon DEF Served

LEMMA ServeXattr ==
  ASSUME NEW c, NEW x, NEW m, Outstanding(c, x, m), m.op \in {"set_xattr", "remove_xattr"},
         DbIs(dir, {}, c), NEW stale, NEW out, out = pseudo_op(db, m, stale)
  PROVE  Served(c, x, m, out)
<1>1. /\ m.op \notin PrefersInode \cup Makes \cup {"exec", "rename", "link", "did_unlink"}
      /\ m.path \in Paths /\ m.ino \in Inodes /\ dir[m.path] = m.ino /\ dir \in Dirs
      /\ DirAfter(x, m) = dir /\ MarksAfter(x, m) = {} /\ FsRight
  BY AskedHere DEF PathRequests
<1>2. PICK n : n = Sent(m)
  OBVIOUS
<1>3. /\ Exact(db, dir, {}, c, meta, xmeta) /\ InDir(dir, m.ino)
      /\ \E k : FoundAll(k, db, n, meta) /\ Plainly(k, db, n) /\ out = OpSwitch(k, stale)
      /\ n.op = m.op /\ n.ino = m.ino /\ n.name = m.name /\ n.value = m.value
      /\ n.result = "succeed"
  BY <1>1, <1>2, AskedAll
<1>4. PICK k : Plainly(k, db, n) /\ out = OpSwitch(k, stale)
  BY <1>3
<1>5. PICK xm2 : xm2 = PromisedXattrs(m)
  OBVIOUS
<1>6. OnlyAt(n.ino, xmeta, xm2) /\ n.ino \in Inodes /\ InDir(dir, n.ino)
  BY <1>1, <1>3, <1>5, PromisedXattrsAt
<1>7. Promised(m) = meta
  BY <1>1, PromisedNothing
<1>8. Exact(out.db, dir, {}, c, meta, xm2) /\ out.msg.result = "succeed"
  <2>1. CASE m.op = "set_xattr"
    <3>1. xm2[m.ino] = OtherPairs(xmeta[m.ino], m.name) \cup {<< m.name, m.value >>}
      BY <1>1, <1>5, <2>1, PromisedXattrsAt
    <3>2. xm2[n.ino] = OtherPairs(xmeta[n.ino], n.name) \cup {<< n.name, n.value >>}
      BY <1>3, <3>1, Zenon
    <3>3. Exact(out.db, dir, {}, c, meta, xm2) /\ out.msg.result = n.result
      BY <1>1, <1>3, <1>4, <1>6, <2>1, <3>2, SetXattrExact
    <3>. QED BY <1>3, <3>3, Zenon
  <2>2. CASE m.op = "remove_xattr"
    <3>1. xm2[m.ino] = OtherPairs(xmeta[m.ino], m.name)
      BY <1>1, <1>5, <2>2, PromisedXattrsAt
    <3>2. xm2[n.ino] = OtherPairs(xmeta[n.ino], n.name)
      BY <1>3, <3>1, Zenon
    <3>3. Exact(out.db, dir, {}, c, meta, xm2) /\ out.msg.result = n.result
      BY <1>1, <1>3, <1>4, <1>6, <2>2, <3>2, RemoveXattrExact
    <3>. QED BY <1>3, <3>3, Zenon
  <2>. QED BY <2>1, <2>2
<1>9. AnswerRight(m, out.msg)
  BY <1>8 DEF AnswerRight
<1>. QED BY <1>1, <1>5, <1>7, <1>8, <1>9, Zenon DEF Served

LEMMA ServeReads ==
  ASSUME NEW c, NEW x, NEW m, Outstanding(c, x, m), m.op \in {"get_xattr", "list_xattr", "open"},
         DbIs(dir, {}, c), NEW stale, NEW out, out = pseudo_op(db, m, stale)
  PROVE  Served(c, x, m, out)
<1>1. /\ m.op \notin PrefersInode \cup Makes \cup {"exec", "rename", "link", "did_unlink"}
      /\ m.path \in Paths /\ m.ino \in Inodes /\ dir[m.path] = m.ino /\ dir \in Dirs
      /\ DirAfter(x, m) = dir /\ MarksAfter(x, m) = {} /\ FsRight
  BY AskedHere DEF PathRequests
<1>2. PICK n : n = Sent(m)
  OBVIOUS
<1>3. /\ Exact(db, dir, {}, c, meta, xmeta) /\ InDir(dir, m.ino)
      /\ \E k : FoundAll(k, db, n, meta) /\ Plainly(k, db, n) /\ out = OpSwitch(k, stale)
      /\ Like(n, n) /\ n.op = m.op /\ n.ino = m.ino /\ n.name = m.name
      /\ n.result = "succeed"
  BY <1>1, <1>2, AskedAll
<1>4. PICK k : Plainly(k, db, n) /\ out = OpSwitch(k, stale)
  BY <1>3
<1>6. n.ino \in Inodes /\ InDir(dir, n.ino)
  BY <1>1, <1>3
<1>7. Promised(m) = meta
  BY <1>1, PromisedNothing
<1>8. PromisedXattrs(m) = xmeta
  BY PromisedNoXattrs
<1>9. out.db = db /\ AnswerRight(m, out.msg)
  <2>1. CASE m.op = "get_xattr"
    <3>0. /\ Exact(db, dir, {}, c, meta, xmeta) /\ Like(n, n) /\ n.op = "get_xattr"
          /\ n.ino \in Inodes /\ InDir(dir, n.ino) /\ dir \in Dirs
      BY <1>1, <1>3, <1>6, <2>1
    <3>1. out.db = db /\ GotXattr(xmeta[n.ino], n, out.msg)
      BY <1>4, <3>0, GetXattrExact
    <3>2. GotXattr(xmeta[m.ino], n, out.msg)
      BY <1>3, <3>1, Zenon
    <3>. QED BY <1>3, <2>1, <3>1, <3>2 DEF AnswerRight, GotXattr
  <2>2. CASE m.op = "list_xattr"
    <3>0. /\ Exact(db, dir, {}, c, meta, xmeta) /\ Like(n, n) /\ n.op = "list_xattr"
          /\ n.ino \in Inodes /\ InDir(dir, n.ino) /\ dir \in Dirs
      BY <1>1, <1>3, <1>6, <2>2
    <3>1. out.db = db /\ out.msg.result = n.result /\ out.msg.value = NamesOf(xmeta[n.ino])
      BY <1>4, <3>0, ListXattrExact
    <3>2. out.msg.value = {y[1] : y \in xmeta[m.ino]} /\ out.msg.result = "succeed"
      BY <1>3, <3>1, Zenon DEF NamesOf
    <3>. QED BY <2>2, <3>1, <3>2 DEF AnswerRight
  <2>3. CASE m.op = "open"
    <3>1. out.db = db /\ out.msg = n
      BY <1>3, <1>4, <2>3, OpenExact
    <3>. QED BY <1>3, <2>3, <3>1 DEF AnswerRight
  <2>. QED BY <2>1, <2>2, <2>3
<1>. QED BY <1>1, <1>3, <1>7, <1>8, <1>9, Zenon DEF Served

\* whichever way a request meets an exact database, the switch gets it as it was sent
LEMMA MetPlainly ==
  ASSUME NEW d, NEW m, NEW D, NEW mt, NEW stale, NEW out, Met(d, m, D, mt, stale, out)
  PROVE  \E k : Plainly(k, d, Sent(m)) /\ out = OpSwitch(k, stale)
  BY DEF Met, Plainly, FoundAll, FoundInode, FoundNothing

LEMMA ServeStat ==
  ASSUME NEW c, NEW x, NEW m, Outstanding(c, x, m), m.op = "stat",
         DbIs(DirAfter(x, m), MarksAfter(x, m), c),
         NEW stale, NEW out, out = pseudo_op(db, m, stale)
  PROVE  Served(c, x, m, out)
<1>1. PICK D, M : D = DirAfter(x, m) /\ M = MarksAfter(x, m)
  OBVIOUS
<1>2. m.op \notin PrefersInode \cup Makes \cup {"exec", "rename", "link", "did_unlink"}
  BY DEF Makes, PrefersInode
<1>3. /\ m.path \in Paths /\ dir[m.path] = m.ino /\ dir \in Dirs
      /\ m.ino \in Inodes \cup {NoInode}
  BY <1>2 DEF Outstanding, RequestRight, Knows, FsRight
<1>4. D \in Dirs /\ D[m.path] = m.ino
  <2>1. x.pc \in {"link_known", "chown", "rename_real", "last"}
    BY RequestStep DEF Outstanding
  <2>2. CASE x.pc = "link_known"
    <3>1. m.path = x.p /\ x.q \in Paths /\ x.p # x.q
      BY <2>2 DEF Outstanding, CallRight
    <3>2. D = Without(dir, x.q)
      BY <1>1, <2>2 DEF DirAfter
    <3>. QED BY <1>3, <3>1, <3>2, WithoutDir
  <2>3. CASE x.pc # "link_known"
    BY <1>1, <1>3, <2>1, <2>3 DEF DirAfter
  <2>. QED BY <2>2, <2>3
<1>5. DbIs(D, M, c) /\ Exact(db, D, M, c, meta, xmeta) /\ FilesExact(db.files, D, M, c, meta)
  BY <1>1 DEF DbIs, Exact
<1>6. Promised(m) = meta
  BY <1>2, PromisedNothing
<1>7. PromisedXattrs(m) = xmeta
  BY PromisedNoXattrs
<1>8. PICK n : n = Sent(m)
  OBVIOUS
<1>9. out.db = db /\ AnswerRight(m, out.msg)
  <2>1. CASE m.ino \in Inodes
    <3>1. /\ \E k : FoundAll(k, db, n, meta) /\ Plainly(k, db, n) /\ out = OpSwitch(k, stale)
          /\ n.op = "stat" /\ n.ino = m.ino /\ n.result = "succeed"
      BY <1>2, <1>4, <1>5, <1>8, <2>1, AskedAll
    <3>2. PICK k : FoundAll(k, db, n, meta) /\ out = OpSwitch(k, stale)
      BY <3>1
    <3>3. out.db = db /\ Loaded(out.msg, n, meta)
      BY <3>1, <3>2, StatKnown
    <3>4. out.msg.result = "succeed" /\ meta[m.ino] = Tracked(out.msg.uid, out.msg.mode)
      BY <3>1, <3>3 DEF Loaded, Like
    <3>. QED BY <2>1, <3>3, <3>4, NoInodeNot DEF AnswerRight
  <2>2. CASE m.ino = NoInode
    <3>1. Ready(m, D, meta, c)
      BY <1>2, <1>5, ReadyRequest
    <3>2. Met(db, m, D, meta, stale, out)
      BY <1>2, <1>4, <1>5, <2>2, <3>1, NoInodeNot, Meets
    <3>3. PICK k : FoundNothing(k, db, n) /\ out = OpSwitch(k, stale)
      BY <1>8, <2>2, <3>2, NoInodeNot DEF Met
    <3>4. n.op = "stat" /\ Like(n, n)
      BY <1>8, <3>1, SentFields DEF Ready
    <3>5. out.db = db /\ out.msg.result = "fail"
      BY <3>3, <3>4, StatUnknown
    <3>. QED BY <2>2, <3>5 DEF AnswerRight
  <2>. QED BY <1>3, <2>1, <2>2
<1>. QED BY <1>1, <1>5, <1>6, <1>7, <1>9, Zenon DEF Served

LEMMA ServeMay ==
  ASSUME NEW c, NEW x, NEW m, Outstanding(c, x, m), m.op = "may_unlink",
         NEW M, DbIs(dir, M, c), M = MarksBefore(x, m) \/ M = MarksAfter(x, m),
         NEW stale, NEW out, out = pseudo_op(db, m, stale)
  PROVE  Served(c, x, m, out)
<1>1. m.op \notin PrefersInode \cup Makes \cup {"exec", "rename", "link", "did_unlink", "stat"}
  BY DEF Makes, PrefersInode
<1>2. /\ m.path \in Paths /\ dir[m.path] = m.ino /\ dir \in Dirs
      /\ m.ino \in Inodes \cup {NoInode}
  BY <1>1 DEF Outstanding, RequestRight, Knows, FsRight
<1>3. Exact(db, dir, M, c, meta, xmeta) /\ FilesExact(db.files, dir, M, c, meta)
  BY DEF DbIs, Exact
<1>4. Ready(m, dir, meta, c)
  BY <1>1, <1>3, ReadyRequest
<1>5. Met(db, m, dir, meta, stale, out)
  BY <1>1, <1>2, <1>3, <1>4, NoInodeNot, Meets
<1>6. PICK n : n = Sent(m)
  OBVIOUS
<1>7. PICK k : Plainly(k, db, n) /\ out = OpSwitch(k, stale)
  BY <1>5, <1>6, MetPlainly
<1>8. /\ Like(n, n) /\ n.op = "may_unlink" /\ n.path = m.path /\ n.client = c
      /\ n.result = "succeed"
  BY <1>4, <1>6, SentFields DEF Ready
<1>9. n.path \in Paths
  BY <1>2, <1>8
<1>10. /\ Exact(out.db, dir, M \cup {n.path}, c, meta, xmeta)
       /\ dir[n.path] # NoInode => out.msg.result = n.result
       /\ dir[n.path] = NoInode => out.msg.result = "fail"
  BY <1>3, <1>7, <1>8, <1>9, MayUnlinkExact
<1>11. MarksAfter(x, m) = M \cup {n.path} /\ DirAfter(x, m) = dir
  <2>1. x.pc \in {"unlink", "rmdir", "rename_old", "rename_stat"}
    BY RequestStep DEF Outstanding
  <2>2. m.path = IF x.pc = "rename_old" THEN x.q ELSE x.p
    BY <2>1 DEF Outstanding, CallRight
  <2>3. MarksAfter(x, m) = MarksBefore(x, m) \cup {m.path}
    BY <2>1, <2>2 DEF MarksBefore, MarksAfter
  <2>4. DirAfter(x, m) = dir
    BY <2>1 DEF DirAfter
  <2>. QED BY <1>8, <2>3, <2>4
<1>12. Promised(m) = meta
  BY <1>1, PromisedNothing
<1>13. PromisedXattrs(m) = xmeta
  BY PromisedNoXattrs
<1>14. AnswerRight(m, out.msg)
  BY <1>2, <1>8, <1>10 DEF AnswerRight
<1>. QED BY <1>10, <1>11, <1>12, <1>13, <1>14, Zenon DEF Served

LEMMA ServeCancel ==
  ASSUME NEW c, NEW x, NEW m, Outstanding(c, x, m), m.op = "cancel_unlink",
         NEW M, DbIs(dir, M, c), M = MarksBefore(x, m) \/ M = MarksAfter(x, m),
         NEW stale, NEW out, out = pseudo_op(db, m, stale)
  PROVE  Served(c, x, m, out)
<1>1. m.op \notin PrefersInode \cup Makes
                  \cup {"exec", "rename", "link", "did_unlink", "stat", "may_unlink"}
  BY DEF Makes, PrefersInode
<1>2. m.path \in Paths /\ dir[m.path] = m.ino /\ dir \in Dirs /\ m.ino \in Inodes
  BY <1>1 DEF Outstanding, RequestRight, Knows, FsRight
<1>3. PICK n : n = Sent(m)
  OBVIOUS
<1>4. /\ Exact(db, dir, M, c, meta, xmeta)
      /\ \E k : FoundAll(k, db, n, meta) /\ Plainly(k, db, n) /\ out = OpSwitch(k, stale)
      /\ n.op = "cancel_unlink" /\ n.path = m.path /\ n.ino = m.ino /\ n.result = "succeed"
  BY <1>1, <1>2, <1>3, AskedAll
<1>5. PICK k : Plainly(k, db, n) /\ out = OpSwitch(k, stale)
  BY <1>4
<1>6. n.path \in Paths /\ n.ino \in Inodes /\ n.ino = dir[n.path]
  BY <1>2, <1>4
<1>7. Exact(out.db, dir, M \ {n.path}, c, meta, xmeta) /\ out.msg.result = n.result
  BY <1>4, <1>5, <1>6, CancelExact
<1>8. MarksAfter(x, m) = M \ {n.path} /\ DirAfter(x, m) = dir
  <2>1. CASE x.pc = "rename_cancel"
    <3>1. m.path = x.q /\ x.p \in Paths /\ (Exists(x.p) /\ Exists(x.q) => dir[x.p] # dir[x.q])
      BY <2>1 DEF Outstanding, CallRight, Renaming
    <3>2. x.p # x.q
      BY <1>2, <3>1, NoInodeNot DEF Exists
    <3>. QED BY <1>4, <2>1, <3>1, <3>2 DEF MarksBefore, MarksAfter, DirAfter
  <2>2. CASE x.pc = "last"
    BY <1>4, <2>2 DEF MarksBefore, MarksAfter, DirAfter
  <2>. QED BY <2>1, <2>2, RequestStep DEF Outstanding
<1>9. Promised(m) = meta
  BY <1>1, PromisedNothing
<1>10. PromisedXattrs(m) = xmeta
  BY PromisedNoXattrs
<1>11. AnswerRight(m, out.msg)
  BY <1>4, <1>7 DEF AnswerRight
<1>. QED BY <1>7, <1>8, <1>9, <1>10, <1>11, Zenon DEF Served

\* DID_UNLINK takes the path away, or finds it gone
LEMMA ServeDidAt ==
  ASSUME NEW c, NEW x, NEW m, Outstanding(c, x, m), m.op = "did_unlink",
         NEW D \in Dirs, NEW M, DbIs(D, M, c),
         (m.ino = D[m.path] /\ m.path \in M) \/ D[m.path] = NoInode,
         DirAfter(x, m) = Without(D, m.path),
         \A p \in Paths : p # m.path => (p \in M <=> p \in MarksAfter(x, m)),
         NEW stale, NEW out, out = pseudo_op(db, m, stale)
  PROVE  Served(c, x, m, out)
<1>1. m.op \notin PrefersInode \cup Makes \cup {"exec", "rename", "link", "stat", "may_unlink"}
  BY DEF Makes, PrefersInode
<1>2. m.path \in Paths /\ m.ino \in Inodes
  BY <1>1 DEF Outstanding, RequestRight
<1>3. Exact(db, D, M, c, meta, xmeta) /\ FilesExact(db.files, D, M, c, meta)
  BY DEF DbIs, Exact
<1>4. Ready(m, D, meta, c)
  BY <1>1, <1>3, ReadyRequest
<1>5. Met(db, m, D, meta, stale, out)
  BY <1>1, <1>2, <1>3, <1>4, NoInodeNot, Meets
<1>6. PICK n : n = Sent(m)
  OBVIOUS
<1>7. PICK k : Plainly(k, db, n) /\ out = OpSwitch(k, stale)
  BY <1>5, <1>6, MetPlainly
<1>8. /\ n.op = "did_unlink" /\ n.path = m.path /\ n.client = c /\ n.ino = m.ino
      /\ n.result = "succeed"
  BY <1>4, <1>6, SentFields DEF Ready
<1>9. n.path \in Paths /\ n.ino \in Inodes
      /\ ((n.ino = D[n.path] /\ n.path \in M) \/ D[n.path] = NoInode)
  BY <1>2, <1>8
<1>10. Exact(out.db, Without(D, n.path), M, c, meta, xmeta) /\ out.msg.result = n.result
  BY <1>3, <1>7, <1>8, <1>9, DidUnlinkExact
<1>11. PICK E, N, e : E = DirAfter(x, m) /\ N = MarksAfter(x, m) /\ e = out.db
  OBVIOUS
<1>12. Exact(e, E, M, c, meta, xmeta)
  BY <1>8, <1>10, <1>11, Zenon
<1>13. \A p \in Paths : E[p] # NoInode => (p \in M <=> p \in N)
  BY <1>2, <1>11, WithoutDir
<1>14. Exact(e, E, N, c, meta, xmeta)
  BY <1>12, <1>13, ExactSame
<1>15. Promised(m) = meta
  BY <1>1, PromisedNothing
<1>16. PromisedXattrs(m) = xmeta
  BY PromisedNoXattrs
<1>17. AnswerRight(m, out.msg)
  BY <1>8, <1>10 DEF AnswerRight
<1>. QED BY <1>11, <1>14, <1>15, <1>16, <1>17, Zenon DEF Served

LEMMA ServeDid ==
  ASSUME NEW c, NEW x, NEW m, Outstanding(c, x, m), m.op = "did_unlink",
         NEW D, NEW M, DbIs(D, M, c),
         \/ D = DirBefore(x, m) /\ M = MarksBefore(x, m)
         \/ D = DirAfter(x, m) /\ M = MarksAfter(x, m),
         NEW stale, NEW out, out = pseudo_op(db, m, stale)
  PROVE  Served(c, x, m, out)
<1>1. m.path \in Paths /\ m.ino \in Inodes /\ dir \in Dirs
  BY DEF Outstanding, RequestRight, FsRight
<1>2. CASE x.pc = "last"
  <2>1. /\ DirBefore(x, m) = Put(dir, m.path, m.ino) /\ MarksBefore(x, m) = {m.path}
        /\ DirAfter(x, m) = dir /\ MarksAfter(x, m) = {}
    BY <1>2 DEF DirBefore, DirAfter, MarksBefore, MarksAfter, Makes
  <2>2. dir[m.path] = NoInode
    BY <1>2 DEF Outstanding, CallRight
  <2>3. D \in Dirs /\ ((m.ino = D[m.path] /\ m.path \in M) \/ D[m.path] = NoInode)
    BY <1>1, <2>1, <2>2, PutDir
  <2>4. Without(Put(dir, m.path, m.ino), m.path) = dir /\ Without(dir, m.path) = dir
    BY <1>1, <2>2, PutWithout
  <2>5. DirAfter(x, m) = Without(D, m.path)
    BY <2>1, <2>4
  <2>6. \A p \in Paths : p # m.path => (p \in M <=> p \in MarksAfter(x, m))
    BY <2>1
  <2>. QED BY <2>3, <2>5, <2>6, ServeDidAt
<1>3. CASE x.pc = "rename_did"
  <2>1. PICK E : E = Put(dir, x.p, x.st.ino)
    OBVIOUS
  <2>2. /\ m.path = x.q /\ x.p \in Paths /\ x.q \in Paths /\ x.p # x.q
        /\ x.st.ino = dir[x.q] /\ dir[x.q] # NoInode
    BY <1>3 DEF Outstanding, CallRight, Knows, Exists
  <2>3. x.st.ino \in Inodes
    BY <1>1, <2>2 DEF Dirs
  <2>4. E \in Dirs
    BY <1>1, <2>1, <2>2, <2>3, PutDir
  <2>5. DirBefore(x, m) = Put(E, m.path, m.ino) /\ MarksBefore(x, m) = {x.p, x.q}
    BY <1>3, <2>1 DEF DirBefore, MarksBefore, Makes
  <2>6. DirAfter(x, m) = Without(E, m.path) /\ MarksAfter(x, m) = {x.p}
    BY <1>3, <2>1, <2>2 DEF DirAfter, MarksAfter
  <2>7. D \in Dirs /\ ((m.ino = D[m.path] /\ m.path \in M) \/ D[m.path] = NoInode)
    <3>1. Put(E, m.path, m.ino) \in Dirs /\ Put(E, m.path, m.ino)[m.path] = m.ino
      BY <1>1, <2>4, PutDir
    <3>2. Without(E, m.path) \in Dirs /\ Without(E, m.path)[m.path] = NoInode
      BY <1>1, <2>4, WithoutDir
    <3>. QED BY <2>2, <2>5, <2>6, <3>1, <3>2
  <2>8. /\ Without(Put(E, m.path, m.ino), m.path) = Without(E, m.path)
        /\ Without(Without(E, m.path), m.path) = Without(E, m.path)
    BY <1>1, <2>4, PutWithout
  <2>9. DirAfter(x, m) = Without(D, m.path)
    BY <2>5, <2>6, <2>8
  <2>10. \A p \in Paths : p # m.path => (p \in M <=> p \in MarksAfter(x, m))
    BY <2>2, <2>5, <2>6
  <2>. QED BY <2>7, <2>9, <2>10, ServeDidAt
<1>. QED BY <1>2, <1>3, RequestStep DEF Outstanding

LEMMA ServeRename ==
  ASSUME NEW c, Lone(c), NEW x, NEW m, Outstanding(c, x, m), m.op = "rename", Before(x, m, c),
         NEW out, out = pseudo_op(db, m, NoPath)
  PROVE  Served(c, x, m, out)
<1>1. m.op \notin PrefersInode \cup Makes \cup {"exec", "did_unlink", "link", "stat", "may_unlink"}
  BY DEF Makes, PrefersInode
<1>2. /\ m.path \in Paths /\ m.ino \in Inodes /\ dir \in Dirs /\ dir[m.path] = m.ino
      /\ m.oldpath \in Paths /\ m.oldpath # m.path /\ dir[m.oldpath] = NoInode
      /\ m.nlink = 1 => Sole(m.path)
  BY <1>1 DEF Outstanding, RequestRight, FsRight, Knows
<1>3. x.pc = "last" /\ "rename" \in Calls
  BY DEF Outstanding, CallRight
<1>4. PICK D : D = Without(Put(dir, m.oldpath, m.ino), m.path)
  OBVIOUS
<1>5. DirBefore(x, m) = D /\ MarksBefore(x, m) = {m.oldpath}
  BY <1>3, <1>4 DEF DirBefore, MarksBefore, Makes
<1>6. DirAfter(x, m) = dir /\ MarksAfter(x, m) = {}
  BY <1>3 DEF DirAfter, MarksAfter
<1>7. /\ D \in Dirs /\ D[m.oldpath] = m.ino /\ D[m.path] = NoInode
      /\ \A q \in Paths : q # m.oldpath /\ q # m.path => D[q] = dir[q]
  <2>1. /\ Put(dir, m.oldpath, m.ino) \in Dirs /\ Put(dir, m.oldpath, m.ino)[m.oldpath] = m.ino
        /\ \A q \in Paths : q # m.oldpath => Put(dir, m.oldpath, m.ino)[q] = dir[q]
    BY <1>2, PutDir
  <2>. QED BY <1>2, <1>4, <2>1, WithoutDir
<1>8. Exact(db, D, {m.oldpath}, c, meta, xmeta)
  BY <1>5 DEF Before, DbIs
<1>9. FilesExact(db.files, D, {m.oldpath}, c, meta)
  BY <1>8 DEF Exact
<1>10. Ready(m, D, meta, c)
  BY <1>1, <1>9, ReadyRequest
<1>11. m.nlink = 1 => \A q \in Paths : D[q] = m.ino => q = m.oldpath
  BY <1>2, <1>7, NoInodeNot DEF Sole
<1>12. Met(db, m, D, meta, NoPath, out)
  BY <1>2, <1>7, <1>9, <1>10, <1>11, Meets
<1>13. PICK n : n = Sent(m)
  OBVIOUS
<1>14. PICK k : Plainly(k, db, n) /\ out = OpSwitch(k, NoPath)
  BY <1>12, <1>13, MetPlainly
<1>15. /\ n.op = "rename" /\ n.path = m.path /\ n.oldpath = m.oldpath /\ n.ino = m.ino
       /\ n.result = "succeed"
  BY <1>10, <1>13, SentFields DEF Ready
<1>16. /\ n.path \in Paths /\ n.oldpath \in Paths /\ n.oldpath # n.path /\ n.ino \in Inodes
       /\ D[n.oldpath] = n.ino /\ D[n.path] = NoInode /\ n.path \notin {m.oldpath}
  BY <1>2, <1>7, <1>15
<1>17. \A p \in Paths : Len(p) = 1
  BY <1>3 DEF Lone
<1>18. /\ Exact(out.db, Put(Without(D, n.oldpath), n.path, n.ino), {m.oldpath}, c, meta, xmeta)
       /\ out.msg.result = n.result
  BY <1>7, <1>8, <1>14, <1>15, <1>16, <1>17, RenameExact
<1>19. Put(Without(D, n.oldpath), n.path, n.ino) = dir
  <2>1. PICK E : E = Without(D, m.oldpath)
    OBVIOUS
  <2>2. E \in Dirs /\ E[m.oldpath] = NoInode /\ \A q \in Paths : q # m.oldpath => E[q] = D[q]
    BY <1>2, <1>7, <2>1, WithoutDir
  <2>3. PICK G : G = Put(E, m.path, m.ino)
    OBVIOUS
  <2>4. G \in Dirs /\ G[m.path] = m.ino /\ \A q \in Paths : q # m.path => G[q] = E[q]
    BY <1>2, <2>2, <2>3, PutDir
  <2>5. \A q \in Paths : G[q] = dir[q]
    BY <1>2, <1>7, <2>2, <2>4
  <2>6. G = dir
    BY <1>2, <2>4, <2>5, SameDir
  <2>. QED BY <1>15, <2>1, <2>3, <2>6, Zenon
<1>20. PICK e : e = out.db
  OBVIOUS
<1>21. Exact(e, dir, {m.oldpath}, c, meta, xmeta)
  BY <1>18, <1>19, <1>20, Zenon
<1>22. PICK N : N = {}
  OBVIOUS
<1>23. \A p \in Paths : dir[p] # NoInode => (p \in {m.oldpath} <=> p \in N)
  BY <1>2, <1>22
<1>24. Exact(e, dir, N, c, meta, xmeta)
  BY <1>21, <1>23, ExactSame
<1>25. Promised(m) = meta
  BY <1>1, PromisedNothing
<1>26. PromisedXattrs(m) = xmeta
  BY PromisedNoXattrs
<1>27. AnswerRight(m, out.msg)
  BY <1>15, <1>18 DEF AnswerRight
<1>. QED BY <1>6, <1>20, <1>22, <1>24, <1>25, <1>26, <1>27, Zenon DEF Served

\* The answer, to the request as it was first sent or sent again
LEMMA ServeAll ==
  ASSUME NEW c, Lone(c), NEW x, NEW m, Outstanding(c, x, m),
         Before(x, m, c) \/ (m.op # "rename" /\ After(x, m, c)),
         NEW stale \in StaleLookups(m), NEW out, out = pseudo_op(db, m, stale)
  PROVE  Served(c, x, m, out)
<1>1. dir \in Dirs /\ m.path \in Paths
  BY DEF Outstanding, FsRight, RequestRight
<1>2. PICK D, M : /\ DbIs(D, M, c)
                  /\ \/ D = DirBefore(x, m) /\ M = MarksBefore(x, m)
                     \/ /\ D = DirAfter(x, m) /\ M = MarksAfter(x, m)
                        /\ m.op = "creat" => meta[m.ino] = Tracked(m.uid, m.mode)
  BY DEF Before, After
<1>3. CASE m.op \in Makes \cup {"link"}
  <2>1. /\ DirBefore(x, m) = Without(dir, m.path) /\ DirAfter(x, m) = dir
        /\ MarksBefore(x, m) = {} /\ MarksAfter(x, m) = {}
    BY <1>3, RequestViews DEF Outstanding
  <2>2. M = {} /\ (D = Without(dir, m.path) \/ D = dir)
    BY <1>2, <2>1
  <2>3. D \in Dirs /\ DbIs(D, {}, c)
    BY <1>1, <1>2, <2>2, WithoutDir
  <2>4. dir[m.path] # NoInode
    BY <1>3 DEF Outstanding, RequestRight, Knows, Makes
  <2>5. D = dir /\ m.op = "creat" => meta[m.ino] = Tracked(m.uid, m.mode)
    <3>1. Without(dir, m.path) # dir
      BY <1>1, <2>4, WithoutDir
    <3>. QED BY <1>2, <2>1, <3>1
  <2>6. CASE m.op \in Makes
    BY <2>2, <2>3, <2>5, <2>6, ServeMakes
  <2>7. CASE m.op = "link"
    BY <2>2, <2>3, <2>7, ServeLink
  <2>. QED BY <1>3, <2>6, <2>7
<1>4. CASE m.op \in PathRequests
  <2>1. DbIs(dir, {}, c)
    BY <1>2, <1>4, RequestViews DEF Outstanding
  <2>. QED BY <1>4, <2>1, ServeChown, ServeChmod, ServeXattr, ServeReads DEF PathRequests
<1>5. CASE m.op = "stat"
  <2>1. DbIs(DirAfter(x, m), MarksAfter(x, m), c)
    BY <1>2, <1>5, RequestViews DEF Outstanding
  <2>. QED BY <1>5, <2>1, ServeStat
<1>6. CASE m.op \in {"may_unlink", "cancel_unlink"}
  <2>1. DbIs(dir, M, c) /\ (M = MarksBefore(x, m) \/ M = MarksAfter(x, m))
    BY <1>2, <1>6, RequestViews DEF Outstanding
  <2>. QED BY <1>6, <2>1, ServeMay, ServeCancel
<1>7. CASE m.op = "did_unlink"
  <2>1. \/ D = DirBefore(x, m) /\ M = MarksBefore(x, m)
        \/ D = DirAfter(x, m) /\ M = MarksAfter(x, m)
    BY <1>2
  <2>. QED BY <1>2, <1>7, <2>1, ServeDid
<1>8. CASE m.op = "rename"
  <2>1. Len(m.path) = 1
    BY <1>1, <1>8 DEF Outstanding, CallRight, Lone
  <2>2. stale = NoPath
    BY <1>8, <2>1 DEF StaleLookups
  <2>. QED BY <1>8, <2>2, ServeRename
<1>. QED BY <1>3, <1>4, <1>5, <1>6, <1>7, <1>8, RequestStep DEF Outstanding

-----------------------------------------------------------------------------
(* The steps of the client: what they have in common *)

Still == UNCHANGED << dir, kind, db, meta, xmeta >>

LEMMA SameDb ==
  ASSUME Still, NEW c, NEW D, NEW M, DbIs(D, M, c)
  PROVE  DbIs(D, M, c)'
  BY DEF Still, DbIs

LEMMA SameFs ==
  ASSUME UNCHANGED << dir, kind, meta, xmeta >>, FsRight
  PROVE  FsRight'
  BY DEF FsRight, MetaRight

LEMMA SameKnows ==
  ASSUME UNCHANGED << dir, kind >>, NEW st, NEW p, Knows(st, p)
  PROVE  Knows(st, p)'
  BY DEF Knows, Sole

LEMMA SameRequest ==
  ASSUME Still, NEW x, NEW m, RequestRight(x, m)
  PROVE  RequestRight(x, m)'
<1>1. m.op # "did_unlink" => Knows(m, m.path)'
  BY SameKnows DEF RequestRight, Still
<1>. QED BY <1>1 DEF RequestRight, Still, Sole

LEMMA SameCall ==
  ASSUME UNCHANGED << dir, kind >>, NEW x, NEW m, CallRight(x, m)
  PROVE  CallRight(x, m)'
<1>1. /\ Knows(x.st, x.p) => Knows(x.st, x.p)'
      /\ Knows(x.st, x.q) => Knows(x.st, x.q)'
      /\ Knows(x.st2, x.q) => Knows(x.st2, x.q)'
  BY SameKnows
<1>. QED BY <1>1 DEF CallRight, Exists

LEMMA SameViews ==
  ASSUME UNCHANGED dir, NEW x, NEW m
  PROVE  /\ DirBefore(x, m)' = DirBefore(x, m) /\ DirAfter(x, m)' = DirAfter(x, m)
         /\ MarksBefore(x, m)' = MarksBefore(x, m) /\ MarksAfter(x, m)' = MarksAfter(x, m)
<1>1. DirBefore(x, m)' = DirBefore(x, m)
  BY DEF DirBefore
<1>2. DirAfter(x, m)' = DirAfter(x, m)
  BY DEF DirAfter
<1>. QED BY <1>1, <1>2 DEF MarksBefore, MarksAfter

LEMMA SameBefore ==
  ASSUME Still, NEW c, NEW x, NEW m, Before(x, m, c)
  PROVE  Before(x, m, c)'
<1>1. PICK D, M : D = DirBefore(x, m) /\ M = MarksBefore(x, m)
  OBVIOUS
<1>2. DbIs(D, M, c)'
  BY <1>1, SameDb DEF Before
<1>3. D = DirBefore(x, m)' /\ M = MarksBefore(x, m)'
  BY <1>1, SameViews DEF Still
<1>. QED BY <1>2, <1>3, Zenon DEF Before

LEMMA SameAfter ==
  ASSUME Still, NEW c, NEW x, NEW m, After(x, m, c)
  PROVE  After(x, m, c)'
<1>1. PICK D, M : D = DirAfter(x, m) /\ M = MarksAfter(x, m)
  OBVIOUS
<1>2. DbIs(D, M, c)'
  BY <1>1, SameDb DEF After
<1>3. D = DirAfter(x, m)' /\ M = MarksAfter(x, m)'
  BY <1>1, SameViews DEF Still
<1>4. m.op = "creat" => (meta[m.ino])' = Tracked(m.uid, m.mode)
  BY DEF After, Still
<1>. QED BY <1>2, <1>3, <1>4, Zenon DEF After

\* a step of c that leaves it with the call x and the connection w
LEMMA NewState ==
  ASSUME NEW c, life[c] = "up", LInv(c), UNCHANGED life, NEW x, NEW w, cl'[c] = x, chan'[c] = w,
         FsRight', ConnectionRight(x, w, c)'
  PROVE  LInv(c)'
<1>1. ConnectionRight(cl[c], chan[c], c)'
  BY Zenon
<1>2. life'[c] = "up"
  OBVIOUS
<1>. QED BY <1>1, <1>2 DEF LInv

LEMMA AskingNow ==
  ASSUME IInv, NEW c \in Clients, life[c] = "up", LInv(c), UNCHANGED life,
         NEW x, cl'[c] = x, NEW m, Send(c, m),
         FsRight', RequestRight(x, m)', CallRight(x, m)', Before(x, m, c)'
  PROVE  LInv(c)'
<1>1. PICK w : w = [dir |-> "request", msg |-> m]
  OBVIOUS
<1>2. chan'[c] = w
  BY <1>1 DEF Send, IInv
<1>3. w.dir = "request" /\ w.msg = m /\ Request(w) = m
  BY <1>1 DEF Request
<1>4. ConnectionRight(x, w, c)'
  BY <1>3 DEF ConnectionRight
<1>. QED BY <1>2, <1>4, NewState

LEMMA AskingHere ==
  ASSUME IInv, NEW c \in Clients, life[c] = "up", LInv(c), UNCHANGED life, Still,
         NEW x, cl'[c] = x, NEW m, Send(c, m),
         RequestRight(x, m), CallRight(x, m), Before(x, m, c)
  PROVE  LInv(c)'
<1>1. FsRight'
  BY SameFs DEF LInv, Still
<1>2. RequestRight(x, m)' /\ CallRight(x, m)' /\ Before(x, m, c)'
  BY SameRequest, SameCall, SameBefore DEF Still
<1>. QED BY <1>1, <1>2, AskingNow

LEMMA RestingNow ==
  ASSUME NEW c, life[c] = "up", LInv(c), UNCHANGED life,
         NEW x, cl'[c] = x, chan'[c].dir = "none", FsRight', StepRight(x, c)'
  PROVE  LInv(c)'
<1>1. PICK w : w = chan'[c]
  OBVIOUS
<1>2. ConnectionRight(x, w, c)'
  BY <1>1 DEF ConnectionRight
<1>. QED BY <1>1, <1>2, NewState

\* the call is over, or has opened its file
LEMMA IdleNow ==
  ASSUME NEW c, life[c] = "up", LInv(c), UNCHANGED life, Still,
         NEW x, cl'[c] = x, x.pc = "idle", chan'[c].dir = "none", DbIs(dir, {}, c)
  PROVE  LInv(c)'
<1>1. FsRight'
  BY SameFs DEF LInv, Still
<1>2. DbIs(dir, {}, c)'
  BY DEF DbIs, Still
<1>3. StepRight(x, c)'
  BY <1>2 DEF StepRight, Making
<1>. QED BY <1>1, <1>3, RestingNow

LEMMA FinishNow ==
  ASSUME IInv, NEW c \in Clients, life[c] = "up", LInv(c), UNCHANGED life, Still,
         Finish(c), SendNothing(c) \/ (UNCHANGED chan /\ chan[c].dir = "none"), DbIs(dir, {}, c)
  PROVE  LInv(c)'
<1>1. PICK x : x = cl'[c]
  OBVIOUS
<1>2. x.pc = "idle"
  BY <1>1, FinishCall DEF Writes
<1>3. chan'[c].dir = "none"
  BY DEF SendNothing, NoMsg, IInv
<1>. QED BY <1>1, <1>2, <1>3, IdleNow

\* where a client is, by its connection
LEMMA AtFacts ==
  ASSUME NEW c, LInv(c), NEW pc, At(c, pc)
  PROVE  life[c] = "up" /\ cl[c].pc = pc /\ chan[c].dir = "none" /\ FsRight /\ StepRight(cl[c], c)
  BY DEF LInv, At, ConnectionRight

LEMMA IdleFacts ==
  ASSUME IInv, NEW c \in Clients, LInv(c), Idle(c)
  PROVE  /\ life[c] = "up" /\ cl[c].pc = "idle" /\ chan[c].dir = "none" /\ FsRight
         /\ DbIs(dir, {}, c)
<1>1. life[c] = "up" /\ cl[c].pc = "idle" /\ FsRight /\ ConnectionRight(cl[c], chan[c], c)
  BY DEF Idle, LInv
<1>2. chan[c].dir = "none"
  BY <1>1 DEF ConnectionRight, CallRight, Renaming
<1>. QED BY <1>1, <1>2 DEF ConnectionRight, StepRight

LEMMA AnsweredFacts ==
  ASSUME IInv, NEW c \in Clients, LInv(c), NEW pc, Answered(c, pc)
  PROVE  /\ life[c] = "up" /\ cl[c].pc = pc /\ FsRight
         /\ LET m == chan[c].request
            IN  /\ RequestRight(cl[c], m) /\ CallRight(cl[c], m) /\ After(cl[c], m, c)
                /\ AnswerRight(m, chan[c].msg)
<1>1. /\ life[c] = "up" /\ cl[c].pc = pc /\ FsRight /\ ConnectionRight(cl[c], chan[c], c)
      /\ chan[c].dir = "answer"
  BY DEF Answered, LInv
<1>2. Request(chan[c]) = chan[c].request
  BY <1>1 DEF Request
<1>. QED BY <1>1, <1>2 DEF ConnectionRight

-----------------------------------------------------------------------------
(* The steps of the server, and of a client that dies *)

\* a request changes the ghost of its inode, and not its type
LEMMA MetaAfter ==
  ASSUME NEW c, NEW x, NEW m, Outstanding(c, x, m), m.op \notin PrefersInode,
         m.op = "link" => m.ino \in Inodes /\ meta[m.ino].tracked,
         m.op \in {"chown", "chmod"} =>
            meta[m.ino] = Tracked(meta[m.ino].uid, meta[m.ino].mode),
         UNCHANGED << dir, kind >>, meta' = Promised(m), xmeta' = PromisedXattrs(m)
  PROVE  FsRight' /\ RequestRight(x, m)'
<1>1. FsRight /\ RequestRight(x, m)
  BY DEF Outstanding
<1>2. DOMAIN xmeta' = Inodes
  <2>1. CASE m.op \in {"set_xattr", "remove_xattr"}
    <3>1. m.ino \in Inodes
      BY <1>1, <2>1 DEF RequestRight
    <3>. QED BY <1>1, <3>1, PromisedXattrsAt
  <2>2. CASE m.op \notin {"set_xattr", "remove_xattr"}
    BY <1>1, <2>2, PromisedNoXattrs DEF FsRight
  <2>. QED BY <2>1, <2>2
<1>3. CASE m.op \notin Makes \cup {"chown", "chmod"}
  <2>1. meta' = meta
    BY <1>3, PromisedNothing
  <2>2. FsRight'
    BY <1>1, <1>2, <2>1 DEF FsRight, MetaRight
  <2>3. m.op # "did_unlink" => Knows(m, m.path)'
    BY <1>1, SameKnows DEF RequestRight
  <2>4. RequestRight(x, m)'
    BY <1>1, <1>3, <2>3 DEF RequestRight
  <2>. QED BY <2>2, <2>4
<1>4. CASE m.op \in Makes \cup {"chown", "chmod"}
  <2>1. /\ m.path \in Paths /\ m.ino \in Inodes /\ Knows(m, m.path) /\ Knows(m, m.path)'
        /\ m.ino = dir[m.path] /\ m.ino # NoInode
    <3>1. m.path \in Paths /\ m.ino \in Inodes /\ Knows(m, m.path)
      BY <1>1, <1>4 DEF RequestRight, Makes
    <3>. QED BY <3>1, SameKnows, NoInodeNot DEF Knows
  <2>2. IsMode(m.mode) /\ Alike(m.mode, kind[m.ino])
    BY <2>1 DEF Knows
  <2>3. kind[m.ino] # "free" /\ MetaRight(m.ino)
    BY <1>1, <2>1 DEF FsRight
  <2>4. xmeta' = xmeta
    BY <1>4, PromisedNoXattrs DEF Makes
  <2>5. SUFFICES ASSUME NEW u, NEW w, meta'[m.ino] = Tracked(u, w), IsMode(w),
                        Alike(w, kind[m.ino]), OnlyAt(m.ino, meta, meta'),
                        DOMAIN meta' = Inodes,
                        m.op = "chown" => u = Overridden(u, m.args) /\ u = m.uid
                 PROVE  FsRight' /\ RequestRight(x, m)'
    <3>1. CASE m.op \in Makes
      <4>1. /\ meta'[m.ino] = Tracked(m.uid, m.mode)
            /\ OnlyAt(m.ino, meta, meta') /\ DOMAIN meta' = Inodes
        BY <1>1, <2>1, <3>1, PromisedMake
      <4>. QED BY <2>2, <2>5, <3>1, <4>1 DEF Makes
    <3>2. CASE m.op = "chown"
      <4>1. PICK u, w : u = meta[m.ino].uid /\ w = meta[m.ino].mode
        OBVIOUS
      <4>2. meta[m.ino] = Tracked(u, w)
        BY <3>2, <4>1, Zenon
      <4>3. /\ meta'[m.ino] = Tracked(Overridden(u, m.args), w)
            /\ OnlyAt(m.ino, meta, meta') /\ DOMAIN meta' = Inodes
        BY <1>1, <2>1, <3>2, <4>2, PromisedChown
      <4>4. m.uid = Overridden(u, m.args)
        BY <1>1, <3>2, <4>1 DEF RequestRight
      <4>5. Overridden(Overridden(u, m.args), m.args) = Overridden(u, m.args)
        BY DEF Overridden
      <4>6. IsMode(w) /\ Alike(w, kind[m.ino])
        BY <2>3, <4>1, <4>2, TrackedFields DEF MetaRight
      <4>. QED BY <2>5, <4>3, <4>4, <4>5, <4>6, Zenon
    <3>3. CASE m.op = "chmod"
      <4>1. PICK u, w : u = meta[m.ino].uid /\ w = meta[m.ino].mode
        OBVIOUS
      <4>2. meta[m.ino] = Tracked(u, w)
        BY <3>3, <4>1, Zenon
      <4>3. PICK v : v = WithPerm(w, m.mode.perm)
        OBVIOUS
      <4>4. /\ meta'[m.ino] = Tracked(u, v)
            /\ OnlyAt(m.ino, meta, meta') /\ DOMAIN meta' = Inodes
        BY <1>1, <2>1, <3>3, <4>2, <4>3, PromisedChmod
      <4>5. IsMode(w) /\ Alike(w, kind[m.ino])
        BY <2>3, <4>1, <4>2, TrackedFields DEF MetaRight
      <4>6. IsMode(v) /\ v.type = w.type
        BY <4>3, <4>5 DEF IsMode, WithPerm
      <4>7. Alike(v, kind[m.ino])
        BY <4>5, <4>6 DEF Alike, IsDir, IsLnk
      <4>. QED BY <2>5, <3>3, <4>4, <4>6, <4>7
    <3>. QED BY <1>4, <3>1, <3>2, <3>3
  <2>6. ASSUME NEW i \in Inodes PROVE MetaRight(i)'
    <3>1. CASE i = m.ino
      <4>1. meta'[i].uid = u /\ meta'[i].mode = w
        BY <2>5, <3>1, TrackedFields
      <4>. QED BY <2>5, <3>1, <4>1 DEF MetaRight
    <3>2. CASE i # m.ino
      BY <1>1, <2>5, <3>2 DEF MetaRight, FsRight, OnlyAt
    <3>. QED BY <3>1, <3>2
  <2>7. FsRight'
    BY <1>1, <1>2, <2>5, <2>6 DEF FsRight
  <2>8. m.op = "chown" => m.uid = Overridden(meta'[m.ino].uid, m.args)
    BY <2>5, TrackedFields
  <2>9. RequestRight(x, m)'
    BY <1>1, <1>4, <2>1, <2>4, <2>8 DEF RequestRight, Makes, Sole
  <2>. QED BY <2>7, <2>9
<1>. QED BY <1>3, <1>4


\* the server knows the file that is linked, or whose owner or mode changes
LEMMA KnownRequest ==
  ASSUME NEW c, NEW x, NEW m, Outstanding(c, x, m), m.op \in {"link", "chown", "chmod"},
         Before(x, m, c) \/ After(x, m, c)
  PROVE  /\ m.ino \in Inodes /\ meta[m.ino].tracked
         /\ meta[m.ino] = Tracked(meta[m.ino].uid, meta[m.ino].mode)
<1>1. PICK D, M : /\ DbIs(D, M, c)
                  /\ \/ D = DirBefore(x, m) \/ D = DirAfter(x, m)
  BY DEF Before, After
<1>2. FilesExact(db.files, D, M, c, meta)
  BY <1>1 DEF DbIs, Exact
<1>3. /\ m.path \in Paths /\ m.ino \in Inodes /\ dir[m.path] = m.ino /\ dir \in Dirs
      /\ m.op = "link" => \E q \in Paths : q # m.path /\ dir[q] = m.ino
  BY DEF Outstanding, RequestRight, Knows, FsRight
<1>4. InDir(D, m.ino)
  <2>1. CASE m.op = "link"
    <3>1. D = Without(dir, m.path) \/ D = dir
      BY <1>1, <2>1, RequestViews DEF Outstanding
    <3>. QED BY <1>3, <2>1, <3>1, WithoutDir DEF InDir
  <2>2. CASE m.op # "link"
    <3>1. D = dir
      BY <1>1, <2>2, RequestViews DEF Outstanding, PathRequests
    <3>. QED BY <1>3, <3>1 DEF InDir
  <2>. QED BY <2>1, <2>2
<1>. QED BY <1>2, <1>3, <1>4, KnownInode

LEMMA ServeStep ==
  ASSUME NEW c \in Clients, Lone(c), IInv, LInv(c), Serve(c)
  PROVE  LInv(c)'
<1>1. PICK m : m = chan[c].msg
  OBVIOUS
<1>2. PICK stale \in StaleLookups(m) :
        LET out == pseudo_op(db, m, stale)
        IN  /\ db' = out.db
            /\ chan' = [chan EXCEPT ![c] =
                   IF life[c] = "up"
                   THEN [dir |-> "answer", msg |-> out.msg, request |-> m]
                   ELSE NoMsg]
            /\ out.msg.result # "abort" => meta' = Promised(m) /\ xmeta' = PromisedXattrs(m)
  BY <1>1 DEF Serve
<1>3. PICK out : out = pseudo_op(db, m, stale)
  OBVIOUS
<1>4. /\ db' = out.db
      /\ chan' = [chan EXCEPT ![c] =
             IF life[c] = "up" THEN [dir |-> "answer", msg |-> out.msg, request |-> m]
             ELSE NoMsg]
      /\ out.msg.result # "abort" => meta' = Promised(m) /\ xmeta' = PromisedXattrs(m)
  BY <1>2, <1>3, Zenon
<1>5. dir' = dir /\ kind' = kind /\ cl' = cl /\ life' = life
  BY DEF Serve, fsvars
<1>6. CASE life[c] # "up"
  <2>1. chan'[c] = NoMsg
    BY <1>4, <1>6 DEF IInv
  <2>2. chan'[c].dir = "none"
    BY <2>1 DEF NoMsg
  <2>. QED BY <1>5, <1>6, <2>2 DEF LInv
<1>7. CASE life[c] = "up"
  <2>1. PICK x : x = cl[c]
    OBVIOUS
  <2>2. chan[c].dir = "request" /\ Request(chan[c]) = m
    BY <1>1 DEF Serve, Request
  <2>3. /\ FsRight /\ RequestRight(x, m) /\ CallRight(x, m)
        /\ Before(x, m, c) \/ (m.op # "rename" /\ After(x, m, c))
    BY <1>1, <1>7, <2>1, <2>2 DEF LInv, ConnectionRight
  <2>4. IsRequest(c, m)
    BY <2>2 DEF IInv, Fits
  <2>5. Outstanding(c, x, m)
    BY <2>3, <2>4 DEF Outstanding
  <2>6. Served(c, x, m, out)
    BY <1>3, <2>3, <2>5, ServeAll
  <2>7. meta' = Promised(m) /\ xmeta' = PromisedXattrs(m)
    BY <1>4, <2>6 DEF Served, AnswerRight
  <2>8. m.op \notin PrefersInode
    BY <2>5, RequestStep DEF Outstanding, PrefersInode, Makes, PathRequests
  <2>9. FsRight' /\ RequestRight(x, m)'
    BY <1>5, <2>3, <2>5, <2>7, <2>8, KnownRequest, MetaAfter
  <2>10. CallRight(x, m)'
    BY <1>5, <2>3, SameCall
  <2>11. After(x, m, c)'
    <3>1. Exact(db', DirAfter(x, m), MarksAfter(x, m), c, meta', xmeta')
      BY <1>4, <2>6, <2>7, Zenon DEF Served
    <3>2. DirAfter(x, m)' = DirAfter(x, m) /\ MarksAfter(x, m)' = MarksAfter(x, m)
      BY <1>5, SameViews
    <3>3. DbIs(DirAfter(x, m), MarksAfter(x, m), c)'
      BY <3>1, <3>2, Zenon DEF DbIs
    <3>4. m.op = "creat" => (meta[m.ino])' = Tracked(m.uid, m.mode)
      <4>1. m.op = "creat" => m.ino \in Inodes /\ m.op \in Makes
        BY <2>3 DEF RequestRight, Makes
      <4>. QED BY <2>3, <2>7, <4>1, PromisedMake
    <3>. QED BY <3>3, <3>4 DEF After
  <2>12. PICK a : a = out.msg
    OBVIOUS
  <2>13. AnswerRight(m, a)'
    <3>1. AnswerRight(m, a)
      BY <2>6, <2>12 DEF Served
    <3>2. m.op \in {"stat", "get_xattr", "list_xattr"} => meta' = meta /\ xmeta' = xmeta
      BY <2>7, PromisedNothing, PromisedNoXattrs DEF Makes, PrefersInode
    <3>. QED BY <3>1, <3>2 DEF AnswerRight
  <2>14. PICK w : w = [dir |-> "answer", msg |-> a, request |-> m]
    OBVIOUS
  <2>15. chan'[c] = w
    BY <1>4, <1>7, <2>12, <2>14 DEF IInv
  <2>16. w.dir = "answer" /\ w.msg = a /\ w.request = m /\ Request(w) = m
    BY <2>14 DEF Request
  <2>17. ConnectionRight(x, w, c)'
    BY <2>9, <2>10, <2>11, <2>13, <2>16 DEF ConnectionRight
  <2>. QED BY <1>5, <1>7, <2>1, <2>9, <2>15, <2>17, NewState
<1>. QED BY <1>6, <1>7

\* the request is sent again to a server with the same database
LEMMA LoseAnswerStep ==
  ASSUME NEW c \in Clients, Lone(c), IInv, LInv(c), LoseAnswer(c)
  PROVE  LInv(c)'
<1>1. PICK x, m : x = cl[c] /\ m = chan[c].request
  OBVIOUS
<1>2. /\ life[c] = "up" /\ chan[c].dir = "answer" /\ m.op \notin NotResent
      /\ UNCHANGED << dir, kind, db, cl, life, meta, xmeta >>
  BY <1>1 DEF LoseAnswer, fsvars, ghosts
<1>3. Request(chan[c]) = m
  BY <1>1, <1>2 DEF Request
<1>4. RequestRight(x, m) /\ CallRight(x, m) /\ After(x, m, c) /\ FsRight
  BY <1>1, <1>2, <1>3 DEF LInv, ConnectionRight
<1>5. RequestRight(x, m)' /\ CallRight(x, m)' /\ After(x, m, c)' /\ FsRight'
  BY <1>2, <1>4, SameRequest, SameCall, SameAfter, SameFs DEF Still
<1>6. m.op # "rename"
  BY <1>2 DEF Lone
<1>7. PICK w : w = [dir |-> "request", msg |-> m]
  OBVIOUS
<1>8. chan'[c] = w
  BY <1>1, <1>7 DEF LoseAnswer, IInv
<1>9. w.dir = "request" /\ w.msg = m /\ Request(w) = m
  BY <1>7 DEF Request
<1>10. ConnectionRight(x, w, c)'
  BY <1>5, <1>6, <1>9 DEF ConnectionRight
<1>. QED BY <1>1, <1>2, <1>5, <1>8, <1>10, NewState

\* no answer of the server makes the client abort
LEMMA AbortStep ==
  ASSUME NEW c, LInv(c), Abort(c)
  PROVE  FALSE
  BY DEF LInv, Abort, ConnectionRight, AnswerRight

LEMMA CrashStep ==
  ASSUME NEW c \in Clients, IInv, LInv(c), Crash(c)
  PROVE  LInv(c)'
<1>1. life' = [life EXCEPT ![c] = "killed"]
  BY DEF Crash, Die
<1>2. life'[c] = "killed"
  BY <1>1 DEF IInv
<1>3. chan'[c] = IF chan[c].dir = "request" THEN chan[c] ELSE NoMsg
  BY DEF Crash, IInv
<1>4. chan'[c].dir # "answer"
  BY <1>3 DEF NoMsg
<1>. QED BY <1>2, <1>4 DEF LInv

LEMMA StutterStep ==
  ASSUME NEW c \in Clients, LInv(c), UNCHANGED vars
  PROVE  LInv(c)'
<1>1. Still /\ cl' = cl /\ chan' = chan /\ life' = life
  BY DEF vars, Still
<1>2. CASE life[c] # "up"
  BY <1>1, <1>2 DEF LInv
<1>3. CASE life[c] = "up"
  <2>1. PICK x, w : x = cl[c] /\ w = chan[c]
    OBVIOUS
  <2>2. FsRight /\ ConnectionRight(x, w, c)
    BY <1>3, <2>1 DEF LInv
  <2>3. FsRight'
    BY <1>1, <2>2, SameFs DEF Still
  <2>4. StepRight(x, c) => StepRight(x, c)'
    BY <1>1 DEF Still, StepRight, DbIs, Fresh, Exists, Sole
  <2>5. \A m : RequestRight(x, m) /\ CallRight(x, m) => RequestRight(x, m)' /\ CallRight(x, m)'
    BY <1>1, SameRequest, SameCall DEF Still
  <2>6. \A m : (Before(x, m, c) => Before(x, m, c)') /\ (After(x, m, c) => After(x, m, c)')
    BY <1>1, SameBefore, SameAfter
  <2>7. \A m, a : AnswerRight(m, a) => AnswerRight(m, a)'
    BY <1>1 DEF Still, AnswerRight
  <2>8. ConnectionRight(x, w, c)'
    BY <2>2, <2>4, <2>5, <2>6, <2>7 DEF ConnectionRight
  <2>. QED BY <1>1, <1>3, <2>1, <2>3, <2>8, NewState
<1>. QED BY <1>2, <1>3

-----------------------------------------------------------------------------
(* The file system, as the wrappers see it *)

\* a link count of one: no other path; a file with a name has a link
LEMMA LinkCount ==
  ASSUME IsFiniteSet(Paths), NEW D, NEW p \in Paths
  PROVE  /\ Links(D, D[p]) # 0
         /\ Links(D, D[p]) = 1 => \A q \in Paths : D[q] = D[p] => q = p
<1>. DEFINE S == {q \in Paths : D[q] = D[p]}
<1>1. IsFiniteSet(S) /\ p \in S
  BY FS_Subset
<1>2. Links(D, D[p]) = Cardinality(S)
  BY DEF Links
<1>3. ASSUME NEW q \in Paths, D[q] = D[p] PROVE q \in S
  BY <1>3
<1>. HIDE DEF S
<1>4. Cardinality(S) # 0
  BY <1>1, FS_EmptySet
<1>5. Cardinality(S) = 1 => \A q \in S : q = p
  <2>1. SUFFICES ASSUME Cardinality(S) = 1 PROVE \A q \in S : q = p
    OBVIOUS
  <2>2. PICK y : S = {y}
    BY <1>1, <2>1, FS_Singleton
  <2>. QED BY <1>1, <2>2
<1>. QED BY <1>2, <1>3, <1>4, <1>5

LEMMA LstatKnows ==
  ASSUME IsFiniteSet(Paths), FsRight, NEW p \in Paths, NEW st, st = Lstat(p)
  PROVE  /\ Knows(st, p) /\ st.ino \in Inodes \cup {NoInode}
         /\ Exists(p) => st.ino \in Inodes /\ st.mode.type = kind[st.ino] /\ st.uid = RealUid
<1>1. CASE ~Exists(p)
  BY <1>1 DEF Lstat, NoStat, Knows, Exists
<1>2. CASE Exists(p)
  <2>1. PICK i : i = dir[p]
    OBVIOUS
  <2>2. PICK n : n = IF kind[i] = "dir" THEN 2 ELSE Links(dir, i)
    OBVIOUS
  <2>3. st = [ino |-> i, uid |-> RealUid, mode |-> [type |-> kind[i], perm |-> RealPerm],
              nlink |-> n]
    BY <1>2, <2>1, <2>2 DEF Lstat, StatOf
  <2>4. i \in Inodes
    BY <1>2, <2>1 DEF FsRight, Dirs, Exists
  <2>5. n = 1 => Sole(p)
    BY <2>1, <2>2, LinkCount DEF Sole
  <2>6. /\ st.ino = i /\ st.nlink = n /\ st.uid = RealUid
        /\ st.mode = [type |-> kind[i], perm |-> RealPerm]
    BY <2>3
  <2>7. IsMode(st.mode) /\ Alike(st.mode, kind[i]) /\ st.mode.type = kind[i]
    BY <2>6 DEF IsMode, Alike, IsDir, IsLnk
  <2>. QED BY <2>1, <2>4, <2>5, <2>6, <2>7 DEF Knows
<1>. QED BY <1>1, <1>2

LEMMA MsgFields ==
  ASSUME NEW c, NEW op, NEW p, NEW st, NEW m, m = Msg(c, op, p, st)
  PROVE  /\ m.op = op /\ m.path = p /\ m.ino = st.ino /\ m.mode = st.mode
         /\ m.nlink = st.nlink /\ m.args = << Keep, Keep >>
         /\ op \notin UsesFuid => m.uid = st.uid
  BY DEF Msg

\* a message, or another buffer, with the same inode, type and link count
LEMMA KnowsToo ==
  ASSUME NEW st, NEW p, Knows(st, p), NEW m, m.ino = st.ino, m.nlink = st.nlink,
         IsMode(m.mode), m.mode.type = st.mode.type
  PROVE  Knows(m, p)
  BY DEF Knows, Alike, IsDir, IsLnk

LEMMA MsgKnows ==
  ASSUME NEW st, NEW p, Knows(st, p), NEW c, NEW op, NEW q, NEW m, m = Msg(c, op, q, st)
  PROVE  Knows(m, p)
<1>1. m.ino = st.ino /\ m.mode = st.mode /\ m.nlink = st.nlink
  BY MsgFields
<1>. QED BY <1>1 DEF Knows

LEMMA Reclaimed ==
  ASSUME IsFiniteSet(Paths), FsRight, dir' \in Dirs,
         \A p \in Paths : dir'[p] # NoInode => \E q \in Paths : dir[q] = dir'[p],
         NEW H, kind' = Reclaim(dir', kind, H), UNCHANGED << meta, xmeta >>
  PROVE  /\ FsRight'
         /\ \A p \in Paths : dir'[p] # NoInode => kind'[dir'[p]] = kind[dir'[p]]
<1>1. ASSUME NEW p \in Paths, dir'[p] # NoInode
      PROVE  kind'[dir'[p]] = kind[dir'[p]] /\ kind'[dir'[p]] # "free"
  <2>1. dir'[p] \in Inodes
    BY <1>1 DEF Dirs
  <2>2. Links(dir', dir'[p]) # 0
    BY LinkCount
  <2>3. kind'[dir'[p]] = kind[dir'[p]]
    BY <2>1, <2>2 DEF Reclaim
  <2>4. PICK q \in Paths : dir[q] = dir'[p]
    BY <1>1
  <2>5. kind[dir'[p]] # "free"
    BY <1>1, <2>4 DEF FsRight
  <2>. QED BY <2>3, <2>5
<1>2. ASSUME NEW i \in Inodes PROVE kind'[i] = "free" \/ kind'[i] = kind[i]
  BY DEF Reclaim
<1>3. ASSUME NEW i \in Inodes PROVE MetaRight(i)'
  BY <1>2 DEF FsRight, MetaRight
<1>4. DOMAIN kind' = Inodes
  BY DEF Reclaim
<1>. QED BY <1>1, <1>3, <1>4 DEF FsRight

\* the directory is the same, and inodes without names are reclaimed
LEMMA ReclaimedKnows ==
  ASSUME UNCHANGED dir, NEW p \in Paths, dir[p] # NoInode => kind'[dir[p]] = kind[dir[p]],
         NEW st, Knows(st, p)
  PROVE  Knows(st, p)'
  BY DEF Knows, Sole

LEMMA Created ==
  ASSUME FsRight, NEW c, DbIs(dir, {}, c), NEW p \in Paths, NEW i \in Inodes, NEW t,
         t # "free", RealCreate(p, i, t), UNCHANGED db
  PROVE  FsRight' /\ Fresh(p, c)' /\ dir'[p] = i /\ kind'[i] = t
<1>1. /\ kind[i] = "free" /\ dir[p] = NoInode /\ dir' = Put(dir, p, i) /\ dir \in Dirs
      /\ kind' = [kind EXCEPT ![i] = t] /\ meta' = [meta EXCEPT ![i] = Untracked]
      /\ xmeta' = [xmeta EXCEPT ![i] = {}]
  BY DEF RealCreate, Put, Exists, FsRight
<1>2. dir' \in Dirs /\ dir'[p] = i /\ \A q \in Paths : q # p => dir'[q] = dir[q]
  BY <1>1, PutDir
<1>3. \A q \in Paths : dir[q] # i
  BY <1>1, NoInodeNot DEF FsRight
<1>4. /\ kind'[i] = t /\ meta'[i] = Untracked /\ xmeta'[i] = {}
      /\ \A j \in Inodes : j # i => kind'[j] = kind[j] /\ meta'[j] = meta[j] /\ xmeta'[j] = xmeta[j]
      /\ DOMAIN kind' = Inodes /\ DOMAIN meta' = Inodes /\ DOMAIN xmeta' = Inodes
  BY <1>1 DEF FsRight
<1>5. ASSUME NEW j \in Inodes PROVE MetaRight(j)'
  BY <1>4 DEF FsRight, MetaRight
<1>6. ASSUME NEW q \in Paths, dir'[q] # NoInode PROVE kind'[dir'[q]] # "free"
  <2>1. CASE q = p
    BY <1>2, <1>4, <2>1
  <2>2. CASE q # p
    <3>1. dir'[q] = dir[q] /\ dir[q] \in Inodes
      BY <1>1, <1>2, <1>6, <2>2 DEF Dirs
    <3>. QED BY <1>3, <1>4, <1>6, <3>1 DEF FsRight
  <2>. QED BY <2>1, <2>2
<1>7. FsRight'
  BY <1>2, <1>4, <1>5, <1>6 DEF FsRight
<1>8. Sole(p)'
  BY <1>2, <1>3 DEF Sole
<1>9. PICK D, mt, xm : D = dir /\ mt = meta' /\ xm = xmeta'
  OBVIOUS
<1>10. PICK M : M = {}
  OBVIOUS
<1>11. Exact(db, D, M, c, meta, xmeta)
  BY <1>9, <1>10, Zenon DEF DbIs
<1>12. ASSUME NEW q \in Paths, D[q] # NoInode
       PROVE  mt[D[q]] = meta[D[q]] /\ xm[D[q]] = xmeta[D[q]] /\ (q \in M <=> q \in M)
  <2>1. D[q] \in Inodes /\ D[q] # i
    BY <1>1, <1>3, <1>9, <1>12 DEF Dirs
  <2>. QED BY <1>4, <1>9, <2>1
<1>13. Exact(db, D, M, c, mt, xm)
  BY <1>11, <1>12, ExactSame
<1>14. Without(Put(dir, p, i), p) = Without(dir, p) /\ Without(dir, p) = dir
  BY <1>1, PutWithout
<1>15. DbIs(Without(dir, p), {}, c)'
  BY <1>1, <1>9, <1>10, <1>13, <1>14, Zenon DEF DbIs
<1>. QED BY <1>2, <1>4, <1>7, <1>8, <1>15, NoInodeNot DEF Fresh

-----------------------------------------------------------------------------
(* Assignments to cl[c], with the fields that the invariant speaks of *)

LEMMA CallFits ==
  ASSUME IInv, NEW c \in Clients
  PROVE  DOMAIN cl = Clients /\ IsCall(cl[c])
  BY DEF IInv, Fits

LEMMA AssignedOne ==
  ASSUME IInv, NEW c \in Clients, NEW pc, NEW v,
         \/ cl' = [cl EXCEPT ![c].pc = pc]
         \/ cl' = [cl EXCEPT ![c].pc = pc, ![c].fd = v]
         \/ cl' = [cl EXCEPT ![c].pc = pc, ![c].fd.linked = v]
  PROVE  /\ cl'[c].pc = pc /\ cl'[c].p = cl[c].p /\ cl'[c].q = cl[c].q
         /\ cl'[c].st = cl[c].st /\ cl'[c].st2 = cl[c].st2
         /\ cl'[c].mark = cl[c].mark /\ cl'[c].mark2 = cl[c].mark2
<1>1. DOMAIN cl = Clients /\ IsCall(cl[c])
  BY DEF IInv, Fits
<1>2. \/ cl'[c] = [cl[c] EXCEPT !.pc = pc]
      \/ cl'[c] = [cl[c] EXCEPT !.pc = pc, !.fd = v]
      \/ cl'[c] = [cl[c] EXCEPT !.pc = pc, !.fd.linked = v]
  BY <1>1, Zenon
<1>. QED BY <1>1, <1>2, Zenon DEF IsCall

LEMMA AssignedPath ==
  ASSUME IInv, NEW c \in Clients, NEW pc, NEW p, cl' = [cl EXCEPT ![c].pc = pc, ![c].p = p]
  PROVE  cl'[c].pc = pc /\ cl'[c].p = p
<1>1. DOMAIN cl = Clients /\ IsCall(cl[c])
  BY DEF IInv, Fits
<1>2. cl'[c] = [cl[c] EXCEPT !.pc = pc, !.p = p]
  BY <1>1, Zenon
<1>. QED BY <1>1, <1>2, Zenon DEF IsCall

-----------------------------------------------------------------------------
(* The calls start *)

LEMMA StartFacts ==
  ASSUME NEW c, NEW call, Start(c, call)
  PROVE  Idle(c) /\ call \in Calls
  BY DEF Start

LEMMA LonePaths ==
  ASSUME NEW c \in Clients, Lone(c), NEW p \in Own[c]
  PROVE  p \in Paths /\ IsFiniteSet(Paths)
  BY DEF Lone

LEMMA MarkFirstStep ==
  ASSUME IInv, NEW c \in Clients, Lone(c), LInv(c), NEW p \in Own[c],
         NEW call \in {"unlink", "rmdir"}, MarkFirst(c, call, p)
  PROVE  LInv(c)'
<1>0. DOMAIN cl = Clients /\ IsCall(cl[c])
  BY CallFits
<1>1. Idle(c) /\ Exists(p) /\ UNCHANGED life /\ Still
  BY DEF MarkFirst, Start, fsvars, ghosts, Still
<1>2. life[c] = "up" /\ FsRight /\ DbIs(dir, {}, c)
  BY <1>1, IdleFacts
<1>3. PICK st : st = Lstat(p)
  OBVIOUS
<1>4. Knows(st, p) /\ st.ino \in Inodes /\ p \in Paths
  BY <1>1, <1>2, <1>3, LonePaths, LstatKnows
<1>5. PICK x, m : x = cl'[c] /\ m = Msg(c, "may_unlink", p, st)
  OBVIOUS
<1>6. Send(c, m)
  BY <1>3, <1>5 DEF MarkFirst
<1>7. x.pc = call /\ x.p = p /\ x.st = st
  <2>1. cl' = [cl EXCEPT ![c].pc = call, ![c].p = p, ![c].st = st]
    BY <1>3, Zenon DEF MarkFirst
  <2>2. x = [cl[c] EXCEPT !.pc = call, !.p = p, !.st = st]
    BY <1>5, <2>1, <1>0, Zenon
  <2>. QED BY <2>2, <1>0, Zenon DEF IsCall
<1>8. m.op = "may_unlink" /\ m.path = p /\ m.ino = st.ino /\ Knows(m, p)
  BY <1>4, <1>5, MsgFields, MsgKnows
<1>9. RequestRight(x, m)
  BY <1>4, <1>8 DEF RequestRight, Makes
<1>10. CallRight(x, m)
  BY <1>4, <1>7, <1>8, NoInodeNot DEF CallRight, Renaming
<1>11. Before(x, m, c)
  <2>1. DirBefore(x, m) = dir /\ MarksBefore(x, m) = {}
    BY <1>7, <1>8 DEF DirBefore, MarksBefore, Makes
  <2>. QED BY <1>2, <2>1, Zenon DEF Before
<1>. QED BY <1>1, <1>2, <1>5, <1>6, <1>9, <1>10, <1>11, AskingHere

LEMMA StartOpenStep ==
  ASSUME IInv, NEW c \in Clients, Lone(c), LInv(c), NEW p \in Own[c], StartOpen(c, p)
  PROVE  LInv(c)'
<1>0. DOMAIN cl = Clients /\ IsCall(cl[c])
  BY CallFits
<1>1. Idle(c) /\ UNCHANGED << life, chan >> /\ Still
  BY DEF StartOpen, Start, fsvars, ghosts, Still
<1>2. life[c] = "up" /\ FsRight /\ DbIs(dir, {}, c) /\ chan[c].dir = "none"
  BY <1>1, IdleFacts
<1>3. PICK x, b : x = cl'[c] /\ b = Exists(p)
  OBVIOUS
<1>4. x.pc = "open" /\ x.p = p /\ x.mark = b
  <2>1. cl' = [cl EXCEPT ![c].pc = "open", ![c].p = p, ![c].mark = b]
    BY <1>3, Zenon DEF StartOpen
  <2>2. x = [cl[c] EXCEPT !.pc = "open", !.p = p, !.mark = b]
    BY <1>3, <2>1, <1>0, Zenon
  <2>. QED BY <2>2, <1>0, Zenon DEF IsCall
<1>5. p \in Paths
  BY LonePaths
<1>6. DbIs(dir, {}, c)'
  BY <1>1, <1>2 DEF DbIs, Still
<1>7. Exists(x.p)' <=> Exists(p)
  BY <1>1, <1>4 DEF Exists, Still
<1>8. x.mark <=> Exists(x.p)'
  BY <1>3, <1>4, <1>7, Zenon
<1>9. StepRight(x, c)'
  BY <1>4, <1>5, <1>6, <1>8 DEF StepRight, Making
<1>10. FsRight'
  BY <1>1, <1>2, SameFs DEF Still
<1>. QED BY <1>1, <1>2, <1>3, <1>9, <1>10, RestingNow

LEMMA RealMakeStep ==
  ASSUME IInv, NEW c \in Clients, Lone(c), LInv(c), NEW p \in Own[c],
         NEW call \in {"mkdir", "symlink", "mkdtemp", "mkfifo"}, NEW type, type # "free",
         RealMake(c, call, p, type)
  PROVE  LInv(c)'
<1>1. Idle(c) /\ UNCHANGED << life, chan, db >>
  BY DEF RealMake, Start
<1>2. life[c] = "up" /\ FsRight /\ DbIs(dir, {}, c) /\ chan[c].dir = "none"
  BY <1>1, IdleFacts
<1>3. PICK i \in Inodes : RealCreate(p, i, type)
  BY DEF RealMake
<1>4. FsRight' /\ Fresh(p, c)'
  BY <1>1, <1>2, <1>3, LonePaths, Created
<1>5. PICK x : x = cl'[c]
  OBVIOUS
<1>6. x.pc = call /\ x.p = p
  <2>1. cl' = [cl EXCEPT ![c].pc = call, ![c].p = p]
    BY Zenon DEF RealMake
  <2>. QED BY <1>5, <2>1, AssignedPath, Zenon
<1>7. Fresh(x.p, c)'
  BY <1>4, <1>6, Zenon
<1>8. StepRight(x, c)'
  BY <1>6, <1>7 DEF StepRight, Making
<1>. QED BY <1>1, <1>2, <1>4, <1>5, <1>8, RestingNow

LEMMA RealMkstempStep ==
  ASSUME IInv, NEW c \in Clients, Lone(c), LInv(c), NEW p \in Own[c], RealMkstemp(c, p)
  PROVE  LInv(c)'
<1>0. DOMAIN cl = Clients /\ IsCall(cl[c])
  BY CallFits
<1>1. Idle(c) /\ UNCHANGED << life, chan, db >>
  BY DEF RealMkstemp, Start
<1>2. life[c] = "up" /\ FsRight /\ DbIs(dir, {}, c) /\ chan[c].dir = "none"
  BY <1>1, IdleFacts
<1>3. PICK i \in Inodes :
         /\ RealCreate(p, i, "reg")
         /\ cl' = [cl EXCEPT ![c].pc = "mkstemp", ![c].p = p, ![c].fd = [NoFd EXCEPT !.ino = i]]
  BY DEF RealMkstemp
<1>4. PICK t : t = "reg"
  OBVIOUS
<1>5. FsRight' /\ Fresh(p, c)' /\ dir'[p] = i
  <2>1. t # "free" /\ RealCreate(p, i, t)
    BY <1>3, <1>4
  <2>. QED BY <1>1, <1>2, <2>1, LonePaths, Created
<1>6. PICK x, f : x = cl'[c] /\ f = [NoFd EXCEPT !.ino = i]
  OBVIOUS
<1>7. x.pc = "mkstemp" /\ x.p = p /\ x.fd = f
  <2>1. cl' = [cl EXCEPT ![c].pc = "mkstemp", ![c].p = p, ![c].fd = f]
    BY <1>3, <1>6, Zenon
  <2>2. x = [cl[c] EXCEPT !.pc = "mkstemp", !.p = p, !.fd = f]
    BY <1>6, <2>1, <1>0, Zenon
  <2>. QED BY <2>2, <1>0, Zenon DEF IsCall
<1>8. x.fd.ino = dir'[p]
  BY <1>5, <1>6, <1>7 DEF NoFd
<1>9. Fresh(x.p, c)'
  BY <1>5, <1>7, Zenon
<1>10. StepRight(x, c)'
  BY <1>7, <1>8, <1>9 DEF StepRight, Making
<1>. QED BY <1>1, <1>2, <1>5, <1>6, <1>10, RestingNow

LEMMA RealMknodStep ==
  ASSUME IInv, NEW c \in Clients, Lone(c), LInv(c), NEW p \in Own[c], RealMknod(c, p)
  PROVE  LInv(c)'
<1>1. Idle(c) /\ UNCHANGED << life, db >> /\ Goto(c, "last")
  BY DEF RealMknod, Start
<1>2. life[c] = "up" /\ FsRight /\ DbIs(dir, {}, c)
  BY <1>1, IdleFacts
<1>3. PICK i \in Inodes, perm \in Perms :
         /\ RealCreate(p, i, "reg")
         /\ Send(c, Msg(c, "mknod", p, [ino |-> i, uid |-> RealUid, nlink |-> 1,
                                        mode |-> [type |-> "chr", perm |-> perm]]))
  BY DEF RealMknod
<1>4. PICK t : t = "reg"
  OBVIOUS
<1>5. FsRight' /\ Fresh(p, c)' /\ dir'[p] = i /\ kind'[i] = t /\ p \in Paths
  <2>1. t # "free" /\ RealCreate(p, i, t)
    BY <1>3, <1>4
  <2>. QED BY <1>1, <1>2, <2>1, LonePaths, Created
<1>6. PICK st, mode : /\ mode = [type |-> "chr", perm |-> perm]
                      /\ st = [ino |-> i, uid |-> RealUid, nlink |-> 1, mode |-> mode]
  OBVIOUS
<1>7. PICK x, m : x = cl'[c] /\ m = Msg(c, "mknod", p, st)
  OBVIOUS
<1>8. Send(c, m)
  BY <1>3, <1>6, <1>7, Zenon
<1>9. x.pc = "last"
  BY <1>1, <1>7, AssignedOne DEF Goto
<1>10. m.op = "mknod" /\ m.path = p /\ m.ino = i /\ m.mode = mode
  BY <1>6, <1>7, MsgFields
<1>11. IsMode(mode) /\ Alike(mode, t)
  BY <1>4, <1>6 DEF IsMode, Alike, IsDir, IsLnk
<1>12. Sole(p)' /\ xmeta'[i] = {}
  BY <1>5 DEF Fresh
<1>13. Knows(m, p)'
  BY <1>5, <1>10, <1>11, <1>12 DEF Knows
<1>14. RequestRight(x, m)'
  BY <1>5, <1>10, <1>12, <1>13, NoInodeNot DEF RequestRight, Makes
<1>15. CallRight(x, m)'
  BY <1>9, <1>10 DEF CallRight, Renaming, Makes
<1>16. Before(x, m, c)'
  <2>1. DirBefore(x, m)' = Without(dir, p)' /\ MarksBefore(x, m)' = {}
    BY <1>9, <1>10 DEF DirBefore, MarksBefore, Makes
  <2>2. DbIs(Without(dir, p), {}, c)'
    BY <1>5 DEF Fresh
  <2>. QED BY <2>1, <2>2, Zenon DEF Before
<1>. QED BY <1>1, <1>2, <1>5, <1>7, <1>8, <1>14, <1>15, <1>16, AskingNow


\* a request about the file at p, whose buffer is st
About(m, p, st) ==
    /\ m.op \in Asks /\ m.path = p /\ m.ino = st.ino /\ m.nlink = st.nlink
    /\ m.mode.type = st.mode.type /\ IsMode(m.mode)
    /\ m.op = "chown" => \E u \in Uids : m.args = << u, u >> /\ m.uid = Overridden(st.uid, m.args)

LEMMA AboutMsg ==
  ASSUME NEW c, NEW p, NEW st, IsMode(st.mode), NEW op \in Asks \ {"chown"},
         NEW n, n = Msg(c, op, p, st)
  PROVE  About(n, p, st)
<1>1. n.op = op /\ n.path = p /\ n.ino = st.ino /\ n.mode = st.mode /\ n.nlink = st.nlink
  BY MsgFields
<1>. QED BY <1>1 DEF About

LEMMA AboutToo ==
  ASSUME NEW p, NEW st, NEW n, About(n, p, st), n.op # "chown",
         NEW m, m.op = n.op, m.path = n.path, m.ino = n.ino, m.mode = n.mode, m.nlink = n.nlink
  PROVE  About(m, p, st)
  BY DEF About

\* a call that sends one request about a path
LEMMA RequestFields ==
  ASSUME NEW c, NEW p, NEW st, IsMode(st.mode), IsStat(st),
         NEW r \in Requests(c, p, st), NEW m, m = r[2]
  PROVE  About(m, p, st)
<1>1. \/ r \in StatRequests(c, p, st) \/ r \in ListxattrRequests(c, p, st)
      \/ r \in ChownRequests(c, p, st) \/ r \in ChmodRequests(c, p, st)
      \/ r \in SetxattrRequests(c, p, st) \/ r \in GetxattrRequests(c, p, st)
      \/ r \in RemovexattrRequests(c, p, st)
  BY Zenon DEF Requests
<1>2. CASE r \in StatRequests(c, p, st)
  <2>1. PICK op, n : op = "stat" /\ n = Msg(c, "stat", p, st) /\ r = << "stat", n >>
    BY <1>2, Zenon DEF StatRequests
  <2>2. m = n
    BY <2>1
  <2>. QED BY <2>1, <2>2, AboutMsg DEF Asks
<1>3. CASE r \in ListxattrRequests(c, p, st)
  <2>1. PICK op, n : /\ op = "list_xattr" /\ n = Msg(c, "list_xattr", p, st)
                     /\ r = << "listxattr", n >>
    BY <1>3, Zenon DEF ListxattrRequests
  <2>2. m = n
    BY <2>1
  <2>. QED BY <2>1, <2>2, AboutMsg DEF Asks
<1>4. CASE r \in ChownRequests(c, p, st)
  <2>1. PICK u \in Uids : r = << "chown", ChownMsg(c, "chown", p, st, << u, u >>) >>
    BY <1>4 DEF ChownRequests, FullArgs
  <2>2. PICK s, v : s = [st EXCEPT !.uid = v] /\ v = Overridden(st.uid, << u, u >>)
    OBVIOUS
  <2>3. PICK n : n = Msg(c, "chown", p, s)
    OBVIOUS
  <2>4. m = [n EXCEPT !.args = << u, u >>]
    BY <2>1, <2>2, <2>3 DEF ChownMsg
  <2>5. s.ino = st.ino /\ s.nlink = st.nlink /\ s.mode = st.mode /\ s.uid = v
    BY <2>2 DEF IsStat
  <2>6. /\ m.op = "chown" /\ m.path = p /\ m.ino = s.ino /\ m.nlink = s.nlink
        /\ m.mode = s.mode /\ m.uid = s.uid /\ m.args = << u, u >>
    BY <2>3, <2>4 DEF Msg, UsesFuid
  <2>. QED BY <2>2, <2>5, <2>6 DEF Asks, About
<1>5. CASE r \in ChmodRequests(c, p, st)
  <2>1. PICK w : r = << "chmod", Msg(c, "chmod", p, [st EXCEPT !.mode.perm = w]) >>
    BY <1>5, Zenon DEF ChmodRequests
  <2>2. PICK s, op : op = "chmod" /\ s = [st EXCEPT !.mode.perm = w]
    OBVIOUS
  <2>3. s.ino = st.ino /\ s.nlink = st.nlink /\ s.mode = [st.mode EXCEPT !.perm = w]
    BY <2>2 DEF IsStat
  <2>4. PICK n : n = Msg(c, op, p, s) /\ m = n
    BY <2>1, <2>2
  <2>5. s.mode.type = st.mode.type /\ IsMode(s.mode)
    BY <2>3 DEF IsMode
  <2>6. About(n, p, s) /\ n.op # "chown"
    <3>1. op \in Asks \ {"chown"}
      BY <2>2 DEF Asks
    <3>2. About(n, p, s)
      BY <2>4, <2>5, <3>1, AboutMsg, Zenon
    <3>3. n.op = op
      BY <2>4, MsgFields
    <3>. QED BY <3>1, <3>2, <3>3
  <2>. QED BY <2>3, <2>4, <2>5, <2>6 DEF About
<1>6. CASE r \in SetxattrRequests(c, p, st)
  <2>1. PICK y : r = << "setxattr", [Msg(c, "set_xattr", p, st) EXCEPT !.name = y[1],
                                                                       !.value = y[2]] >>
    BY <1>6, Zenon DEF SetxattrRequests
  <2>2. PICK op, n : op = "set_xattr" /\ n = Msg(c, "set_xattr", p, st)
    OBVIOUS
  <2>3. m = [n EXCEPT !.name = y[1], !.value = y[2]]
    BY <2>1, <2>2
  <2>4. About(n, p, st) /\ n.op = op
    BY <2>2, AboutMsg, MsgFields DEF Asks
  <2>5. m.op = n.op /\ m.path = n.path /\ m.ino = n.ino /\ m.mode = n.mode /\ m.nlink = n.nlink
    BY <2>2, <2>3 DEF Msg
  <2>. QED BY <2>2, <2>4, <2>5, AboutToo
<1>7. CASE r \in GetxattrRequests(c, p, st)
  <2>1. PICK y : r = << "getxattr", [Msg(c, "get_xattr", p, st) EXCEPT !.name = y] >>
    BY <1>7, Zenon DEF GetxattrRequests
  <2>2. PICK op, n : op = "get_xattr" /\ n = Msg(c, "get_xattr", p, st)
    OBVIOUS
  <2>3. m = [n EXCEPT !.name = y]
    BY <2>1, <2>2
  <2>4. About(n, p, st) /\ n.op = op
    BY <2>2, AboutMsg, MsgFields DEF Asks
  <2>5. m.op = n.op /\ m.path = n.path /\ m.ino = n.ino /\ m.mode = n.mode /\ m.nlink = n.nlink
    BY <2>2, <2>3 DEF Msg
  <2>. QED BY <2>2, <2>4, <2>5, AboutToo
<1>8. CASE r \in RemovexattrRequests(c, p, st)
  <2>1. PICK y : r = << "removexattr", [Msg(c, "remove_xattr", p, st) EXCEPT !.name = y] >>
    BY <1>8, Zenon DEF RemovexattrRequests
  <2>2. PICK op, n : op = "remove_xattr" /\ n = Msg(c, "remove_xattr", p, st)
    OBVIOUS
  <2>3. m = [n EXCEPT !.name = y]
    BY <2>1, <2>2
  <2>4. About(n, p, st) /\ n.op = op
    BY <2>2, AboutMsg, MsgFields DEF Asks
  <2>5. m.op = n.op /\ m.path = n.path /\ m.ino = n.ino /\ m.mode = n.mode /\ m.nlink = n.nlink
    BY <2>2, <2>3 DEF Msg
  <2>. QED BY <2>2, <2>4, <2>5, AboutToo
<1>. QED BY <1>1, <1>2, <1>3, <1>4, <1>5, <1>6, <1>7, <1>8

\* chown(u, u) leaves nothing of the old owner
LEMMA FullOwner ==
  ASSUME NEW u \in Uids, NEW o, NEW v
  PROVE  Overridden(o, << u, u >>) = Overridden(v, << u, u >>)
<1>1. u # Keep
  BY UidsAssumption DEF Keep
<1>. QED BY <1>1 DEF Overridden

\* the buffer of a file that exists
LEMMA LstatFields ==
  ASSUME NEW p, Exists(p), NEW st, st = Lstat(p)
  PROVE  IsStat(st) /\ IsMode(st.mode)
<1>1. PICK i, n, k : i = dir[p] /\ k = kind[i] /\ n = IF k = "dir" THEN 2 ELSE Links(dir, i)
  OBVIOUS
<1>2. st = [ino |-> i, uid |-> RealUid, mode |-> [type |-> k, perm |-> RealPerm], nlink |-> n]
  BY <1>1 DEF Lstat, StatOf
<1>. QED BY <1>2 DEF IsMode, IsStat

LEMMA OneRequestStep ==
  ASSUME IInv, NEW c \in Clients, Lone(c), LInv(c), NEW p \in Own[c], OneRequest(c, p)
  PROVE  LInv(c)'
<1>1. PICK st : st = Lstat(p)
  OBVIOUS
<1>2. PICK r \in Requests(c, p, st) : Start(c, r[1]) /\ Send(c, r[2])
  BY <1>1 DEF OneRequest
<1>3. PICK x, m : x = cl'[c] /\ m = r[2]
  OBVIOUS
<1>4. /\ Idle(c) /\ Exists(p) /\ UNCHANGED life /\ Still /\ Goto(c, "last") /\ Send(c, m)
  BY <1>2, <1>3 DEF OneRequest, Start, fsvars, ghosts, Still
<1>5. life[c] = "up" /\ FsRight /\ DbIs(dir, {}, c)
  BY <1>4, IdleFacts
<1>6. Knows(st, p) /\ st.ino \in Inodes /\ p \in Paths
  BY <1>1, <1>4, <1>5, LonePaths, LstatKnows
<1>7. /\ m.op \in Asks /\ m.path = p /\ m.ino = st.ino /\ m.nlink = st.nlink
      /\ m.mode.type = st.mode.type /\ IsMode(m.mode)
      /\ m.op = "chown" => \E u \in Uids : m.args = << u, u >> /\ m.uid = Overridden(st.uid, m.args)
  <2>1. IsStat(st) /\ IsMode(st.mode)
    BY <1>1, <1>4, LstatFields
  <2>2. About(m, p, st)
    BY <1>2, <1>3, <2>1, RequestFields, Zenon
  <2>. QED BY <2>2 DEF About
<1>8. x.pc = "last"
  BY <1>3, <1>4, AssignedOne DEF Goto
<1>9. m.op = "chown" => m.uid = Overridden(meta[m.ino].uid, m.args)
  BY <1>7, FullOwner
<1>10. Knows(m, p)
  BY <1>6, <1>7, KnowsToo
<1>11. RequestRight(x, m)
  BY <1>6, <1>7, <1>9, <1>10, NoInodeNot DEF RequestRight, Asks, Makes
<1>12. CallRight(x, m)
  BY <1>7, <1>8 DEF CallRight, Renaming, Asks
<1>13. DirBefore(x, m) = dir /\ MarksBefore(x, m) = {}
  BY <1>7, <1>8 DEF DirBefore, MarksBefore, Makes, Asks
<1>14. Before(x, m, c)
  BY <1>5, <1>13, Zenon DEF Before
<1>. QED BY <1>3, <1>4, <1>5, <1>11, <1>12, <1>14, AskingHere

LEMMA StartChownStep ==
  ASSUME IInv, NEW c \in Clients, Lone(c), LInv(c), NEW p \in Own[c], StartChown(c, p)
  PROVE  LInv(c)'
<1>0. DOMAIN cl = Clients /\ IsCall(cl[c])
  BY CallFits
<1>1. Idle(c) /\ Exists(p) /\ UNCHANGED life /\ Still
  BY DEF StartChown, AskOwner, Start, fsvars, ghosts, Still
<1>2. life[c] = "up" /\ FsRight /\ DbIs(dir, {}, c)
  BY <1>1, IdleFacts
<1>3. PICK st : st = Lstat(p)
  OBVIOUS
<1>4. Knows(st, p) /\ IsStat(st) /\ st.ino \in Inodes /\ p \in Paths
  BY <1>1, <1>2, <1>3, LonePaths, LstatKnows, LstatFields
<1>5. PICK x, m : x = cl'[c] /\ m = Msg(c, "stat", p, st)
  OBVIOUS
<1>6. Send(c, m)
  BY <1>3, <1>5 DEF StartChown, AskOwner
<1>7. x.pc = "chown" /\ x.p = p /\ x.st = st
  <2>1. PICK a : cl' = [cl EXCEPT ![c].pc = "chown", ![c].p = p, ![c].st = st, ![c].args = a]
    BY <1>3 DEF StartChown, AskOwner
  <2>2. x = [cl[c] EXCEPT !.pc = "chown", !.p = p, !.st = st, !.args = a]
    BY <1>0, <1>5, <2>1, Zenon
  <2>. QED BY <1>0, <2>2, Zenon DEF IsCall
<1>8. m.op = "stat" /\ m.path = p /\ m.ino = st.ino /\ Knows(m, p)
  BY <1>4, <1>5, MsgFields, MsgKnows
<1>9. RequestRight(x, m)
  BY <1>4, <1>8 DEF RequestRight, Makes
<1>10. CallRight(x, m)
  BY <1>4, <1>7, <1>8, NoInodeNot DEF CallRight, Renaming
<1>11. Before(x, m, c)
  <2>1. DirBefore(x, m) = dir /\ MarksBefore(x, m) = {}
    BY <1>7, <1>8 DEF DirBefore, MarksBefore, Makes
  <2>. QED BY <1>2, <2>1, Zenon DEF Before
<1>. QED BY <1>1, <1>2, <1>5, <1>6, <1>9, <1>10, <1>11, AskingHere

LEMMA StartRenameStep ==
  ASSUME IInv, NEW c \in Clients, Lone(c), LInv(c), NEW p \in Own[c], NEW q \in Own[c],
         StartRename(c, p, q)
  PROVE  LInv(c)'
<1>0. DOMAIN cl = Clients /\ IsCall(cl[c])
  BY CallFits
<1>1. /\ Idle(c) /\ UNCHANGED life /\ Still /\ "rename" \in Calls
      /\ ~(Exists(p) /\ Exists(q) /\ dir[p] = dir[q])
  BY DEF StartRename, Start, fsvars, ghosts, Still
<1>2. life[c] = "up" /\ FsRight /\ DbIs(dir, {}, c)
  BY <1>1, IdleFacts
<1>3. PICK st, st2 : st = Lstat(p) /\ st2 = Lstat(q)
  OBVIOUS
<1>4. /\ Knows(st, p) /\ Knows(st2, q) /\ st2.ino \in Inodes \cup {NoInode}
      /\ p \in Paths /\ q \in Paths
  BY <1>1, <1>2, <1>3, LonePaths, LstatKnows
<1>5. PICK x, m : x = cl'[c] /\ m = Msg(c, "may_unlink", q, st2)
  OBVIOUS
<1>6. Send(c, m)
  BY <1>3, <1>5 DEF StartRename
<1>7. x.pc = "rename_old" /\ x.p = p /\ x.q = q /\ x.st = st /\ x.st2 = st2
  <2>1. cl' = [cl EXCEPT ![c].pc = "rename_old", ![c].p = p, ![c].q = q, ![c].st = st,
                         ![c].st2 = st2]
    BY <1>3, Zenon DEF StartRename
  <2>2. x = [cl[c] EXCEPT !.pc = "rename_old", !.p = p, !.q = q, !.st = st, !.st2 = st2]
    BY <1>0, <1>5, <2>1, Zenon
  <2>. QED BY <1>0, <2>2, Zenon DEF IsCall
<1>8. m.op = "may_unlink" /\ m.path = q /\ m.ino = st2.ino /\ Knows(m, q)
  BY <1>4, <1>5, MsgFields, MsgKnows
<1>9. RequestRight(x, m)
  BY <1>4, <1>8 DEF RequestRight, Makes
<1>10. CallRight(x, m)
  BY <1>1, <1>4, <1>7, <1>8 DEF CallRight, Renaming
<1>11. Before(x, m, c)
  <2>1. DirBefore(x, m) = dir /\ MarksBefore(x, m) = {}
    BY <1>7, <1>8 DEF DirBefore, MarksBefore, Makes
  <2>. QED BY <1>2, <2>1, Zenon DEF Before
<1>. QED BY <1>1, <1>2, <1>5, <1>6, <1>9, <1>10, <1>11, AskingHere

LEMMA RealLinkStep ==
  ASSUME IInv, NEW c \in Clients, Lone(c), LInv(c), NEW p \in Own[c], NEW q \in Own[c],
         RealLink(c, p, q)
  PROVE  LInv(c)'
<1>0. DOMAIN cl = Clients /\ IsCall(cl[c])
  BY CallFits
<1>1. /\ Idle(c) /\ UNCHANGED << life, chan, db, meta, xmeta >> /\ Exists(p) /\ ~Exists(q)
      /\ dir' = Put(dir, q, dir[p]) /\ kind' = Reclaim(dir', kind, HeldBy(Clients))
  BY DEF RealLink, Start, SetDir, ghosts, Put
<1>2. life[c] = "up" /\ FsRight /\ DbIs(dir, {}, c) /\ chan[c].dir = "none"
  BY <1>1, IdleFacts
<1>3. p \in Paths /\ q \in Paths /\ IsFiniteSet(Paths) /\ p # q /\ dir[q] = NoInode /\ dir \in Dirs
  BY <1>1, <1>2, LonePaths DEF Exists, FsRight
<1>4. dir[p] \in Inodes
  BY <1>1, <1>3 DEF Exists, Dirs
<1>5. dir' \in Dirs /\ dir'[q] = dir[p] /\ dir'[p] = dir[p]
  BY <1>1, <1>3, <1>4, PutDir
<1>6. FsRight'
  <2>1. PICK H : H = HeldBy(Clients)
    OBVIOUS
  <2>2. \A s \in Paths : dir'[s] # NoInode => \E t \in Paths : dir[t] = dir'[s]
    BY <1>1, <1>3, <1>4, PutDir
  <2>3. kind' = Reclaim(dir', kind, H)
    BY <1>1, <2>1, Zenon
  <2>. QED BY <1>1, <1>2, <1>3, <1>5, <2>2, <2>3, Reclaimed
<1>7. PICK x : x = cl'[c]
  OBVIOUS
<1>8. x.pc = "link" /\ x.p = p /\ x.q = q
  <2>1. cl' = [cl EXCEPT ![c].pc = "link", ![c].p = p, ![c].q = q]
    BY Zenon DEF RealLink
  <2>2. x = [cl[c] EXCEPT !.pc = "link", !.p = p, !.q = q]
    BY <1>0, <1>7, <2>1, Zenon
  <2>. QED BY <1>0, <2>2, Zenon DEF IsCall
<1>9. Without(dir', q) = dir
  BY <1>1, <1>3, <1>4, PutWithout
<1>10. DbIs(Without(dir, x.q), {}, c)'
  <2>1. DbIs(dir, {}, c) <=> Exact(db', dir, {}, c, meta', xmeta')
    BY <1>1 DEF DbIs
  <2>. QED BY <1>2, <1>8, <1>9, <2>1, Zenon DEF DbIs
<1>11. StepRight(x, c)'
  BY <1>1, <1>3, <1>5, <1>8, <1>10 DEF StepRight, Making, Exists
<1>. QED BY <1>1, <1>2, <1>6, <1>7, <1>11, RestingNow

LEMMA CloseStep ==
  ASSUME IInv, NEW c \in Clients, Lone(c), LInv(c), Close(c)
  PROVE  LInv(c)'
<1>0. DOMAIN cl = Clients /\ IsCall(cl[c])
  BY CallFits
<1>1. /\ Idle(c) /\ UNCHANGED << life, chan, db, dir, meta, xmeta >>
      /\ kind' = Reclaim(dir, kind, HeldBy(Clients \ {c})) /\ cl' = [cl EXCEPT ![c].fd = NoFd]
  BY DEF Close, ghosts
<1>2. life[c] = "up" /\ FsRight /\ DbIs(dir, {}, c) /\ chan[c].dir = "none" /\ cl[c].pc = "idle"
  BY <1>1, IdleFacts
<1>3. IsFiniteSet(Paths) /\ dir' \in Dirs
  BY <1>1, <1>2 DEF FsRight, Lone
<1>4. FsRight'
  <2>1. PICK H : H = HeldBy(Clients \ {c})
    OBVIOUS
  <2>2. kind' = Reclaim(dir', kind, H)
    BY <1>1, <2>1, Zenon
  <2>. QED BY <1>1, <1>2, <1>3, <2>2, Reclaimed
<1>5. PICK x : x = cl'[c]
  OBVIOUS
<1>6. x.pc = "idle"
  <2>1. x = [cl[c] EXCEPT !.fd = NoFd]
    BY <1>0, <1>1, <1>5, Zenon
  <2>. QED BY <1>0, <1>2, <2>1, Zenon DEF IsCall
<1>7. DbIs(dir, {}, c)'
  BY <1>1, <1>2 DEF DbIs
<1>8. StepRight(x, c)'
  BY <1>6, <1>7 DEF StepRight, Making
<1>. QED BY <1>1, <1>2, <1>4, <1>5, <1>8, RestingNow

-----------------------------------------------------------------------------
(* Steps that stat a file and report it *)

\* the permissions that the program asked for replace the real ones
LEMMA MadeStat ==
  ASSUME IsFiniteSet(Paths), FsRight, NEW p \in Paths, Exists(p), NEW w, NEW s, NEW st,
         s = Lstat(p), st = [s EXCEPT !.mode.perm = w]
  PROVE  Knows(st, p) /\ st.ino \in Inodes
<1>1. IsStat(s) /\ IsMode(s.mode)
  BY LstatFields
<1>2. Knows(s, p) /\ s.ino \in Inodes
  BY LstatKnows
<1>3. st.ino = s.ino /\ st.nlink = s.nlink /\ st.mode = [s.mode EXCEPT !.perm = w]
  BY <1>1 DEF IsStat
<1>4. st.mode.type = s.mode.type /\ IsMode(st.mode)
  BY <1>1, <1>3 DEF IsMode
<1>. QED BY <1>2, <1>3, <1>4, KnowsToo

\* the report of a new file
LEMMA ReportFresh ==
  ASSUME NEW c, NEW p, Fresh(p, c), NEW st, Knows(st, p), st.ino \in Inodes,
         NEW op \in Makes, NEW m, m = Msg(c, op, p, st), NEW x,
         \/ x.pc = "last"
         \/ x.pc = "open_created" /\ op = "creat" /\ x.p = p /\ x.st = st
  PROVE  RequestRight(x, m) /\ CallRight(x, m) /\ Before(x, m, c)
<1>1. m.op = op /\ m.path = p /\ m.ino = st.ino /\ Knows(m, p)
  BY MsgFields, MsgKnows
<1>2. p \in Paths /\ dir[p] = st.ino /\ Sole(p) /\ xmeta[st.ino] = {}
  BY DEF Fresh, Knows
<1>3. RequestRight(x, m)
  BY <1>1, <1>2, NoInodeNot DEF RequestRight, Makes
<1>4. CallRight(x, m)
  BY <1>1 DEF CallRight, Renaming, Makes
<1>5. DirBefore(x, m) = Without(dir, p) /\ MarksBefore(x, m) = {}
  BY <1>1 DEF DirBefore, MarksBefore, Makes
<1>6. DbIs(Without(dir, p), {}, c)
  BY DEF Fresh
<1>7. Before(x, m, c)
  BY <1>5, <1>6, Zenon DEF Before
<1>. QED BY <1>3, <1>4, <1>7

LEMMA OpOpenStep ==
  ASSUME IInv, NEW c \in Clients, LInv(c), life[c] = "up", UNCHANGED life, Still,
         DbIs(dir, {}, c), NEW p \in Paths, NEW st, Knows(st, p), st.ino \in Inodes,
         OpOpen(c, p, st)
  PROVE  LInv(c)'
<1>0. DOMAIN cl = Clients /\ IsCall(cl[c])
  BY CallFits
<1>1. PICK x : x = cl'[c]
  OBVIOUS
<1>2. CASE Logging
  <2>1. PICK m : m = Msg(c, "open", p, st)
    OBVIOUS
  <2>2. Send(c, m) /\ cl' = [cl EXCEPT ![c] = [@ EXCEPT !.fd.path = p, !.pc = "last"]]
    BY <1>2, <2>1 DEF OpOpen
  <2>3. x = [cl[c] EXCEPT !.fd.path = p, !.pc = "last"]
    BY <1>0, <1>1, <2>2
  <2>4. x.pc = "last"
    BY <1>0, <2>3, Zenon DEF IsCall
  <2>5. m.op = "open" /\ m.path = p /\ m.ino = st.ino /\ Knows(m, p)
    BY <2>1, MsgFields, MsgKnows
  <2>6. RequestRight(x, m)
    BY <2>5, NoInodeNot DEF RequestRight, Makes
  <2>7. CallRight(x, m)
    BY <2>4, <2>5 DEF CallRight, Renaming, Asks
  <2>8. DirBefore(x, m) = dir /\ MarksBefore(x, m) = {}
    BY <2>4, <2>5 DEF DirBefore, MarksBefore, Makes
  <2>9. Before(x, m, c)
    BY <2>8, Zenon DEF Before
  <2>. QED BY <1>1, <2>2, <2>6, <2>7, <2>9, AskingHere
<1>3. CASE ~Logging
  <2>1. SendNothing(c) /\ cl' = [cl EXCEPT ![c] = NoCall([@.fd EXCEPT !.path = p])]
    BY <1>3 DEF OpOpen
  <2>2. x = NoCall([cl[c].fd EXCEPT !.path = p])
    BY <1>0, <1>1, <2>1
  <2>3. x.pc = "idle"
    BY <2>2 DEF NoCall
  <2>4. chan'[c].dir = "none"
    BY <2>1 DEF SendNothing, NoMsg, IInv
  <2>. QED BY <1>1, <2>3, <2>4, IdleNow
<1>. QED BY <1>2, <1>3

LEMMA RealOpenStep ==
  ASSUME IInv, NEW c \in Clients, Lone(c), LInv(c), RealOpen(c)
  PROVE  LInv(c)'
<1>0. DOMAIN cl = Clients /\ IsCall(cl[c])
  BY CallFits
<1>1. At(c, "open") /\ UNCHANGED << db, chan, life >>
  BY DEF RealOpen
<1>2. life[c] = "up" /\ cl[c].pc = "open" /\ chan[c].dir = "none" /\ FsRight /\ StepRight(cl[c], c)
  BY <1>1, AtFacts
<1>3. PICK p, x : p = cl[c].p /\ x = cl'[c]
  OBVIOUS
<1>4. DbIs(dir, {}, c) /\ p \in Paths /\ (cl[c].mark <=> Exists(p))
  BY <1>2, <1>3 DEF StepRight
<1>5. ASSUME OpenFails(p), Finish(c), UNCHANGED << fsvars, ghosts >> PROVE LInv(c)'
  <2>1. Still
    BY <1>1, <1>5 DEF Still, fsvars, ghosts
  <2>. QED BY <1>1, <1>2, <1>4, <1>5, <2>1, FinishNow
<1>6. ASSUME NEW i, cl' = [cl EXCEPT ![c].pc = "open_stat", ![c].fd = [NoFd EXCEPT !.ino = i]]
      PROVE  x.pc = "open_stat" /\ x.p = p /\ x.mark = cl[c].mark
  <2>1. PICK f : f = [NoFd EXCEPT !.ino = i]
    OBVIOUS
  <2>2. cl' = [cl EXCEPT ![c].pc = "open_stat", ![c].fd = f]
    BY <1>6, <2>1, Zenon
  <2>3. x = [cl[c] EXCEPT !.pc = "open_stat", !.fd = f]
    BY <1>0, <1>3, <2>2, Zenon
  <2>. QED BY <1>0, <1>3, <2>3, Zenon DEF IsCall
<1>7. ASSUME Exists(p), UNCHANGED << fsvars, ghosts >>,
             cl' = [cl EXCEPT ![c].pc = "open_stat", ![c].fd = [NoFd EXCEPT !.ino = dir[p]]]
      PROVE  LInv(c)'
  <2>1. Still
    BY <1>1, <1>7 DEF Still, fsvars, ghosts
  <2>2. x.pc = "open_stat" /\ x.p = p /\ x.mark = cl[c].mark
    BY <1>6, <1>7
  <2>3. FsRight'
    BY <1>2, <2>1, SameFs DEF Still
  <2>4. DbIs(dir, {}, c)' /\ Exists(p)'
    BY <1>4, <1>7, <2>1 DEF DbIs, Still, Exists
  <2>5. Exists(x.p)' /\ x.mark /\ x.p \in Paths
    BY <1>4, <1>7, <2>2, <2>4, Zenon
  <2>6. StepRight(x, c)'
    BY <2>2, <2>4, <2>5 DEF StepRight, Making
  <2>. QED BY <1>1, <1>2, <1>3, <2>3, <2>6, RestingNow
<1>8. ASSUME NEW i \in Inodes, RealCreate(p, i, "reg"),
             cl' = [cl EXCEPT ![c].pc = "open_stat", ![c].fd = [NoFd EXCEPT !.ino = i]]
      PROVE  LInv(c)'
  <2>1. PICK t : t = "reg"
    OBVIOUS
  <2>2. t # "free" /\ RealCreate(p, i, t)
    BY <1>8, <2>1
  <2>3. FsRight' /\ Fresh(p, c)' /\ dir'[p] = i
    BY <1>1, <1>2, <1>4, <2>2, Created
  <2>4. x.pc = "open_stat" /\ x.p = p /\ x.mark = cl[c].mark
    BY <1>6, <1>8
  <2>5. ~x.mark /\ x.p \in Paths
    BY <1>4, <1>8, <2>4 DEF RealCreate
  <2>6. Fresh(x.p, c)'
    BY <2>3, <2>4, Zenon
  <2>7. Exists(x.p)'
    BY <2>6 DEF Fresh, Exists
  <2>8. StepRight(x, c)'
    BY <2>4, <2>5, <2>6, <2>7 DEF StepRight, Making
  <2>. QED BY <1>1, <1>2, <1>3, <2>3, <2>8, RestingNow
<1>9. \/ OpenFails(p) /\ Finish(c) /\ UNCHANGED << fsvars, ghosts >>
      \/ /\ Exists(p) /\ UNCHANGED << fsvars, ghosts >>
         /\ cl' = [cl EXCEPT ![c].pc = "open_stat", ![c].fd = [NoFd EXCEPT !.ino = dir[p]]]
      \/ \E i \in Inodes :
            /\ RealCreate(p, i, "reg")
            /\ cl' = [cl EXCEPT ![c].pc = "open_stat", ![c].fd = [NoFd EXCEPT !.ino = i]]
  BY <1>3, Zenon DEF RealOpen
<1>. QED BY <1>5, <1>7, <1>8, <1>9, Zenon

LEMMA OpenStatStep ==
  ASSUME IInv, NEW c \in Clients, Lone(c), LInv(c), OpenStat(c)
  PROVE  LInv(c)'
<1>0. DOMAIN cl = Clients /\ IsCall(cl[c])
  BY CallFits
<1>1. At(c, "open_stat") /\ UNCHANGED life /\ Still
  BY DEF OpenStat, fsvars, ghosts, Still
<1>2. /\ life[c] = "up" /\ cl[c].pc = "open_stat" /\ chan[c].dir = "none" /\ FsRight
      /\ StepRight(cl[c], c)
  BY <1>1, AtFacts
<1>3. PICK p, x : p = cl[c].p /\ x = cl'[c]
  OBVIOUS
<1>4. /\ p \in Paths /\ Exists(p) /\ IsFiniteSet(Paths)
      /\ IF cl[c].mark THEN DbIs(dir, {}, c) ELSE Fresh(p, c)
  BY <1>2, <1>3 DEF StepRight, Lone
<1>5. CASE cl[c].mark
  <2>1. PICK st : st = Lstat(p)
    OBVIOUS
  <2>2. OpOpen(c, p, st)
    BY <1>3, <1>5, <2>1 DEF OpenStat
  <2>3. Knows(st, p) /\ st.ino \in Inodes
    BY <1>2, <1>4, <2>1, LstatKnows
  <2>. QED BY <1>1, <1>2, <1>4, <1>5, <2>2, <2>3, OpOpenStep
<1>6. CASE ~cl[c].mark
  <2>1. PICK w : /\ Send(c, Msg(c, "creat", p, [Lstat(p) EXCEPT !.mode.perm = w]))
                 /\ cl' = [cl EXCEPT ![c].pc = "open_created",
                                     ![c].st = [Lstat(p) EXCEPT !.mode.perm = w]]
    BY <1>3, <1>4, <1>6 DEF OpenStat
  <2>2. PICK s : s = Lstat(p)
    OBVIOUS
  <2>3. PICK st : st = [s EXCEPT !.mode.perm = w]
    OBVIOUS
  <2>4. PICK m, op : m = Msg(c, op, p, st) /\ op = "creat"
    OBVIOUS
  <2>5. Send(c, m) /\ cl' = [cl EXCEPT ![c].pc = "open_created", ![c].st = st]
    BY <2>1, <2>2, <2>3, <2>4, Zenon
  <2>6. Knows(st, p) /\ st.ino \in Inodes
    BY <1>2, <1>4, <2>2, <2>3, MadeStat
  <2>7. x.pc = "open_created" /\ x.p = p /\ x.st = st
    <3>1. x = [cl[c] EXCEPT !.pc = "open_created", !.st = st]
      BY <1>0, <1>3, <2>5, Zenon
    <3>. QED BY <1>0, <1>3, <3>1, Zenon DEF IsCall
  <2>8. RequestRight(x, m) /\ CallRight(x, m) /\ Before(x, m, c)
    BY <1>4, <1>6, <2>4, <2>6, <2>7, ReportFresh DEF Makes
  <2>. QED BY <1>1, <1>2, <1>3, <2>5, <2>8, AskingHere
<1>. QED BY <1>5, <1>6

LEMMA OpenCreatedStep ==
  ASSUME IInv, NEW c \in Clients, Lone(c), LInv(c), OpenCreated(c)
  PROVE  LInv(c)'
<1>1. Answered(c, "open_created") /\ UNCHANGED life /\ Still
  BY DEF OpenCreated, fsvars, ghosts, Still
<1>2. PICK x, m : x = cl[c] /\ m = chan[c].request
  OBVIOUS
<1>3. /\ life[c] = "up" /\ x.pc = "open_created" /\ FsRight
      /\ RequestRight(x, m) /\ CallRight(x, m) /\ After(x, m, c)
  BY <1>1, <1>2, AnsweredFacts
<1>4. PICK p, st : p = x.p /\ st = x.st
  OBVIOUS
<1>5. m.op = "creat" /\ m.path = p /\ Knows(st, p)
  BY <1>3, <1>4 DEF CallRight
<1>6. p \in Paths /\ m.ino \in Inodes /\ dir[p] = m.ino
  BY <1>3, <1>5 DEF RequestRight, Knows
<1>7. st.ino \in Inodes
  BY <1>5, <1>6 DEF Knows
<1>8. DbIs(dir, {}, c)
  <2>1. DirAfter(x, m) = dir /\ MarksAfter(x, m) = {}
    BY <1>3 DEF DirAfter, MarksAfter
  <2>. QED BY <1>3, <2>1, Zenon DEF After
<1>9. OpOpen(c, p, st)
  BY <1>2, <1>4 DEF OpenCreated
<1>. QED BY <1>1, <1>3, <1>5, <1>6, <1>7, <1>8, <1>9, OpOpenStep

LEMMA ReportMadeStep ==
  ASSUME IInv, NEW c \in Clients, Lone(c), LInv(c), NEW call \in Making, NEW op \in Makes,
         NEW perms, ReportMade(c, call, op, perms)
  PROVE  LInv(c)'
<1>1. At(c, call) /\ UNCHANGED life /\ Still
  BY DEF ReportMade, fsvars, ghosts, Still
<1>2. life[c] = "up" /\ cl[c].pc = call /\ FsRight /\ StepRight(cl[c], c)
  BY <1>1, AtFacts
<1>3. PICK p, x : p = cl[c].p /\ x = cl'[c]
  OBVIOUS
<1>4. p \in Paths /\ Exists(p) /\ IsFiniteSet(Paths) /\ Fresh(p, c)
  BY <1>2, <1>3 DEF StepRight, Lone, Fresh, Exists
<1>5. Goto(c, "last")
  BY <1>3, <1>4 DEF ReportMade
<1>6. PICK w : Send(c, Msg(c, op, p, [Lstat(p) EXCEPT !.mode.perm = w]))
  BY <1>3, <1>4 DEF ReportMade
<1>7. PICK s : s = Lstat(p)
  OBVIOUS
<1>8. PICK st : st = [s EXCEPT !.mode.perm = w]
  OBVIOUS
<1>9. PICK m : m = Msg(c, op, p, st)
  OBVIOUS
<1>10. Send(c, m)
  BY <1>6, <1>7, <1>8, <1>9, Zenon
<1>11. Knows(st, p) /\ st.ino \in Inodes
  BY <1>2, <1>4, <1>7, <1>8, MadeStat
<1>12. x.pc = "last"
  BY <1>3, <1>5, AssignedOne DEF Goto
<1>13. RequestRight(x, m) /\ CallRight(x, m) /\ Before(x, m, c)
  BY <1>4, <1>9, <1>11, <1>12, ReportFresh
<1>. QED BY <1>1, <1>2, <1>3, <1>10, <1>13, AskingHere

LEMMA MkstempStatStep ==
  ASSUME IInv, NEW c \in Clients, Lone(c), LInv(c), MkstempStat(c)
  PROVE  LInv(c)'
<1>0. DOMAIN cl = Clients /\ IsCall(cl[c])
  BY CallFits
<1>1. At(c, "mkstemp") /\ UNCHANGED life /\ Still
  BY DEF MkstempStat, fsvars, ghosts, Still
<1>2. life[c] = "up" /\ cl[c].pc = "mkstemp" /\ FsRight /\ StepRight(cl[c], c)
  BY <1>1, AtFacts
<1>3. PICK p, x : p = cl[c].p /\ x = cl'[c]
  OBVIOUS
<1>4. p \in Paths /\ Exists(p) /\ IsFiniteSet(Paths) /\ Fresh(p, c) /\ cl[c].fd.ino = dir[p]
  BY <1>2, <1>3 DEF StepRight, Lone, Fresh, Exists, Making
<1>5. PICK st : st = Lstat(p)
  OBVIOUS
<1>6. PICK m, op : m = Msg(c, op, p, st) /\ op = "creat"
  OBVIOUS
<1>7. StatOf(cl[c].fd.ino) = st
  BY <1>4, <1>5 DEF Lstat
<1>8. Send(c, m) /\ cl' = [cl EXCEPT ![c].pc = "open_created", ![c].st = st]
  BY <1>3, <1>6, <1>7, Zenon DEF MkstempStat
<1>9. Knows(st, p) /\ st.ino \in Inodes
  BY <1>2, <1>4, <1>5, LstatKnows
<1>10. x.pc = "open_created" /\ x.p = p /\ x.st = st
  <2>1. x = [cl[c] EXCEPT !.pc = "open_created", !.st = st]
    BY <1>0, <1>3, <1>8, Zenon
  <2>. QED BY <1>0, <1>3, <2>1, Zenon DEF IsCall
<1>11. RequestRight(x, m) /\ CallRight(x, m) /\ Before(x, m, c)
  BY <1>4, <1>6, <1>9, <1>10, ReportFresh DEF Makes
<1>. QED BY <1>1, <1>2, <1>3, <1>8, <1>11, AskingHere

LEMMA LinkStatStep ==
  ASSUME IInv, NEW c \in Clients, Lone(c), LInv(c), LinkStat(c)
  PROVE  LInv(c)'
<1>0. DOMAIN cl = Clients /\ IsCall(cl[c])
  BY CallFits
<1>1. At(c, "link") /\ UNCHANGED life /\ Still
  BY DEF LinkStat, fsvars, ghosts, Still
<1>2. life[c] = "up" /\ cl[c].pc = "link" /\ FsRight /\ StepRight(cl[c], c)
  BY <1>1, AtFacts
<1>3. PICK p, q, x : p = cl[c].p /\ q = cl[c].q /\ x = cl'[c]
  OBVIOUS
<1>4. /\ p \in Paths /\ q \in Paths /\ p # q /\ Exists(p) /\ dir[q] = dir[p]
      /\ IsFiniteSet(Paths) /\ DbIs(Without(dir, q), {}, c)
  BY <1>2, <1>3 DEF StepRight, Lone
<1>5. PICK st, m : st = Lstat(p) /\ m = Msg(c, "stat", p, st)
  OBVIOUS
<1>6. Send(c, m) /\ cl' = [cl EXCEPT ![c].pc = "link_known", ![c].st = st]
  BY <1>3, <1>4, <1>5 DEF LinkStat
<1>7. Knows(st, p) /\ IsStat(st) /\ st.ino \in Inodes
  BY <1>2, <1>4, <1>5, LstatKnows, LstatFields
<1>8. x.pc = "link_known" /\ x.p = p /\ x.q = q /\ x.st = st
  <2>1. x = [cl[c] EXCEPT !.pc = "link_known", !.st = st]
    BY <1>0, <1>3, <1>6, Zenon
  <2>. QED BY <1>0, <1>3, <2>1, Zenon DEF IsCall
<1>9. m.op = "stat" /\ m.path = p /\ m.ino = st.ino /\ Knows(m, p)
  BY <1>5, <1>7, MsgFields, MsgKnows
<1>10. RequestRight(x, m)
  BY <1>4, <1>7, <1>9 DEF RequestRight, Makes
<1>11. dir[q] = m.ino
  BY <1>4, <1>9 DEF Knows
<1>12. CallRight(x, m)
  BY <1>4, <1>7, <1>8, <1>9, <1>11, NoInodeNot DEF CallRight, Renaming
<1>13. DirBefore(x, m) = Without(dir, q) /\ MarksBefore(x, m) = {}
  BY <1>8, <1>9 DEF DirBefore, MarksBefore, Makes
<1>14. Before(x, m, c)
  BY <1>4, <1>13, Zenon DEF Before
<1>. QED BY <1>1, <1>2, <1>3, <1>6, <1>10, <1>12, <1>14, AskingHere

\* the last request of a call is answered
LEMMA LastAnswerStep ==
  ASSUME IInv, NEW c \in Clients, Lone(c), LInv(c), LastAnswer(c)
  PROVE  LInv(c)'
<1>1. Answered(c, "last") /\ UNCHANGED life /\ Still /\ SendNothing(c) /\ Finish(c)
  BY DEF LastAnswer, fsvars, ghosts, Still
<1>2. PICK x, m : x = cl[c] /\ m = chan[c].request
  OBVIOUS
<1>3. life[c] = "up" /\ x.pc = "last" /\ After(x, m, c)
  BY <1>1, <1>2, AnsweredFacts
<1>4. DirAfter(x, m) = dir /\ MarksAfter(x, m) = {}
  BY <1>3 DEF DirAfter, MarksAfter
<1>5. DbIs(dir, {}, c)
  BY <1>3, <1>4, Zenon DEF After
<1>. QED BY <1>1, <1>3, <1>5, FinishNow

-----------------------------------------------------------------------------
(* Steps that follow an answer *)

\* marks on paths that are not there say nothing
LEMMA Unmark ==
  ASSUME NEW c, NEW M, NEW N, DbIs(dir, M, c),
         \A p \in Paths : dir[p] # NoInode => (p \in M <=> p \in N)
  PROVE  DbIs(dir, N, c)
<1>1. PICK D, mt, xm : D = dir /\ mt = meta /\ xm = xmeta
  OBVIOUS
<1>2. Exact(db, D, M, c, mt, xm) /\ \A p \in Paths : D[p] # NoInode => (p \in M <=> p \in N)
  BY <1>1 DEF DbIs
<1>3. Exact(db, D, N, c, mt, xm)
  BY <1>2, ExactSame
<1>. QED BY <1>1, <1>3, Zenon DEF DbIs

\* what an unlink or rmdir knows when MAY_UNLINK is answered
LEMMA RemoveFacts ==
  ASSUME IInv, NEW c \in Clients, LInv(c), NEW call \in {"unlink", "rmdir"}, Answered(c, call)
  PROVE  /\ life[c] = "up" /\ FsRight /\ Succeeded(c) /\ cl[c].p \in Paths
         /\ Knows(cl[c].st, cl[c].p) /\ cl[c].st.ino \in Inodes /\ DbIs(dir, {cl[c].p}, c)
<1>1. PICK x, m, a : x = cl[c] /\ m = chan[c].request /\ a = chan[c].msg
  OBVIOUS
<1>2. /\ life[c] = "up" /\ x.pc = call /\ FsRight
      /\ RequestRight(x, m) /\ CallRight(x, m) /\ After(x, m, c) /\ AnswerRight(m, a)
  BY <1>1, AnsweredFacts
<1>3. m.op = "may_unlink" /\ m.path = x.p /\ Knows(x.st, x.p) /\ m.ino # NoInode
  BY <1>2 DEF CallRight
<1>4. x.p \in Paths /\ m.ino \in Inodes /\ Knows(m, x.p)
  BY <1>2, <1>3 DEF RequestRight
<1>5. x.st.ino \in Inodes
  BY <1>3, <1>4 DEF Knows
<1>6. Succeeded(c)
  BY <1>1, <1>2, <1>3 DEF AnswerRight, Succeeded
<1>7. DirAfter(x, m) = dir /\ MarksAfter(x, m) = {x.p}
  BY <1>2 DEF DirAfter, MarksAfter
<1>8. DbIs(dir, {x.p}, c)
  BY <1>2, <1>7, Zenon DEF After
<1>. QED BY <1>1, <1>2, <1>3, <1>4, <1>5, <1>6, <1>8, Zenon

LEMMA RemoveStep ==
  ASSUME IInv, NEW c \in Clients, Lone(c), LInv(c), NEW call \in {"unlink", "rmdir"},
         Answered(c, call), NEW ok, Remove(c, ok)
  PROVE  LInv(c)'
<1>0. DOMAIN cl = Clients /\ IsCall(cl[c])
  BY CallFits
<1>1. PICK p, st, x : p = cl[c].p /\ st = cl[c].st /\ x = cl'[c]
  OBVIOUS
<1>2. /\ life[c] = "up" /\ FsRight /\ Succeeded(c) /\ p \in Paths
      /\ Knows(st, p) /\ st.ino \in Inodes /\ DbIs(dir, {p}, c)
  BY <1>1, RemoveFacts
<1>3. /\ UNCHANGED << life, db, meta, xmeta >> /\ IsFiniteSet(Paths) /\ dir \in Dirs
      /\ dir[p] = st.ino
  BY <1>2 DEF Remove, SetDir, ghosts, Lone, FsRight, Knows
<1>4. x.pc = "last" /\ x.p = p
  <2>1. PICK f : cl' = [cl EXCEPT ![c].pc = "last", ![c].fd = f]
    <3>1. cl' = [cl EXCEPT ![c].pc = "last",
                           ![c].fd = IF ok THEN Unlinked(cl[c].fd, cl[c].p) ELSE cl[c].fd]
      BY <1>2, Zenon DEF Remove
    <3>. QED BY <3>1, Zenon
  <2>2. x = [cl[c] EXCEPT !.pc = "last", !.fd = f]
    BY <1>0, <1>1, <2>1, Zenon
  <2>. QED BY <1>0, <1>1, <2>2, Zenon DEF IsCall
<1>5. PICK H : H = HeldBy(Clients)
  OBVIOUS
<1>6. CASE ok
  <2>1. PICK m : m = Msg(c, "did_unlink", p, st)
    OBVIOUS
  <2>2. Send(c, m) /\ dir' = Without(dir, p) /\ kind' = Reclaim(dir', kind, H)
    BY <1>1, <1>2, <1>5, <1>6, <2>1 DEF Remove, SetDir, Without, Put
  <2>3. dir' \in Dirs /\ dir'[p] = NoInode /\ \A q \in Paths : q # p => dir'[q] = dir[q]
    BY <1>2, <1>3, <2>2, WithoutDir
  <2>4. FsRight'
    <3>1. \A q \in Paths : dir'[q] # NoInode => \E s \in Paths : dir[s] = dir'[q]
      BY <2>3
    <3>. QED BY <1>2, <1>3, <2>2, <2>3, <3>1, Reclaimed
  <2>5. m.op = "did_unlink" /\ m.path = p /\ m.ino = st.ino
    BY <2>1, MsgFields
  <2>6. RequestRight(x, m)'
    BY <1>2, <1>4, <2>5, NoInodeNot DEF RequestRight, Makes
  <2>7. CallRight(x, m)'
    BY <1>4, <2>3, <2>5 DEF CallRight, Renaming
  <2>8. Put(dir', p, st.ino) = dir
    BY <1>2, <1>3, <2>2, PutWithout
  <2>9. DirBefore(x, m)' = Put(dir', p, st.ino) /\ MarksBefore(x, m)' = {p}
    BY <1>4, <2>5 DEF DirBefore, MarksBefore, Makes
  <2>10. Exact(db', dir, {p}, c, meta', xmeta')
    BY <1>2, <1>3 DEF DbIs
  <2>11. Before(x, m, c)'
    BY <2>8, <2>9, <2>10, Zenon DEF Before, DbIs
  <2>. QED BY <1>1, <1>2, <1>3, <2>2, <2>4, <2>6, <2>7, <2>11, AskingNow
<1>7. CASE ~ok
  <2>1. PICK m : m = Msg(c, "cancel_unlink", p, st)
    OBVIOUS
  <2>2. Send(c, m) /\ dir' = dir /\ kind' = Reclaim(dir', kind, H)
    BY <1>1, <1>2, <1>5, <1>7, <2>1 DEF Remove, SetDir
  <2>3. /\ FsRight'
        /\ \A q \in Paths : dir'[q] # NoInode => kind'[dir'[q]] = kind[dir'[q]]
    BY <1>2, <1>3, <2>2, Reclaimed
  <2>4. m.op = "cancel_unlink" /\ m.path = p /\ m.ino = st.ino /\ Knows(m, p)
    BY <1>2, <2>1, MsgFields, MsgKnows
  <2>5. Knows(m, p)'
    BY <1>2, <2>2, <2>3, <2>4, ReclaimedKnows
  <2>6. RequestRight(x, m)'
    BY <1>2, <1>4, <2>4, <2>5, NoInodeNot DEF RequestRight, Makes
  <2>7. CallRight(x, m)'
    BY <1>4, <2>4 DEF CallRight, Renaming
  <2>8. DirBefore(x, m)' = dir' /\ MarksBefore(x, m)' = {p}
    BY <1>4, <2>4 DEF DirBefore, MarksBefore, Makes
  <2>9. Exact(db', dir', {p}, c, meta', xmeta')
    BY <1>2, <1>3, <2>2 DEF DbIs
  <2>10. Before(x, m, c)'
    BY <2>8, <2>9, Zenon DEF Before, DbIs
  <2>. QED BY <1>1, <1>2, <1>3, <2>2, <2>3, <2>6, <2>7, <2>10, AskingNow
<1>. QED BY <1>6, <1>7

\* what STAT told the call replaces the real owner and mode
LEMMA MergedStat ==
  ASSUME IInv, NEW c \in Clients, LInv(c), NEW x, x = cl[c], NEW m, m = chan[c].request,
         NEW call \in {"link_known", "chown"}, Answered(c, call),
         NEW st, Succeeded(c) => st = Merged(x.st, chan[c].msg)
  PROVE  /\ life[c] = "up" /\ FsRight /\ x.pc = call /\ CallRight(x, m) /\ After(x, m, c)
         /\ x.p \in Paths /\ m.ino \in Inodes /\ IsStat(st) /\ Knows(st, x.p)
         /\ st.ino = m.ino /\ meta[m.ino] = Tracked(st.uid, st.mode)
<1>1. PICK a : a = chan[c].msg
  OBVIOUS
<1>2. /\ life[c] = "up" /\ x.pc = call /\ FsRight
      /\ RequestRight(x, m) /\ CallRight(x, m) /\ After(x, m, c) /\ AnswerRight(m, a)
  BY <1>1, AnsweredFacts
<1>3. m.op = "stat" /\ m.path = x.p /\ m.ino # NoInode /\ Knows(x.st, x.p) /\ IsStat(x.st)
  BY <1>2 DEF CallRight
<1>4. x.p \in Paths /\ m.ino \in Inodes /\ dir[x.p] = m.ino
  BY <1>2, <1>3 DEF RequestRight, Knows
<1>5. Succeeded(c) /\ meta[m.ino] = Tracked(a.uid, a.mode)
  BY <1>1, <1>2, <1>3 DEF AnswerRight, Succeeded
<1>6. st = Merged(x.st, a)
  BY <1>1, <1>5
<1>7. IsStat(st) /\ st.ino = x.st.ino /\ st.nlink = x.st.nlink /\ st.uid = a.uid /\ st.mode = a.mode
  BY <1>3, <1>6 DEF Merged, IsStat
<1>8. IsMode(a.mode) /\ Alike(a.mode, kind[m.ino])
  <2>1. MetaRight(m.ino) /\ kind[m.ino] # "free"
    BY <1>2, <1>3, <1>4 DEF FsRight
  <2>2. meta[m.ino].tracked /\ meta[m.ino].mode = a.mode
    BY <1>5, TrackedFields DEF Tracked
  <2>3. meta[m.ino] # Untracked
    BY <2>2 DEF Untracked
  <2>. QED BY <2>1, <2>2, <2>3 DEF MetaRight
<1>9. Knows(st, x.p)
  BY <1>3, <1>4, <1>7, <1>8 DEF Knows
<1>10. st.ino = m.ino /\ meta[m.ino] = Tracked(st.uid, st.mode)
  BY <1>3, <1>4, <1>5, <1>7 DEF Knows
<1>. QED BY <1>2, <1>4, <1>7, <1>9, <1>10

LEMMA LinkKnownStep ==
  ASSUME IInv, NEW c \in Clients, Lone(c), LInv(c), LinkKnown(c)
  PROVE  LInv(c)'
<1>0. DOMAIN cl = Clients /\ IsCall(cl[c])
  BY CallFits
<1>1. PICK call, me, m, x : call = "link_known" /\ me = cl[c] /\ m = chan[c].request /\ x = cl'[c]
  OBVIOUS
<1>2. PICK st : st = IF Succeeded(c) THEN Merged(me.st, chan[c].msg) ELSE me.st
  OBVIOUS
<1>3. Answered(c, call) /\ UNCHANGED life /\ Still
  BY <1>1 DEF LinkKnown, fsvars, ghosts, Still
<1>4. /\ life[c] = "up" /\ FsRight /\ me.pc = call /\ CallRight(me, m) /\ After(me, m, c)
      /\ me.p \in Paths /\ m.ino \in Inodes /\ IsStat(st) /\ Knows(st, me.p)
      /\ st.ino = m.ino /\ meta[m.ino] = Tracked(st.uid, st.mode)
  <2>1. call \in {"link_known", "chown"}
    BY <1>1
  <2>2. Succeeded(c) => st = Merged(me.st, chan[c].msg)
    BY <1>2
  <2>. QED BY <1>1, <1>3, <2>1, <2>2, MergedStat
<1>5. PICK p, q : p = me.p /\ q = me.q
  OBVIOUS
<1>6. p \in Paths /\ q \in Paths /\ p # q /\ dir[q] = m.ino /\ dir[p] = m.ino
  BY <1>1, <1>4, <1>5 DEF CallRight, Knows
<1>7. PICK n : n = Msg(c, "link", q, st)
  OBVIOUS
<1>8. Send(c, n)
  BY <1>1, <1>2, <1>5, <1>7, Zenon DEF LinkKnown
<1>9. x.pc = "last"
  <2>1. PICK v : cl' = [cl EXCEPT ![c].pc = "last", ![c].fd.linked = v]
    <3>1. cl' = [cl EXCEPT ![c].pc = "last",
                 ![c].fd.linked = IF cl[c].fd.path = cl[c].p THEN cl[c].q ELSE cl[c].fd.linked]
      BY Zenon DEF LinkKnown
    <3>. QED BY <3>1, Zenon
  <2>2. x = [cl[c] EXCEPT !.pc = "last", !.fd.linked = v]
    BY <1>0, <1>1, <2>1, Zenon
  <2>. QED BY <1>0, <2>2, Zenon DEF IsCall
<1>10. /\ n.op = "link" /\ n.path = q /\ n.ino = m.ino /\ n.mode = st.mode
       /\ n.nlink = st.nlink
  BY <1>4, <1>7, MsgFields
<1>11. Knows(n, q)
  <2>1. IsMode(st.mode) /\ Alike(st.mode, kind[m.ino])
    BY <1>4, NoInodeNot DEF Knows
  <2>2. n.nlink # 1
    BY <1>4, <1>5, <1>6, <1>10, NoInodeNot DEF Knows, Sole
  <2>. QED BY <1>6, <1>10, <2>1, <2>2 DEF Knows
<1>12. RequestRight(x, n)
  BY <1>4, <1>6, <1>10, <1>11, NoInodeNot DEF RequestRight, Makes
<1>13. CallRight(x, n)
  BY <1>9, <1>10 DEF CallRight, Renaming
<1>14. DirAfter(me, m) = Without(dir, q) /\ MarksAfter(me, m) = {}
  BY <1>1, <1>4, <1>5 DEF DirAfter, MarksAfter
<1>15. DirBefore(x, n) = Without(dir, q) /\ MarksBefore(x, n) = {}
  BY <1>9, <1>10 DEF DirBefore, MarksBefore, Makes
<1>16. Before(x, n, c)
  BY <1>4, <1>14, <1>15, Zenon DEF Before, After
<1>. QED BY <1>1, <1>3, <1>4, <1>8, <1>12, <1>13, <1>16, AskingHere

LEMMA ChownKnownStep ==
  ASSUME IInv, NEW c \in Clients, Lone(c), LInv(c), ChownKnown(c)
  PROVE  LInv(c)'
<1>1. PICK call, me, m, x : call = "chown" /\ me = cl[c] /\ m = chan[c].request /\ x = cl'[c]
  OBVIOUS
<1>2. PICK st : st = IF Succeeded(c) THEN Merged(me.st, chan[c].msg) ELSE me.st
  OBVIOUS
<1>3. Answered(c, call) /\ UNCHANGED life /\ Still /\ Goto(c, "last")
  <2>1. Answered(c, "fchown") => CallRight(cl[c], m) /\ cl[c].pc = "fchown"
    BY <1>1, AnsweredFacts
  <2>2. ~Answered(c, "fchown")
    BY <2>1 DEF CallRight, Renaming
  <2>. QED BY <1>1, <2>2 DEF ChownKnown, fsvars, ghosts, Still
<1>4. /\ life[c] = "up" /\ FsRight /\ me.pc = call /\ CallRight(me, m) /\ After(me, m, c)
      /\ me.p \in Paths /\ m.ino \in Inodes /\ IsStat(st) /\ Knows(st, me.p)
      /\ st.ino = m.ino /\ meta[m.ino] = Tracked(st.uid, st.mode)
  <2>1. call \in {"link_known", "chown"}
    BY <1>1
  <2>2. Succeeded(c) => st = Merged(me.st, chan[c].msg)
    BY <1>2
  <2>. QED BY <1>1, <1>3, <2>1, <2>2, MergedStat
<1>5. PICK p, a, n : p = me.p /\ a = me.args /\ n = ChownMsg(c, "chown", p, st, a)
  OBVIOUS
<1>6. Send(c, n)
  <2>1. cl[c].pc = "chown"
    BY <1>1, <1>4
  <2>. QED BY <1>1, <1>2, <1>5, <2>1, Zenon DEF ChownKnown
<1>7. x.pc = "last"
  BY <1>1, <1>3, AssignedOne DEF Goto
<1>8. /\ n.op = "chown" /\ n.path = p /\ n.ino = st.ino /\ n.nlink = st.nlink
      /\ n.mode = st.mode /\ n.uid = Overridden(st.uid, a) /\ n.args = a
  <2>1. PICK s, v : s = [st EXCEPT !.uid = v] /\ v = Overridden(st.uid, a)
    OBVIOUS
  <2>2. PICK k : k = Msg(c, "chown", p, s)
    OBVIOUS
  <2>3. n = [k EXCEPT !.args = a]
    BY <1>5, <2>1, <2>2 DEF ChownMsg
  <2>4. s.ino = st.ino /\ s.nlink = st.nlink /\ s.mode = st.mode /\ s.uid = v
    BY <1>4, <2>1 DEF IsStat
  <2>5. /\ n.op = "chown" /\ n.path = p /\ n.ino = s.ino /\ n.nlink = s.nlink
        /\ n.mode = s.mode /\ n.uid = s.uid /\ n.args = a
    BY <2>2, <2>3 DEF Msg, UsesFuid
  <2>. QED BY <2>1, <2>4, <2>5
<1>9. meta[n.ino].uid = st.uid
  BY <1>4, <1>8, TrackedFields
<1>10. p \in Paths /\ n.ino \in Inodes /\ Knows(n, p)
  BY <1>4, <1>5, <1>8 DEF Knows
<1>11. RequestRight(x, n)
  BY <1>8, <1>9, <1>10, NoInodeNot DEF RequestRight, Makes
<1>12. CallRight(x, n)
  BY <1>7, <1>8 DEF CallRight, Renaming, Asks
<1>13. DirAfter(me, m) = dir /\ MarksAfter(me, m) = {}
  BY <1>1, <1>4 DEF DirAfter, MarksAfter
<1>14. DirBefore(x, n) = dir /\ MarksBefore(x, n) = {}
  BY <1>7, <1>8 DEF DirBefore, MarksBefore, Makes
<1>15. Before(x, n, c)
  BY <1>4, <1>13, <1>14, Zenon DEF Before, After
<1>. QED BY <1>1, <1>3, <1>4, <1>6, <1>11, <1>12, <1>15, AskingHere

\* calls by descriptor are not made
LEMMA NoFdRequests ==
  ASSUME NEW c, Lone(c), OneFdRequest(c) \/ StartFchown(c)
  PROVE  FALSE
<1>1. CASE OneFdRequest(c)
  <2>1. PICK r, p, st : r \in FdRequests(c, p, st) /\ Start(c, r[1])
    BY <1>1 DEF OneFdRequest
  <2>2. r[1] \in {"fstat", "fchown", "fchmod"}
    <3>1. \E op, m : r = << op, m >> /\ op \in {"fstat", "fchown", "fchmod"}
      BY <2>1, Zenon DEF FdRequests, FstatRequests, FchownRequests, FchmodRequests
    <3>. QED BY <3>1
  <2>. QED BY <2>1, <2>2, StartFacts DEF Lone, FdCalls
<1>2. CASE StartFchown(c)
  BY <1>2 DEF StartFchown, Start, Lone, FdCalls
<1>. QED BY <1>1, <1>2

-----------------------------------------------------------------------------
(* rename *)

\* what a rename knows when one of its requests is answered
LEMMA RenameFacts ==
  ASSUME IInv, NEW c \in Clients, LInv(c), NEW x, x = cl[c], NEW m, m = chan[c].request,
         NEW pc \in Renaming, Answered(c, pc)
  PROVE  /\ life[c] = "up" /\ FsRight /\ x.pc = pc /\ "rename" \in Calls
         /\ x.p \in Paths /\ x.q \in Paths /\ Knows(x.st2, x.q)
         /\ pc # "rename_cancel" \/ Exists(x.p) => Knows(x.st, x.p)
         /\ Exists(x.p) /\ Exists(x.q) => dir[x.p] # dir[x.q]
         /\ RequestRight(x, m) /\ CallRight(x, m) /\ DbIs(dir, MarksAfter(x, m), c)
         /\ AnswerRight(m, chan[c].msg)
<1>1. /\ life[c] = "up" /\ x.pc = pc /\ FsRight /\ AnswerRight(m, chan[c].msg)
      /\ RequestRight(x, m) /\ CallRight(x, m) /\ After(x, m, c)
  BY AnsweredFacts
<1>2. DirAfter(x, m) = dir
  BY <1>1 DEF DirAfter, Renaming
<1>3. DbIs(dir, MarksAfter(x, m), c)
  BY <1>1, <1>2, Zenon DEF After
<1>. QED BY <1>1, <1>3 DEF CallRight

LEMMA RenameMarkOldStep ==
  ASSUME IInv, NEW c \in Clients, Lone(c), LInv(c), RenameMarkOld(c)
  PROVE  LInv(c)'
<1>0. DOMAIN cl = Clients /\ IsCall(cl[c])
  BY CallFits
<1>1. PICK pc, me, m, x : pc = "rename_old" /\ me = cl[c] /\ m = chan[c].request /\ x = cl'[c]
  OBVIOUS
<1>2. Answered(c, pc) /\ UNCHANGED life /\ Still
  BY <1>1 DEF RenameMarkOld, fsvars, ghosts, Still
<1>3. /\ life[c] = "up" /\ FsRight /\ me.pc = pc /\ "rename" \in Calls
      /\ me.p \in Paths /\ me.q \in Paths /\ Knows(me.st2, me.q) /\ Knows(me.st, me.p)
      /\ Exists(me.p) /\ Exists(me.q) => dir[me.p] # dir[me.q]
      /\ RequestRight(me, m) /\ CallRight(me, m) /\ DbIs(dir, MarksAfter(me, m), c)
      /\ AnswerRight(m, chan[c].msg)
  BY <1>1, <1>2, RenameFacts DEF Renaming
<1>4. PICK p, q, st, v : p = me.p /\ q = me.q /\ st = me.st /\ v = Succeeded(c)
  OBVIOUS
<1>5. v <=> Exists(q)
  <2>1. m.op = "may_unlink" /\ m.path = q /\ Knows(m, q)
    BY <1>1, <1>3, <1>4 DEF CallRight, RequestRight
  <2>. QED BY <1>3, <1>4, <2>1 DEF AnswerRight, Succeeded, Knows, Exists
<1>6. PICK n : n = Msg(c, "may_unlink", p, st)
  OBVIOUS
<1>7. Send(c, n) /\ cl' = [cl EXCEPT ![c].pc = "rename_stat", ![c].mark2 = v]
  BY <1>1, <1>4, <1>6, Zenon DEF RenameMarkOld
<1>8. /\ x.pc = "rename_stat" /\ x.p = p /\ x.q = q /\ x.st = st /\ x.st2 = me.st2
      /\ x.mark2 = v
  <2>1. x = [cl[c] EXCEPT !.pc = "rename_stat", !.mark2 = v]
    BY <1>0, <1>1, <1>7, Zenon
  <2>. QED BY <1>0, <1>1, <1>4, <2>1, Zenon DEF IsCall
<1>9. n.op = "may_unlink" /\ n.path = p /\ n.ino = st.ino /\ Knows(n, p)
  BY <1>3, <1>4, <1>6, MsgFields, MsgKnows
<1>10. st.ino \in Inodes \cup {NoInode}
  BY <1>3, <1>4 DEF Knows, FsRight, Dirs
<1>11. RequestRight(x, n)
  BY <1>3, <1>4, <1>9, <1>10 DEF RequestRight, Makes
<1>12. CallRight(x, n)
  BY <1>3, <1>4, <1>5, <1>8, <1>9 DEF CallRight, Renaming
<1>13. MarksAfter(me, m) = {q}
  BY <1>1, <1>3, <1>4 DEF MarksAfter
<1>14. DirBefore(x, n) = dir /\ MarksBefore(x, n) = {q}
  BY <1>8, <1>9 DEF DirBefore, MarksBefore, Makes
<1>15. Before(x, n, c)
  BY <1>3, <1>13, <1>14, Zenon DEF Before
<1>. QED BY <1>1, <1>2, <1>3, <1>7, <1>11, <1>12, <1>15, AskingHere

LEMMA RenameStatStep ==
  ASSUME IInv, NEW c \in Clients, Lone(c), LInv(c), RenameStat(c)
  PROVE  LInv(c)'
<1>0. DOMAIN cl = Clients /\ IsCall(cl[c])
  BY CallFits
<1>1. PICK pc, me, m, x : pc = "rename_stat" /\ me = cl[c] /\ m = chan[c].request /\ x = cl'[c]
  OBVIOUS
<1>2. Answered(c, pc) /\ UNCHANGED life /\ Still
  BY <1>1 DEF RenameStat, fsvars, ghosts, Still
<1>3. /\ life[c] = "up" /\ FsRight /\ me.pc = pc /\ "rename" \in Calls
      /\ me.p \in Paths /\ me.q \in Paths /\ Knows(me.st2, me.q) /\ Knows(me.st, me.p)
      /\ Exists(me.p) /\ Exists(me.q) => dir[me.p] # dir[me.q]
      /\ RequestRight(me, m) /\ CallRight(me, m) /\ DbIs(dir, MarksAfter(me, m), c)
      /\ AnswerRight(m, chan[c].msg)
  BY <1>1, <1>2, RenameFacts DEF Renaming
<1>4. PICK p, q, st, v : p = me.p /\ q = me.q /\ st = me.st /\ v = Succeeded(c)
  OBVIOUS
<1>5. (v <=> Exists(p)) /\ (me.mark2 <=> Exists(q))
  <2>1. m.op = "may_unlink" /\ m.path = p /\ Knows(m, p) /\ (me.mark2 <=> Exists(q))
    BY <1>1, <1>3, <1>4 DEF CallRight, RequestRight
  <2>. QED BY <1>3, <1>4, <2>1 DEF AnswerRight, Succeeded, Knows, Exists
<1>6. PICK n : n = Msg(c, "stat", p, st)
  OBVIOUS
<1>7. Send(c, n) /\ cl' = [cl EXCEPT ![c].pc = "rename_real", ![c].mark = v]
  BY <1>1, <1>4, <1>6, Zenon DEF RenameStat
<1>8. /\ x.pc = "rename_real" /\ x.p = p /\ x.q = q /\ x.st = st /\ x.st2 = me.st2
      /\ x.mark = v /\ x.mark2 = me.mark2
  <2>1. x = [cl[c] EXCEPT !.pc = "rename_real", !.mark = v]
    BY <1>0, <1>1, <1>7, Zenon
  <2>. QED BY <1>0, <1>1, <1>4, <2>1, Zenon DEF IsCall
<1>9. n.op = "stat" /\ n.path = p /\ n.ino = st.ino /\ Knows(n, p)
  BY <1>3, <1>4, <1>6, MsgFields, MsgKnows
<1>10. st.ino \in Inodes \cup {NoInode}
  BY <1>3, <1>4 DEF Knows, FsRight, Dirs
<1>11. RequestRight(x, n)
  BY <1>3, <1>4, <1>9, <1>10 DEF RequestRight, Makes
<1>12. CallRight(x, n)
  BY <1>3, <1>4, <1>5, <1>8, <1>9 DEF CallRight, Renaming
<1>13. MarksAfter(me, m) = {p, q}
  BY <1>1, <1>3, <1>4 DEF MarksAfter
<1>14. DirBefore(x, n) = dir /\ MarksBefore(x, n) = {p, q}
  BY <1>8, <1>9 DEF DirBefore, MarksBefore, Makes
<1>15. Before(x, n, c)
  BY <1>3, <1>13, <1>14, Zenon DEF Before
<1>. QED BY <1>1, <1>2, <1>3, <1>7, <1>11, <1>12, <1>15, AskingHere

\* CANCEL_UNLINK of a path that is still there ends the call
LEMMA CancelLast ==
  ASSUME IInv, NEW c \in Clients, LInv(c), life[c] = "up", UNCHANGED life, Still,
         NEW p \in Paths, Exists(p), NEW st, Knows(st, p), DbIs(dir, {p}, c),
         NEW n, n = Msg(c, "cancel_unlink", p, st), Send(c, n), NEW x, x = cl'[c], x.pc = "last"
  PROVE  LInv(c)'
<1>1. n.op = "cancel_unlink" /\ n.path = p /\ n.ino = st.ino /\ Knows(n, p)
  BY MsgFields, MsgKnows
<1>2. n.ino \in Inodes
  BY <1>1 DEF Knows, LInv, FsRight, Dirs, Exists
<1>3. RequestRight(x, n)
  BY <1>1, <1>2, NoInodeNot DEF RequestRight, Makes
<1>4. CallRight(x, n)
  BY <1>1 DEF CallRight, Renaming
<1>5. DirBefore(x, n) = dir /\ MarksBefore(x, n) = {p}
  BY <1>1 DEF DirBefore, MarksBefore, Makes
<1>6. Before(x, n, c)
  BY <1>5, Zenon DEF Before
<1>. QED BY <1>3, <1>4, <1>6, AskingHere

LEMMA RenameCancelOldStep ==
  ASSUME IInv, NEW c \in Clients, Lone(c), LInv(c), RenameCancelOld(c)
  PROVE  LInv(c)'
<1>1. PICK pc, me, m, x : pc = "rename_cancel" /\ me = cl[c] /\ m = chan[c].request /\ x = cl'[c]
  OBVIOUS
<1>2. Answered(c, pc) /\ UNCHANGED life /\ Still
  BY <1>1 DEF RenameCancelOld, fsvars, ghosts, Still
<1>3. /\ life[c] = "up" /\ FsRight /\ me.pc = pc /\ me.p \in Paths
      /\ Exists(me.p) => Knows(me.st, me.p)
      /\ CallRight(me, m) /\ DbIs(dir, MarksAfter(me, m), c)
  BY <1>1, <1>2, RenameFacts DEF Renaming
<1>4. PICK p, st : p = me.p /\ st = me.st
  OBVIOUS
<1>5. MarksAfter(me, m) = {p}
  BY <1>1, <1>3, <1>4 DEF MarksAfter
<1>6. DbIs(dir, {p}, c)
  BY <1>3, <1>5, Zenon
<1>7. me.mark <=> Exists(p)
  BY <1>1, <1>3, <1>4 DEF CallRight
<1>8. CASE Exists(p)
  <2>1. PICK n : n = Msg(c, "cancel_unlink", p, st)
    OBVIOUS
  <2>2. Send(c, n) /\ Goto(c, "last")
    BY <1>1, <1>4, <1>7, <1>8, <2>1 DEF RenameCancelOld
  <2>3. x.pc = "last"
    BY <1>1, <2>2, AssignedOne DEF Goto
  <2>. QED BY <1>1, <1>2, <1>3, <1>4, <1>6, <1>8, <2>1, <2>2, <2>3, CancelLast
<1>9. CASE ~Exists(p)
  <2>1. SendNothing(c) /\ Finish(c)
    BY <1>1, <1>7, <1>9 DEF RenameCancelOld
  <2>2. PICK M, N : M = {p} /\ N = {}
    OBVIOUS
  <2>3. \A q \in Paths : dir[q] # NoInode => (q \in M <=> q \in N)
    BY <1>9, <2>2 DEF Exists
  <2>4. DbIs(dir, M, c)
    BY <1>6, <2>2, Zenon
  <2>5. DbIs(dir, N, c)
    BY <2>3, <2>4, Unmark
  <2>6. DbIs(dir, {}, c)
    BY <2>2, <2>5, Zenon
  <2>. QED BY <1>2, <1>3, <2>1, <2>6, FinishNow
<1>. QED BY <1>8, <1>9

\* the file is at q; RENAME tells the server so
LEMMA SendRenameStep ==
  ASSUME IInv, NEW c \in Clients, LInv(c), life[c] = "up", UNCHANGED life, "rename" \in Calls,
         NEW me, IsCall(me), IsFd(me.fd), NEW p \in Paths, p = me.p, NEW q \in Paths, q = me.q,
         p # q, NEW st, FsRight', dir'[p] = NoInode, dir'[q] # NoInode, Knows(st, q)',
         DbIs(Without(Put(dir, p, st.ino), q), {p}, c)', SendRename(c, me, st)
  PROVE  LInv(c)'
<1>1. PICK k : k = Msg(c, "rename", q, st)
  OBVIOUS
<1>2. PICK n : n = [k EXCEPT !.oldpath = p] /\ Send(c, n)
  BY <1>1, Zenon DEF SendRename
<1>3. /\ n.op = "rename" /\ n.path = q /\ n.oldpath = p /\ n.ino = st.ino
      /\ n.mode = st.mode /\ n.nlink = st.nlink
  BY <1>1, <1>2 DEF Msg
<1>4. PICK x : x = cl'[c]
  OBVIOUS
<1>5. x.pc = "last"
  <2>1. me.fd = [ino |-> me.fd.ino, path |-> me.fd.path, linked |-> me.fd.linked]
    BY DEF IsFd
  <2>2. PICK u, v : cl' = [cl EXCEPT ![c] = [me EXCEPT !.pc = "last", !.fd.path = u,
                                                                      !.fd.linked = v]]
    <3>1. cl' = [cl EXCEPT ![c] = [me EXCEPT !.pc = "last",
                !.fd.path = IF me.fd.path = me.p THEN me.q ELSE me.fd.path,
                !.fd.linked = IF me.fd.linked = me.p THEN me.q ELSE me.fd.linked]]
      BY <2>1, Zenon DEF SendRename, IsCall
    <3>. QED BY <3>1, Zenon
  <2>3. DOMAIN cl = Clients
    BY CallFits
  <2>4. x = [me EXCEPT !.pc = "last", !.fd.path = u, !.fd.linked = v]
    BY <1>4, <2>2, <2>3, Zenon
  <2>. QED BY <2>4, Zenon DEF IsCall
<1>6. n.ino \in Inodes /\ dir'[q] = n.ino
  BY <1>3 DEF Knows, FsRight, Dirs
<1>7. Knows(n, q)'
  BY <1>3 DEF Knows
<1>8. RequestRight(x, n)'
  BY <1>3, <1>6, <1>7, NoInodeNot DEF RequestRight, Makes
<1>9. CallRight(x, n)'
  BY <1>3, <1>5 DEF CallRight, Renaming
<1>10. DirBefore(x, n)' = Without(Put(dir, p, st.ino), q)' /\ MarksBefore(x, n)' = {p}
  BY <1>3, <1>5 DEF DirBefore, MarksBefore, Makes
<1>11. Before(x, n, c)'
  BY <1>10, Zenon DEF Before
<1>. QED BY <1>2, <1>4, <1>8, <1>9, <1>11, AskingNow

LEMMA RenameDidStep ==
  ASSUME IInv, NEW c \in Clients, Lone(c), LInv(c), RenameDid(c)
  PROVE  LInv(c)'
<1>1. PICK me, m : me = cl[c] /\ m = chan[c].request
  OBVIOUS
<1>2. Answered(c, "rename_did") /\ UNCHANGED life /\ Still
  BY DEF RenameDid, fsvars, ghosts, Still
<1>3. life[c] = "up" /\ me.pc = "rename_did" /\ FsRight /\ CallRight(me, m) /\ After(me, m, c)
  BY <1>1, <1>2, AnsweredFacts
<1>4. PICK p, q, st : p = me.p /\ q = me.q /\ st = me.st
  OBVIOUS
<1>5. /\ "rename" \in Calls /\ me.mark = TRUE /\ p \in Paths /\ q \in Paths /\ p # q
      /\ dir[p] = NoInode /\ dir[q] # NoInode /\ Knows(st, q)
  BY <1>3, <1>4 DEF CallRight, Exists
<1>6. SendRename(c, me, st)
  BY <1>1, <1>4, <1>5 DEF RenameDid, SendLinkOrRename
<1>7. IsCall(me) /\ IsFd(me.fd)
  BY <1>1, CallFields
<1>8. DbIs(Without(Put(dir, p, st.ino), q), {p}, c)'
  <2>1. DirAfter(me, m) = Without(Put(dir, p, st.ino), q) /\ MarksAfter(me, m) = {p}
    BY <1>3, <1>4 DEF DirAfter, MarksAfter
  <2>2. DbIs(Without(Put(dir, p, st.ino), q), {p}, c)
    BY <1>3, <2>1, Zenon DEF After
  <2>. QED BY <1>2, <2>2 DEF DbIs, Still
<1>9. FsRight' /\ dir'[p] = NoInode /\ dir'[q] # NoInode /\ Knows(st, q)'
  BY <1>2, <1>3, <1>5, SameFs, SameKnows DEF Still
<1>. QED BY <1>2, <1>3, <1>4, <1>5, <1>6, <1>7, <1>8, <1>9, SendRenameStep

LEMMA RenameLinkedStep ==
  ASSUME IInv, NEW c \in Clients, LInv(c), RenameLinked(c)
  PROVE  FALSE
<1>1. PICK me, m : me = cl[c] /\ m = chan[c].request
  OBVIOUS
<1>2. me.pc = "rename_link" /\ CallRight(me, m)
  BY <1>1, AnsweredFacts DEF RenameLinked
<1>. QED BY <1>2 DEF CallRight, Renaming


\* where no path contains another, rename() moves one name
LEMMA MovedFlat ==
  ASSUME \A s \in Paths : Len(s) = 1, dir \in Dirs, NEW p \in Paths, NEW q \in Paths, p # q,
         Exists(p), NEW D, D = MovedDir(p, q)
  PROVE  /\ D \in Dirs /\ D[p] = NoInode /\ D[q] = dir[p]
         /\ \A r \in Paths : r # p /\ r # q => D[r] = dir[r]
<1>1. \A s, r \in Paths : ~IsUnder(s, r)
  BY DEF IsUnder
<1>2. \A s \in Paths : Moved(s, p, q) = IF s = p THEN q ELSE s
  BY <1>1 DEF Moved
<1>. DEFINE At0(r, s) == Exists(s) /\ (s = p \/ IsUnder(s, p)) /\ Moved(s, p, q) = r
<1>3. \A r, s \in Paths : At0(r, s) <=> s = p /\ r = q
  BY <1>1, <1>2
<1>4. D = [r \in Paths |->
             IF \E s \in Paths : At0(r, s) THEN dir[CHOOSE s \in Paths : At0(r, s)]
             ELSE IF r = p \/ IsUnder(r, p) \/ r = q THEN NoInode ELSE dir[r]]
  BY Zenon DEF MovedDir
<1>. HIDE DEF At0
<1>5. D[q] = dir[p]
  <2>1. At0(q, p)
    BY <1>3
  <2>2. PICK s0 : s0 = CHOOSE s \in Paths : At0(q, s)
    OBVIOUS
  <2>3. s0 \in Paths /\ At0(q, s0)
    BY <2>1, <2>2, Zenon
  <2>4. s0 = p
    BY <1>3, <2>3
  <2>5. D[q] = dir[CHOOSE s \in Paths : At0(q, s)]
    BY <1>4, <2>1
  <2>. QED BY <2>2, <2>4, <2>5
<1>6. ASSUME NEW r \in Paths, r # q PROVE D[r] = IF r = p THEN NoInode ELSE dir[r]
  BY <1>1, <1>3, <1>4, <1>6
<1>7. DOMAIN D = Paths /\ D = [r \in Paths |-> D[r]]
  BY <1>4
<1>8. \A r \in Paths : D[r] \in Inodes \cup {NoInode}
  BY <1>5, <1>6 DEF Dirs
<1>9. D \in Dirs
  BY <1>7, <1>8 DEF Dirs
<1>. QED BY <1>5, <1>6, <1>9

\* after the real rename: the buffer of the old name knows the new one
LEMMA RenamedFs ==
  ASSUME IsFiniteSet(Paths), FsRight, NEW p \in Paths, NEW q \in Paths, p # q, dir[p] # NoInode,
         dir[q] # NoInode => dir[q] # dir[p],
         dir' \in Dirs, dir'[p] = NoInode, dir'[q] = dir[p],
         \A r \in Paths : r # p /\ r # q => dir'[r] = dir[r],
         NEW H, kind' = Reclaim(dir', kind, H), UNCHANGED << meta, xmeta >>,
         NEW st, Knows(st, p)
  PROVE  /\ FsRight' /\ Knows(st, q)'
         /\ Put(Put(dir', p, st.ino), q, dir[q]) = dir
<1>1. \A r \in Paths : dir'[r] # NoInode => \E s \in Paths : dir[s] = dir'[r]
  OBVIOUS
<1>2. /\ FsRight' /\ \A r \in Paths : dir'[r] # NoInode => kind'[dir'[r]] = kind[dir'[r]]
  BY <1>1, Reclaimed
<1>3. st.ino = dir[p] /\ kind'[st.ino] = kind[st.ino]
  BY <1>2 DEF Knows
<1>4. Sole(p) => Sole(q)'
  BY DEF Sole
<1>5. Knows(st, q)'
  BY <1>3, <1>4 DEF Knows
<1>6. PICK E : E = Put(Put(dir', p, st.ino), q, dir[q])
  OBVIOUS
<1>7. dir \in Dirs /\ E \in Dirs /\ \A r \in Paths : E[r] = dir[r]
  <2>1. dir \in Dirs
    BY DEF FsRight
  <2>. QED BY <1>3, <1>6, <2>1 DEF Put, Dirs
<1>8. E = dir
  BY <1>7, SameDir
<1>. QED BY <1>2, <1>5, <1>6, <1>8

\* the real rename of p to q, and the request that follows it
Renamed(c, me) ==
    /\ SetDir(MovedDir(me.p, me.q))
    /\ IF me.mark2
       THEN /\ Send(c, Msg(c, "did_unlink", me.q, me.st2))
            /\ cl' = [cl EXCEPT ![c] = [me EXCEPT !.pc = "rename_did", !.mark = Succeeded(c),
                                                  !.fd = Unlinked(me.fd, me.q)]]
       ELSE SendLinkOrRename(c, me, Succeeded(c))

NotRenamed(c, me) ==
    /\ UNCHANGED << fsvars, ghosts >>
    /\ IF me.mark2
       THEN /\ Send(c, Msg(c, "cancel_unlink", me.q, me.st2))
            /\ cl' = [cl EXCEPT ![c] = [me EXCEPT !.pc = "rename_cancel"]]
       ELSE IF me.mark
       THEN /\ Send(c, Msg(c, "cancel_unlink", me.p, me.st))
            /\ cl' = [cl EXCEPT ![c] = [me EXCEPT !.pc = "last"]]
       ELSE SendNothing(c) /\ Finish(c)

\* me is the call when the real rename is made; it has the buffers it needs
ReadyToRename(c, me) ==
    /\ life[c] = "up" /\ FsRight /\ "rename" \in Calls /\ IsCall(me) /\ IsFd(me.fd)
    /\ me.p \in Paths /\ me.q \in Paths /\ IsFiniteSet(Paths) /\ \A s \in Paths : Len(s) = 1
    /\ Exists(me.p) => Knows(me.st, me.p)
    /\ Exists(me.q) => Knows(me.st2, me.q)
    /\ Exists(me.p) /\ Exists(me.q) => dir[me.p] # dir[me.q]
    /\ me.mark <=> Exists(me.p)
    /\ me.mark2 <=> Exists(me.q)
    /\ Succeeded(c) <=> Exists(me.p)
    /\ DbIs(dir, {me.p, me.q}, c)

LEMMA RenamedStep ==
  ASSUME IInv, NEW c \in Clients, LInv(c), NEW me, ReadyToRename(c, me), Exists(me.p),
         UNCHANGED << db, life >>, Renamed(c, me)
  PROVE  LInv(c)'
<1>1. PICK p, q, st, st2, H : /\ p = me.p /\ q = me.q /\ st = me.st /\ st2 = me.st2
                              /\ H = HeldBy(Clients)
  OBVIOUS
<1>2. /\ p \in Paths /\ q \in Paths /\ IsFiniteSet(Paths) /\ FsRight /\ dir \in Dirs
      /\ dir[p] # NoInode /\ Knows(st, p) /\ (dir[q] # NoInode => Knows(st2, q))
      /\ (dir[q] # NoInode => dir[q] # dir[p]) /\ Exists(p) /\ (me.mark2 <=> dir[q] # NoInode)
      /\ life[c] = "up" /\ "rename" \in Calls /\ IsCall(me) /\ IsFd(me.fd) /\ Succeeded(c)
      /\ \A s \in Paths : Len(s) = 1
  BY <1>1 DEF ReadyToRename, Exists, FsRight
<1>3. p # q
  BY <1>2
<1>4. dir' = MovedDir(p, q) /\ kind' = Reclaim(dir', kind, H) /\ UNCHANGED << meta, xmeta >>
  BY <1>1, Zenon DEF Renamed, SetDir, ghosts
<1>5. /\ dir' \in Dirs /\ dir'[p] = NoInode /\ dir'[q] = dir[p]
      /\ \A r \in Paths : r # p /\ r # q => dir'[r] = dir[r]
  BY <1>2, <1>3, <1>4, MovedFlat
<1>6. FsRight' /\ Knows(st, q)' /\ Put(Put(dir', p, st.ino), q, dir[q]) = dir
  BY <1>2, <1>3, <1>4, <1>5, RenamedFs
<1>7. DbIs(dir, {p, q}, c)
  BY <1>1 DEF ReadyToRename
<1>8. CASE me.mark2
  <2>1. PICK m : m = Msg(c, "did_unlink", q, st2)
    OBVIOUS
  <2>2. PICK x : x = [me EXCEPT !.pc = "rename_did", !.mark = Succeeded(c),
                                !.fd = Unlinked(me.fd, me.q)]
    OBVIOUS
  <2>3. Send(c, m) /\ cl' = [cl EXCEPT ![c] = x]
    BY <1>1, <1>8, <2>1, <2>2, Zenon DEF Renamed
  <2>4. x = cl'[c]
    BY <2>3, CallFits
  <2>5. x.pc = "rename_did" /\ x.p = p /\ x.q = q /\ x.st = st /\ x.mark = Succeeded(c)
    BY <1>1, <1>2, <2>2, Zenon DEF IsCall
  <2>6. x.mark = TRUE
    BY <1>2, <2>5 DEF Succeeded
  <2>7. m.op = "did_unlink" /\ m.path = q /\ m.ino = st2.ino
    BY <2>1, MsgFields
  <2>8. st2.ino = dir[q] /\ dir[q] \in Inodes
    BY <1>2, <1>8 DEF Knows, Dirs
  <2>9. RequestRight(x, m)'
    BY <1>2, <2>5, <2>7, <2>8, NoInodeNot DEF RequestRight, Makes
  <2>10. CallRight(x, m)'
    BY <1>2, <1>3, <1>5, <1>6, <2>5, <2>6, <2>7 DEF CallRight, Renaming, Exists
  <2>11. DirBefore(x, m)' = Put(Put(dir', p, st.ino), q, dir[q]) /\ MarksBefore(x, m)' = {p, q}
    BY <2>5, <2>7, <2>8 DEF DirBefore, MarksBefore, Makes
  <2>12. Exact(db', dir, {p, q}, c, meta', xmeta')
    BY <1>4, <1>7 DEF DbIs
  <2>13. Before(x, m, c)'
    BY <1>6, <2>11, <2>12, Zenon DEF Before, DbIs
  <2>. QED BY <1>2, <1>6, <2>3, <2>4, <2>9, <2>10, <2>13, AskingNow
<1>9. CASE ~me.mark2
  <2>1. SendRename(c, me, st)
    BY <1>1, <1>2, <1>9 DEF Renamed, SendLinkOrRename
  <2>2. dir[q] = NoInode
    BY <1>2, <1>9
  <2>3. Without(Put(dir', p, st.ino), q) = dir
    BY <1>6, <2>2, Zenon DEF Without
  <2>4. PICK M, N : M = {p, q} /\ N = {p}
    OBVIOUS
  <2>5. \A r \in Paths : dir[r] # NoInode => (r \in M <=> r \in N)
    BY <2>2, <2>4
  <2>6. DbIs(dir, M, c)
    BY <1>7, <2>4, Zenon
  <2>7. DbIs(dir, N, c)
    BY <2>5, <2>6, Unmark
  <2>8. Exact(db', dir, {p}, c, meta', xmeta')
    BY <1>4, <2>4, <2>7 DEF DbIs
  <2>9. DbIs(Without(Put(dir, p, st.ino), q), {p}, c)'
    BY <2>3, <2>8, Zenon DEF DbIs
  <2>. QED BY <1>1, <1>2, <1>3, <1>5, <1>6, <2>1, <2>9, SendRenameStep
<1>. QED BY <1>8, <1>9

LEMMA NotRenamedStep ==
  ASSUME IInv, NEW c \in Clients, LInv(c), NEW me, ReadyToRename(c, me),
         UNCHANGED << db, life >>, NotRenamed(c, me)
  PROVE  LInv(c)'
<1>1. PICK p, q, st, st2 : p = me.p /\ q = me.q /\ st = me.st /\ st2 = me.st2
  OBVIOUS
<1>2. /\ p \in Paths /\ q \in Paths /\ FsRight /\ life[c] = "up" /\ "rename" \in Calls
      /\ IsCall(me) /\ (Exists(p) => Knows(st, p)) /\ (Exists(q) => Knows(st2, q))
      /\ (Exists(p) /\ Exists(q) => dir[p] # dir[q]) /\ DbIs(dir, {p, q}, c)
      /\ (me.mark <=> Exists(p)) /\ (me.mark2 <=> Exists(q))
  BY <1>1 DEF ReadyToRename
<1>3. Still
  BY DEF NotRenamed, fsvars, ghosts, Still
<1>4. DOMAIN cl = Clients
  BY CallFits
<1>5. CASE Exists(q)
  <2>1. PICK m, x : /\ m = Msg(c, "cancel_unlink", q, st2)
                    /\ x = [me EXCEPT !.pc = "rename_cancel"]
    OBVIOUS
  <2>2. Send(c, m) /\ cl' = [cl EXCEPT ![c] = x]
    BY <1>1, <1>2, <1>5, <2>1, Zenon DEF NotRenamed
  <2>3. x = cl'[c]
    BY <1>4, <2>2
  <2>4. /\ x.pc = "rename_cancel" /\ x.p = p /\ x.q = q /\ x.st = st /\ x.st2 = st2
        /\ x.mark = me.mark
    <3>1. x = [me EXCEPT !.pc = "rename_cancel"]
      BY <2>1
    <3>. QED BY <1>1, <1>2, <3>1, Zenon DEF IsCall
  <2>5. m.op = "cancel_unlink" /\ m.path = q /\ m.ino = st2.ino /\ Knows(m, q)
    BY <1>2, <1>5, <2>1, MsgFields, MsgKnows
  <2>6. m.ino \in Inodes
    BY <1>2, <1>5, <2>5 DEF Knows, FsRight, Dirs, Exists
  <2>7. RequestRight(x, m)
    BY <1>2, <2>5, <2>6, NoInodeNot DEF RequestRight, Makes
  <2>8. CallRight(x, m)
    BY <1>2, <1>5, <2>4, <2>5 DEF CallRight, Renaming
  <2>9. DirBefore(x, m) = dir /\ MarksBefore(x, m) = {p, q}
    BY <2>4, <2>5 DEF DirBefore, MarksBefore, Makes
  <2>10. Before(x, m, c)
    BY <1>2, <2>9, Zenon DEF Before
  <2>. QED BY <1>2, <1>3, <2>2, <2>3, <2>7, <2>8, <2>10, AskingHere
<1>6. ASSUME ~Exists(q), NEW N, N = IF Exists(p) THEN {p} ELSE {} PROVE DbIs(dir, N, c)
  <2>1. PICK M : M = {p, q}
    OBVIOUS
  <2>2. DbIs(dir, M, c)
    BY <1>2, <2>1, Zenon
  <2>3. \A r \in Paths : dir[r] # NoInode => (r \in M <=> r \in N)
    BY <1>6, <2>1 DEF Exists
  <2>. QED BY <2>2, <2>3, Unmark
<1>7. CASE ~Exists(q) /\ Exists(p)
  <2>1. PICK m, x : m = Msg(c, "cancel_unlink", p, st) /\ x = [me EXCEPT !.pc = "last"]
    OBVIOUS
  <2>2. Send(c, m) /\ cl' = [cl EXCEPT ![c] = x]
    BY <1>1, <1>2, <1>7, <2>1, Zenon DEF NotRenamed
  <2>3. x = cl'[c]
    BY <1>4, <2>2
  <2>4. x.pc = "last"
    <3>1. x = [me EXCEPT !.pc = "last"]
      BY <2>1
    <3>. QED BY <1>2, <3>1, Zenon DEF IsCall
  <2>5. DbIs(dir, {p}, c)
    BY <1>6, <1>7
  <2>. QED BY <1>2, <1>3, <1>7, <2>1, <2>2, <2>3, <2>4, <2>5, CancelLast
<1>8. CASE ~Exists(q) /\ ~Exists(p)
  <2>1. SendNothing(c) /\ Finish(c)
    BY <1>2, <1>8 DEF NotRenamed
  <2>2. DbIs(dir, {}, c)
    BY <1>6, <1>8
  <2>. QED BY <1>2, <1>3, <2>1, <2>2, FinishNow
<1>. QED BY <1>5, <1>7, <1>8

LEMMA RealRenameStep ==
  ASSUME IInv, NEW c \in Clients, Lone(c), LInv(c), RealRename(c)
  PROVE  LInv(c)'
<1>1. PICK pc, x, m : pc = "rename_real" /\ x = cl[c] /\ m = chan[c].request
  OBVIOUS
<1>2. Answered(c, pc) /\ UNCHANGED << db, life >>
  BY <1>1 DEF RealRename
<1>3. /\ life[c] = "up" /\ FsRight /\ x.pc = pc /\ "rename" \in Calls
      /\ x.p \in Paths /\ x.q \in Paths /\ Knows(x.st2, x.q) /\ Knows(x.st, x.p)
      /\ Exists(x.p) /\ Exists(x.q) => dir[x.p] # dir[x.q]
      /\ RequestRight(x, m) /\ CallRight(x, m) /\ DbIs(dir, MarksAfter(x, m), c)
      /\ AnswerRight(m, chan[c].msg)
  BY <1>1, <1>2, RenameFacts DEF Renaming
<1>4. /\ IsCall(x) /\ IsFd(x.fd)
  BY <1>1, CallFields
<1>5. PICK st, st2, me :
        /\ st \in Buffers(x.st) /\ st2 \in Buffers(x.st2)
        /\ me = [x EXCEPT !.st = st, !.st2 = st2]
        /\ \/ RenameOk(me.p, me.q) /\ Renamed(c, me)
           \/ ~RenameOk(me.p, me.q) /\ NotRenamed(c, me)
  <2>1. PICK st \in Buffers(cl[c].st), st2 \in Buffers(cl[c].st2) :
          LET me == [cl[c] EXCEPT !.st = st, !.st2 = st2]
              known == Succeeded(c)
              Cancel(p, buf, pc0) ==
                 /\ Send(c, Msg(c, "cancel_unlink", p, buf))
                 /\ cl' = [cl EXCEPT ![c] = [me EXCEPT !.pc = pc0]]
          IN  \/ /\ RenameOk(me.p, me.q)
                 /\ SetDir(MovedDir(me.p, me.q))
                 /\ IF me.mark2
                    THEN /\ Send(c, Msg(c, "did_unlink", me.q, st2))
                         /\ cl' = [cl EXCEPT ![c] =
                               [me EXCEPT !.pc = "rename_did", !.mark = known,
                                          !.fd = Unlinked(@, me.q)]]
                    ELSE SendLinkOrRename(c, me, known)
              \/ /\ ~RenameOk(me.p, me.q)
                 /\ UNCHANGED << fsvars, ghosts >>
                 /\ IF me.mark2 THEN Cancel(me.q, st2, "rename_cancel")
                    ELSE IF me.mark THEN Cancel(me.p, st, "last")
                    ELSE SendNothing(c) /\ Finish(c)
    BY Zenon DEF RealRename
  <2>2. PICK me : me = [x EXCEPT !.st = st, !.st2 = st2]
    OBVIOUS
  <2>3. me.st = st /\ me.st2 = st2 /\ IsCall(me)
    BY <1>4, <2>2, Zenon DEF IsCall
  <2>4. \/ RenameOk(me.p, me.q) /\ Renamed(c, me)
        \/ ~RenameOk(me.p, me.q) /\ NotRenamed(c, me)
    BY <1>1, <2>1, <2>2, <2>3, Zenon DEF Renamed, NotRenamed
  <2>. QED BY <1>1, <2>1, <2>2, <2>4, Zenon
<1>6. /\ me.p = x.p /\ me.q = x.q /\ me.mark = x.mark /\ me.mark2 = x.mark2 /\ me.fd = x.fd
      /\ me.st = st /\ me.st2 = st2 /\ IsCall(me)
  <2>1. me = [x EXCEPT !.st = st, !.st2 = st2]
    BY <1>5
  <2>. QED BY <1>4, <2>1, Zenon DEF IsCall
<1>7. (Exists(x.p) => st = x.st) /\ (Exists(x.q) => st2 = x.st2)
  <2>1. NoStat.ino = NoInode
    BY DEF NoStat
  <2>2. (Exists(x.p) => x.st # NoStat) /\ (Exists(x.q) => x.st2 # NoStat)
    BY <1>3, <2>1 DEF Knows, Exists
  <2>. QED BY <1>5, <2>2 DEF Buffers
<1>8. Succeeded(c) <=> Exists(x.p)
  <2>1. m.op = "stat" /\ m.path = x.p /\ Knows(m, x.p)
    BY <1>1, <1>3 DEF CallRight, RequestRight
  <2>. QED BY <1>3, <2>1 DEF AnswerRight, Succeeded, Knows, Exists
<1>9. (x.mark <=> Exists(x.p)) /\ (x.mark2 <=> Exists(x.q))
  BY <1>1, <1>3 DEF CallRight
<1>10. DbIs(dir, {x.p, x.q}, c)
  <2>1. MarksAfter(x, m) = {x.p, x.q}
    BY <1>1, <1>3 DEF MarksAfter
  <2>. QED BY <1>3, <2>1, Zenon
<1>11. IsFiniteSet(Paths) /\ \A s \in Paths : Len(s) = 1
  BY <1>3 DEF Lone
<1>12. ReadyToRename(c, me)
  <2>1. /\ Exists(me.p) => Knows(me.st, me.p)
        /\ Exists(me.q) => Knows(me.st2, me.q)
        /\ Exists(me.p) /\ Exists(me.q) => dir[me.p] # dir[me.q]
    BY <1>3, <1>6, <1>7
  <2>2. /\ me.mark <=> Exists(me.p)
        /\ me.mark2 <=> Exists(me.q)
        /\ Succeeded(c) <=> Exists(me.p)
        /\ DbIs(dir, {me.p, me.q}, c)
    BY <1>6, <1>8, <1>9, <1>10, Zenon
  <2>3. me.p \in Paths /\ me.q \in Paths /\ IsFd(me.fd) /\ IsCall(me)
    BY <1>3, <1>4, <1>6
  <2>. QED BY <1>3, <1>11, <2>1, <2>2, <2>3 DEF ReadyToRename
<1>13. RenameOk(me.p, me.q) => Exists(me.p)
  BY DEF RenameOk
<1>. QED BY <1>2, <1>5, <1>12, <1>13, RenamedStep, NotRenamedStep, Zenon

-----------------------------------------------------------------------------
(* The invariant is inductive, and the database is exact *)

LEMMA LoneInit ==
  ASSUME Init, NEW c \in Clients, Lone(c)
  PROVE  LInv(c)
<1>1. dir \in Dirs /\ \A p \in Paths : dir[p] = NoInode
  <2>1. PICK f : dir = [p \in Paths |-> IF p \in InitialFiles THEN f[p] ELSE NoInode]
    BY DEF Init
  <2>. QED BY <2>1 DEF Lone, Dirs
<1>2. DOMAIN kind = Inodes /\ DOMAIN meta = Inodes /\ DOMAIN xmeta = Inodes
  BY DEF Init
<1>3. FsRight
  BY <1>1, <1>2 DEF FsRight, MetaRight, Init
<1>4. PICK x : x = cl[c]
  OBVIOUS
<1>5. x.pc = "idle" /\ chan[c].dir = "none" /\ life[c] = "up"
  BY <1>4 DEF Init, NoCall, NoMsg
<1>6. IsDB(db) /\ db.files = {} /\ db.xattrs = {}
  BY DEF Init, EmptyDB, IsDB
<1>7. Numbered({})
  BY DEF Numbered
<1>8. DbIs(dir, {}, c)
  BY <1>1, <1>6, <1>7 DEF DbIs, Exact, FilesExact, XattrsExact
<1>9. StepRight(x, c)
  BY <1>5, <1>8 DEF StepRight, Making
<1>. QED BY <1>3, <1>4, <1>5, <1>9 DEF LInv, ConnectionRight

LEMMA LoneStep ==
  ASSUME IInv, NEW c \in Clients, Lone(c), LInv(c), ClientStep(c)
  PROVE  LInv(c)'
<1>1. ASSUME NEW p \in Own[c],
             \/ StartUnlink(c, p) \/ StartRmdir(c, p) \/ StartOpen(c, p)
             \/ RealMkdir(c, p) \/ RealSymlink(c, p) \/ RealMkdtemp(c, p)
             \/ RealMkfifo(c, p) \/ RealMkstemp(c, p)
             \/ RealMknod(c, p) \/ OneRequest(c, p) \/ StartChown(c, p)
      PROVE  LInv(c)'
  <2>1. CASE StartUnlink(c, p) \/ StartRmdir(c, p)
    BY <2>1, MarkFirstStep DEF StartUnlink, StartRmdir
  <2>2. CASE \/ RealMkdir(c, p) \/ RealSymlink(c, p) \/ RealMkdtemp(c, p) \/ RealMkfifo(c, p)
    BY <2>2, RealMakeStep DEF RealMkdir, RealSymlink, RealMkdtemp, RealMkfifo
  <2>. QED BY <1>1, <2>1, <2>2, StartOpenStep, RealMkstempStep, RealMknodStep, OneRequestStep,
              StartChownStep
<1>2. ASSUME NEW p \in Own[c], NEW q \in Own[c], RealLink(c, p, q) \/ StartRename(c, p, q)
      PROVE  LInv(c)'
  BY <1>2, RealLinkStep, StartRenameStep
<1>3. CASE RealUnlink(c) \/ RealRmdir(c)
  BY <1>3, RemoveStep DEF RealUnlink, RealRmdir
<1>4. CASE MkdirStat(c) \/ SymlinkStat(c) \/ MkdtempStat(c) \/ MkfifoStat(c)
  <2>1. /\ {"mkdir", "symlink", "mkdtemp", "mkfifo"} \subseteq Making
        /\ {"mkdir", "symlink", "creat", "mknod"} \subseteq Makes
    BY DEF Making, Makes
  <2>. QED BY <1>4, <2>1, ReportMadeStep DEF MkdirStat, SymlinkStat, MkdtempStat, MkfifoStat
<1>5. CASE \/ LastAnswer(c) \/ RealOpen(c) \/ OpenStat(c) \/ OpenCreated(c) \/ Close(c)
           \/ MkstempStat(c) \/ LinkStat(c) \/ LinkKnown(c)
           \/ OneFdRequest(c) \/ StartFchown(c) \/ ChownKnown(c)
  BY <1>5, LastAnswerStep, RealOpenStep, OpenStatStep, OpenCreatedStep, CloseStep,
     MkstempStatStep, LinkStatStep, LinkKnownStep, NoFdRequests, ChownKnownStep
<1>6. CASE \/ RenameMarkOld(c) \/ RenameStat(c) \/ RealRename(c)
           \/ RenameCancelOld(c) \/ RenameDid(c) \/ RenameLinked(c)
  BY <1>6, RenameMarkOldStep, RenameStatStep, RealRenameStep, RenameCancelOldStep, RenameDidStep,
     RenameLinkedStep
<1>. QED BY <1>1, <1>2, <1>3, <1>4, <1>5, <1>6, Zenon DEF ClientStep

LoneInv == \E c \in Clients : Lone(c) /\ LInv(c)

\* The database of a lone process is exact throughout: at every step of every
\* call it describes the directory that the requests served so far describe,
\* with the owners, modes and attributes that those requests gave the files,
\* and the marks of the call in progress.  Every property below follows.
THEOREM LoneInvariant ==
  ASSUME LoneClient
  PROVE  Spec => []LoneInv
<1>1. PICK c : Lone(c)
  BY DEF LoneClient
<1>2. c \in Clients /\ \A k \in Clients : k = c
  BY <1>1 DEF Lone
<1>3. Init => LoneInv
  BY <1>1, <1>2, LoneInit DEF LoneInv
<1>4. IInv /\ LoneInv /\ [Next]_vars => LoneInv'
  <2>. SUFFICES ASSUME IInv, LoneInv, [Next]_vars PROVE LoneInv'
    OBVIOUS
  <2>1. LInv(c)
    BY <1>2 DEF LoneInv
  <2>2. CASE AtRest \/ UNCHANGED vars
    <3>1. LInv(c)'
      BY <1>2, <2>1, <2>2, StutterStep DEF AtRest
    <3>. QED BY <1>1, <1>2, <3>1 DEF LoneInv
  <2>3. CASE ClientStep(c) \/ Serve(c) \/ LoseAnswer(c) \/ Abort(c) \/ Crash(c)
    <3>1. LInv(c)'
      BY <1>1, <1>2, <2>1, <2>3, LoneStep, ServeStep, LoseAnswerStep, AbortStep, CrashStep
    <3>. QED BY <1>1, <1>2, <3>1 DEF LoneInv
  <2>. QED BY <1>2, <2>2, <2>3 DEF Next
<1>. QED BY <1>3, <1>4, Invariant, PTL DEF Spec

\* between two calls the database is that of the directory, without marks
LEMMA SettledExact ==
  ASSUME IInv, NEW c \in Clients, Lone(c), LInv(c), NEW p \in Paths, Settled(p)
  PROVE  /\ FsRight /\ FilesExact(db.files, dir, {}, c, meta) /\ XattrsExact(db.xattrs, dir, xmeta)
<1>1. Idle(c)
  BY DEF Settled, Lone
<1>2. FsRight /\ DbIs(dir, {}, c)
  BY <1>1, IdleFacts
<1>. QED BY <1>2 DEF DbIs, Exact

LEMMA ExactNoStaleRow ==
  ASSUME IInv, LoneInv
  PROVE  NoStaleRow
<1>1. PICK c \in Clients : Lone(c) /\ LInv(c)
  BY DEF LoneInv
<1>2. SUFFICES ASSUME NEW r \in db.files, r.path \in Paths, Settled(r.path)
               PROVE  dir[r.path] = r.ino /\ r.deleting = Nobody
  BY DEF NoStaleRow
<1>3. FilesExact(db.files, dir, {}, c, meta)
  BY <1>1, <1>2, SettledExact
<1>4. RowRight(r, dir, {}, c, meta) /\ r.path \notin {}
  BY <1>2, <1>3 DEF FilesExact
<1>. QED BY <1>4 DEF RowRight

LEMMA ExactMetaKept ==
  ASSUME IInv, LoneInv
  PROVE  MetaKept
<1>1. PICK c \in Clients : Lone(c) /\ LInv(c)
  BY DEF LoneInv
<1>2. SUFFICES ASSUME NEW p \in Paths, Settled(p), Exists(p), meta[dir[p]].tracked
               PROVE  \E r \in db.files :
                         /\ r.path = p /\ r.ino = dir[p]
                         /\ r.uid = meta[dir[p]].uid /\ r.mode = meta[dir[p]].mode
  BY DEF MetaKept
<1>3. FilesExact(db.files, dir, {}, c, meta)
  BY <1>1, <1>2, SettledExact
<1>4. PICK r \in db.files : r.path = p
  BY <1>2, <1>3 DEF FilesExact, Exists
<1>5. RowRight(r, dir, {}, c, meta)
  BY <1>3, <1>4 DEF FilesExact
<1>6. r.ino = dir[p] /\ meta[r.ino] = Tracked(r.uid, r.mode)
  BY <1>4, <1>5 DEF RowRight
<1>7. meta[dir[p]].uid = r.uid /\ meta[dir[p]].mode = r.mode
  BY <1>6, TrackedFields
<1>. QED BY <1>4, <1>6, <1>7

LEMMA ExactXattrsKept ==
  ASSUME IInv, LoneInv
  PROVE  XattrsKept
<1>1. PICK c \in Clients : Lone(c) /\ LInv(c)
  BY DEF LoneInv
<1>2. SUFFICES ASSUME NEW p \in Paths, Settled(p), Exists(p)
               PROVE  Pairs(db.xattrs, dir[p]) = xmeta[dir[p]]
  BY Zenon DEF XattrsKept, Pairs
<1>3. XattrsExact(db.xattrs, dir, xmeta)
  BY <1>1, <1>2, SettledExact
<1>. QED BY <1>2, <1>3 DEF XattrsExact, Exists

LEMMA ExactAnswers ==
  ASSUME IInv, LoneInv
  PROVE  AnswersRight
<1>1. PICK c \in Clients : Lone(c) /\ LInv(c)
  BY DEF LoneInv
<1>2. \A k \in Clients : k = c
  BY <1>1 DEF Lone
<1>3. PICK q, a : q = chan[c].request /\ a = chan[c].msg
  OBVIOUS
<1>4. SUFFICES ASSUME chan[c].dir = "answer", q.ino \in Inodes
               PROVE  CASE q.op \in {"stat", "fstat"} ->
                              IF meta[q.ino].tracked
                              THEN << a.result, a.uid, a.mode >> =
                                      << "succeed", meta[q.ino].uid, meta[q.ino].mode >>
                              ELSE a.result = "fail"
                        [] q.op = "get_xattr" ->
                              IF a.result = "succeed" THEN << q.name, a.value >> \in xmeta[q.ino]
                              ELSE \A x \in xmeta[q.ino] : x[1] # q.name
                        [] q.op = "list_xattr" -> a.value = {x[1] : x \in xmeta[q.ino]}
                        [] OTHER -> TRUE
  BY <1>2, <1>3, Zenon DEF AnswersRight
<1>5. AnswerRight(q, a) /\ CallRight(cl[c], q)
  <2>1. Request(chan[c]) = q
    BY <1>3, <1>4 DEF Request
  <2>. QED BY <1>1, <1>3, <1>4, <2>1 DEF LInv, ConnectionRight
<1>6. q.op # "fstat"
  BY <1>5 DEF CallRight, Renaming, Asks, Makes
<1>7. CASE q.op = "stat"
  <2>1. a.result = "succeed" /\ meta[q.ino] = Tracked(a.uid, a.mode)
    BY <1>4, <1>5, <1>7, NoInodeNot DEF AnswerRight
  <2>2. meta[q.ino].tracked /\ meta[q.ino].uid = a.uid /\ meta[q.ino].mode = a.mode
    BY <2>1, TrackedFields DEF Tracked
  <2>. QED BY <1>7, <2>1, <2>2
<1>8. CASE q.op = "get_xattr"
  BY <1>5, <1>8 DEF AnswerRight
<1>9. CASE q.op = "list_xattr"
  BY <1>5, <1>9 DEF AnswerRight
<1>. QED BY <1>6, <1>7, <1>8, <1>9

LEMMA ExactNoAbort ==
  ASSUME LoneInv
  PROVE  NoAbort
  BY DEF LoneInv, Lone, LInv, NoAbort

\* Whatever calls a lone process makes, and however many answers are lost:
\* between two calls no row of the database speaks of a file that is not there,
\* and no row is marked.  Unlink, rmdir and rename (MAY_UNLINK,
\* DID_UNLINK, CANCEL_UNLINK, RENAME) and the creating calls leave none behind.
THEOREM LoneNoStaleRow ==
  ASSUME LoneClient
  PROVE  Spec => []NoStaleRow
  BY LoneInvariant, Invariant, ExactNoStaleRow, PTL

\* Every owner and mode that a lone process gave a file, by creating it, by chown()
\* or by chmod(), is in the database under each name of the file between two calls.
THEOREM LoneMetaKept ==
  ASSUME LoneClient
  PROVE  Spec => []MetaKept
  BY LoneInvariant, Invariant, ExactMetaKept, PTL

\* Between two calls of a lone process the attributes of each file are those that
\* it set: a new file inherits none from an earlier one with its inode number, and
\* unlinking one of several names loses none.
THEOREM LoneXattrsKept ==
  ASSUME LoneClient
  PROVE  Spec => []XattrsKept
  BY LoneInvariant, Invariant, ExactXattrsKept, PTL

\* Every answer to stat(), getxattr() and listxattr() of a lone process is what its
\* earlier calls did, also when the answer was lost and the request sent again.
THEOREM LoneAnswersRight ==
  ASSUME LoneClient
  PROVE  Spec => []AnswersRight
  BY LoneInvariant, Invariant, ExactAnswers, PTL

\* No sequence of calls of a lone process makes the server answer RESULT_ABORT.
THEOREM LoneNoAbort ==
  ASSUME LoneClient
  PROVE  Spec => []NoAbort
  BY LoneInvariant, ExactNoAbort, PTL
=============================================================================
