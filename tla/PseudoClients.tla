--------------------------- MODULE PseudoClients ---------------------------
(***************************************************************************)
(* Processes running under pseudo, the real filesystem below them and the  *)
(* server's database.  A wrapped call is a sequence of steps: real system  *)
(* calls, which change the filesystem at once, and requests, which the     *)
(* server processes one at a time by pseudo_op.  Between two steps of one  *)
(* client any other client may run: the database is never updated in the   *)
(* same step as the filesystem.                                            *)
(*                                                                         *)
(* A step of a client consumes the answer it waited for, makes one real    *)
(* call and sends the next request.  Sending is not a step of its own: a   *)
(* request has no effect before the server processes it.  One process      *)
(* makes one wrapped call at a time, because pseudo_getlock() serialises   *)
(* its threads, so a client is a process.                                  *)
(*                                                                         *)
(* As in FilesDB, an operator X_Fault is X with a mistake in it.           *)
(***************************************************************************)
EXTENDS PseudoOp

CONSTANTS
    Clients,      \* process ids
    Names,        \* the components of paths
    Paths,        \* paths the clients use: nonempty sequences of Names
    Inodes,       \* inode numbers the filesystem can hand out
    Uids,         \* user and group ids a client may give a file
    Perms,        \* permission bits a client may give a file
    XNames, XValues,  \* names and values of extended attributes
    Calls,        \* the system calls the clients make
    Own,          \* Own[c]: the paths client c works on
    InitialFiles, \* files that exist, untracked, before pseudo starts
    Logging,      \* the server logs (opt_l), so OP_OPEN is sent to it
    StrayFds,     \* descriptors are used that may not know a name of their file
    NotResent,    \* the requests whose answers are not lost
    MaxCalls,     \* bound: calls per client
    MaxLost,      \* bound: answers lost because the server died
    MaxCrashes    \* bound: clients killed between two steps

ASSUME ClientsAssumption == Clients \subseteq Nat \ {0}
ASSUME InodesAssumption  == Inodes \subseteq Nat \ {0}
ASSUME UidsAssumption    == Uids \subseteq Nat
ASSUME PathsAssumption   ==
    /\ "NAMELESS FILE" \notin Names
    /\ Paths \subseteq Seq(Names) \ {<< >>}
ASSUME OwnAssumption == Own \in [Clients -> SUBSET Paths]
ASSUME BoundsAssumption ==
    MaxCalls \in Nat /\ MaxLost \in Nat /\ MaxCrashes \in Nat

VARIABLES
    dir,     \* the filesystem: dir[p] is the inode at path p, or NoInode
    kind,    \* kind[i]: the type of inode i, or "free"
    db,      \* the server's database
    cl,      \* cl[c]: where client c is in its call
    chan,    \* chan[c]: the request or the answer on c's connection
    life,    \* life[c]: "up", "killed" or "aborted"
    meta,    \* ghost: the owner and mode that requests gave each inode
    xmeta,   \* ghost: the attributes that requests gave each inode
    fdmark,  \* ghost: clients that sent a request about an unlinked open file
    calls, lost, crashes   \* what is left of the three bounds

fsvars   == << dir, kind >>
ghosts   == << meta, xmeta, fdmark >>
budgets  == << calls, lost, crashes >>
vars     == << dir, kind, db, cl, chan, life, meta, xmeta, fdmark,
               calls, lost, crashes >>

Root     == << 0, 0 >>        \* pseudo_fuid, pseudo_fgid of a process running as root
RealUid  == << 1000, 1000 >>  \* the real owner and group of every real file
RealPerm == "fs"              \* the real permissions of a file
Keep     == -1                \* chown(): leave the owner, or the group, as it is
Untracked == [tracked |-> FALSE]
Tracked(uid, mode) == [tracked |-> TRUE, uid |-> uid, mode |-> mode]

-----------------------------------------------------------------------------
(* The real filesystem, as the wrappers use it *)

Exists(p) == dir[p] # NoInode
Links(d, i) == Cardinality({p \in Paths : d[p] = i})
ParentIsDir(p) ==
    \/ Len(p) = 1
    \/ LET parent == SubSeq(p, 1, Len(p) - 1)
       IN  parent \in Paths /\ Exists(parent) /\ kind[dir[parent]] = "dir"
HasChildren(p) == \E q \in Paths : IsUnder(q, p) /\ Exists(q)

\* struct stat: a directory's link count is never 1
StatOf(i) ==
    [ino |-> i, uid |-> RealUid, mode |-> [type |-> kind[i], perm |-> RealPerm],
     nlink |-> IF kind[i] = "dir" THEN 2 ELSE Links(dir, i)]

\* a NULL stat buffer: the message keeps its zeroes
NoStat == [ino |-> NoInode, uid |-> Root, mode |-> [type |-> "reg", perm |-> "none"],
           nlink |-> 0]
Lstat(p) == IF Exists(p) THEN StatOf(dir[p]) ELSE NoStat

\* an uninitialised stat buffer: whatever an earlier call left in it
Garbage == {NoStat} \cup {StatOf(i) : i \in {j \in Inodes : kind[j] # "free"}}

NoFd == [ino |-> NoInode, path |-> NoPath, linked |-> NoPath]
HeldBy(C) == {cl[c].fd.ino : c \in C}

\* an inode without names that nobody holds open is free again
Reclaim(d, k, open) ==
    [i \in Inodes |-> IF Links(d, i) = 0 /\ i \notin open THEN "free" ELSE k[i]]

\* make a new inode i of type t at path p
RealCreate(p, i, t) ==
    /\ kind[i] = "free" /\ ~Exists(p) /\ ParentIsDir(p)
    /\ dir' = [dir EXCEPT ![p] = i]
    /\ kind' = [kind EXCEPT ![i] = t]
    /\ meta' = [meta EXCEPT ![i] = Untracked]
    /\ xmeta' = [xmeta EXCEPT ![i] = {}]
    /\ UNCHANGED fdmark

SetDir(d) ==
    /\ dir' = d
    /\ kind' = Reclaim(d, kind, HeldBy(Clients))
    /\ UNCHANGED ghosts

-----------------------------------------------------------------------------
(* Requests: pseudo_client_op() fills in the message *)

\* pseudo_stat_msg: what the database knows replaces what the filesystem says
Merged(st, msg) == [st EXCEPT !.uid = msg.uid, !.mode = msg.mode]

NoMsg == [dir |-> "none"]

\* operations that report the fake uid instead of the file's
UsesFuid == {"chmod", "creat", "fchmod", "mkdir", "mknod", "symlink"}

\* args is a ghost: the arguments of the chown() the message stems from
Msg(c, op, path, st) ==
    [op |-> op, path |-> path, oldpath |-> NoPath, ino |-> st.ino,
     uid |-> IF op \in UsesFuid THEN Root ELSE st.uid,
     mode |-> st.mode, nlink |-> st.nlink, deleting |-> Nobody, client |-> c,
     name |-> "", value |-> "", args |-> << Keep, Keep >>, result |-> "none"]

Send(c, msg) == chan' = [chan EXCEPT ![c] = [dir |-> "request", msg |-> msg]]
SendNothing(c) == chan' = [chan EXCEPT ![c] = NoMsg]

Idle(c) == life[c] = "up" /\ cl[c].pc = "idle"

\* the client is at step pc, with no request outstanding
At(c, pc) == life[c] = "up" /\ cl[c].pc = pc /\ chan[c].dir = "none"

\* the client is at step pc and its request has been answered
Answered(c, pc) ==
    /\ life[c] = "up" /\ cl[c].pc = pc /\ chan[c].dir = "answer"
    /\ chan[c].msg.result # "abort"
Succeeded(c) == chan[c].msg.result = "succeed"

Goto(c, pc) == cl' = [cl EXCEPT ![c].pc = pc]
NoCall(fd) == [pc |-> "idle", p |-> NoPath, q |-> NoPath, st |-> NoStat,
               st2 |-> NoStat, mark |-> FALSE, mark2 |-> FALSE,
               args |-> << Keep, Keep >>, fd |-> fd]
Finish(c) == cl' = [cl EXCEPT ![c] = NoCall(@.fd)]

\* a call starts: one unit of the client's budget
Start(c, call) ==
    /\ call \in Calls /\ Idle(c) /\ calls[c] > 0
    /\ calls' = [calls EXCEPT ![c] = @ - 1]

-----------------------------------------------------------------------------
(* The server *)

\* the owner and group after chown(args) of a file of this owner and group
Overridden(owner, args) ==
    [i \in 1 .. 2 |-> IF args[i] = Keep THEN owner[i] ELSE args[i]]

\* ghost: what the request, taken by itself, says of the inode it names
Promised(m) ==
    CASE m.ino \notin Inodes -> meta
      [] m.op \in {"creat", "mkdir", "mknod", "symlink"} ->
            [meta EXCEPT ![m.ino] = Tracked(m.uid, m.mode)]
      [] m.op = "link" /\ ~meta[m.ino].tracked ->
            [meta EXCEPT ![m.ino] = Tracked(m.uid, m.mode)]
      [] m.op \in {"chown", "fchown"} ->
            [meta EXCEPT ![m.ino] =
                IF @.tracked THEN Tracked(Overridden(@.uid, m.args), @.mode)
                ELSE Tracked(Overridden(RealUid, m.args), m.mode)]
      [] m.op \in {"chmod", "fchmod"} ->
            [meta EXCEPT ![m.ino] =
                IF @.tracked THEN [@ EXCEPT !.mode.perm = m.mode.perm]
                ELSE Tracked(m.uid, m.mode)]
      [] OTHER -> meta

PromisedXattrs(m) ==
    CASE m.ino \notin Inodes -> xmeta
      [] m.op = "set_xattr" ->
            [xmeta EXCEPT ![m.ino] =
                {x \in @ : x[1] # m.name} \cup {<< m.name, m.value >>}]
      [] m.op = "remove_xattr" ->
            [xmeta EXCEPT ![m.ino] = {x \in @ : x[1] # m.name}]
      [] OTHER -> xmeta

\* what pdb_update_inode may find in its buffer
StaleLookups(m) ==
    {NoPath} \cup
    IF m.op = "rename" THEN {SubSeq(m.path, 1, n) : n \in 1 .. Len(m.path) - 1} ELSE {}

Serve(c) ==
    /\ chan[c].dir = "request"
    /\ LET m == chan[c].msg
       IN  \E stale \in StaleLookups(m) :
             LET out == pseudo_op(db, m, stale)
             IN  /\ db' = out.db
                 /\ chan' = [chan EXCEPT ![c] =
                        IF life[c] = "up"
                        THEN [dir |-> "answer", msg |-> out.msg, request |-> m]
                        ELSE NoMsg]
                 /\ IF out.msg.result = "abort" THEN UNCHANGED ghosts
                    ELSE /\ meta' = Promised(m) /\ xmeta' = PromisedXattrs(m)
                         /\ fdmark' = IF m.op \in PrefersInode /\ m.nlink = 0
                                      THEN fdmark \cup {c} ELSE fdmark
    /\ UNCHANGED << fsvars, cl, life, budgets >>

\* the server dies after processing, before its answer arrives; the client
\* reconnects to a new server with the same database and sends again
LoseAnswer(c) ==
    /\ lost > 0 /\ life[c] = "up"
    /\ chan[c].dir = "answer" /\ chan[c].request.op \notin NotResent
    /\ lost' = lost - 1
    /\ chan' = [chan EXCEPT ![c] = [dir |-> "request", msg |-> @.request]]
    /\ UNCHANGED << fsvars, db, cl, life, ghosts, calls, crashes >>

Die(c, how) ==
    /\ life' = [life EXCEPT ![c] = how]
    /\ cl' = [cl EXCEPT ![c].fd = NoFd]
    /\ kind' = Reclaim(dir, kind, HeldBy(Clients \ {c}))
    /\ UNCHANGED << dir, db, ghosts, calls, lost >>

\* the server answered RESULT_ABORT: pseudo_client_op calls abort()
Abort(c) ==
    /\ life[c] = "up" /\ chan[c].dir = "answer" /\ chan[c].msg.result = "abort"
    /\ Die(c, "aborted") /\ SendNothing(c)
    /\ UNCHANGED crashes

\* killed in the middle of a call; a request already sent is still processed
Crash(c) ==
    /\ crashes > 0 /\ life[c] = "up" /\ cl[c].pc # "idle"
    /\ crashes' = crashes - 1
    /\ Die(c, "killed")
    /\ chan' = [chan EXCEPT ![c] = IF @.dir = "request" THEN @ ELSE NoMsg]

-----------------------------------------------------------------------------
(* unlink, unlinkat, rmdir: mark the row, remove the file, delete the row *)

\* lstat and MAY_UNLINK; a path that does not exist returns at once
MarkFirst(c, call, p) ==
    /\ Start(c, call) /\ Exists(p)
    /\ cl' = [cl EXCEPT ![c].pc = call, ![c].p = p, ![c].st = Lstat(p)]
    /\ Send(c, Msg(c, "may_unlink", p, Lstat(p)))
    /\ UNCHANGED << fsvars, db, life, ghosts, lost, crashes >>

StartUnlink(c, p) == MarkFirst(c, "unlink", p)
StartRmdir(c, p) == MarkFirst(c, "rmdir", p)

\* pseudo_client_unlinked_path: an open file moves to its other known name
Unlinked(fd, p) ==
    IF fd.path = p /\ fd.linked # NoPath THEN [fd EXCEPT !.path = fd.linked] ELSE fd

\* the real call, which succeeds if ok, then DID_UNLINK or CANCEL_UNLINK if a
\* row was marked
Remove(c, ok) ==
    /\ LET me == cl[c]
       IN  /\ SetDir(IF ok THEN [dir EXCEPT ![me.p] = NoInode] ELSE dir)
           /\ IF Succeeded(c)
              THEN /\ Send(c, Msg(c, IF ok THEN "did_unlink" ELSE "cancel_unlink",
                                  me.p, me.st))
                   /\ cl' = [cl EXCEPT ![c].pc = "last",
                                       ![c].fd = IF ok THEN Unlinked(@, me.p) ELSE @]
              ELSE SendNothing(c) /\ Finish(c)
    /\ UNCHANGED << db, life, budgets >>

IsDirAt(p) == Exists(p) /\ kind[dir[p]] = "dir"

RealUnlink(c) ==
    /\ Answered(c, "unlink")
    /\ Remove(c, Exists(cl[c].p) /\ ~IsDirAt(cl[c].p))

RealRmdir(c) ==
    /\ Answered(c, "rmdir")
    /\ Remove(c, IsDirAt(cl[c].p) /\ ~HasChildren(cl[c].p))

\* the answer to the last request of a call
LastAnswer(c) ==
    /\ Answered(c, "last")
    /\ SendNothing(c) /\ Finish(c)
    /\ UNCHANGED << fsvars, db, life, ghosts, budgets >>

-----------------------------------------------------------------------------
(* open with O_CREAT: did it exist?  open it, stat it, report a creation *)

\* a descriptor knows one name of its file, and the names linked to it later
StartOpen(c, p) ==
    /\ Start(c, "open") /\ cl[c].fd = NoFd
    /\ Exists(p) /\ Lstat(p).nlink > 1 => StrayFds
    /\ cl' = [cl EXCEPT ![c].pc = "open", ![c].p = p, ![c].mark = Exists(p)]
    /\ UNCHANGED << fsvars, db, chan, life, ghosts, lost, crashes >>

OpenFails(p) ==
    IF Exists(p) THEN kind[dir[p]] # "reg"
    ELSE ~ParentIsDir(p) \/ \A i \in Inodes : kind[i] # "free"

\* a client holds at most one descriptor: it closes it before the next open
RealOpen(c) ==
    /\ At(c, "open")
    /\ LET p == cl[c].p
           Hold(i) == cl' = [cl EXCEPT ![c].pc = "open_stat",
                                       ![c].fd = [NoFd EXCEPT !.ino = i]]
       IN  \/ OpenFails(p) /\ Finish(c) /\ UNCHANGED << fsvars, ghosts >>
           \/ /\ ~OpenFails(p) /\ Exists(p) /\ Hold(dir[p])
              /\ UNCHANGED << fsvars, ghosts >>
           \/ /\ ~OpenFails(p)
              /\ \E i \in Inodes : RealCreate(p, i, "reg") /\ Hold(i)
    /\ UNCHANGED << db, chan, life, budgets >>

\* OP_OPEN: remember the path of the descriptor; sent only to a logging server
OpOpen(c, p, st) ==
    /\ cl' = [cl EXCEPT ![c] = IF Logging THEN [@ EXCEPT !.fd.path = p, !.pc = "last"]
                               ELSE NoCall([@.fd EXCEPT !.path = p])]
    /\ IF Logging THEN Send(c, Msg(c, "open", p, st)) ELSE SendNothing(c)

OpenStat(c) ==
    /\ At(c, "open_stat")
    /\ LET p == cl[c].p
       IN  IF Exists(p) /\ ~cl[c].mark
           THEN \E perm \in Perms :
                  LET st == [Lstat(p) EXCEPT !.mode.perm = perm]
                  IN  /\ Send(c, Msg(c, "creat", p, st))
                      /\ cl' = [cl EXCEPT ![c].pc = "open_created", ![c].st = st]
           ELSE OpOpen(c, p, Lstat(p))
    /\ UNCHANGED << fsvars, db, life, ghosts, budgets >>

OpenCreated(c) ==
    /\ Answered(c, "open_created")
    /\ OpOpen(c, cl[c].p, cl[c].st)
    /\ UNCHANGED << fsvars, db, life, ghosts, budgets >>

\* close: the client forgets the path, the kernel may free the inode
Close(c) ==
    /\ Idle(c) /\ cl[c].fd # NoFd
    /\ cl' = [cl EXCEPT ![c].fd = NoFd]
    /\ kind' = Reclaim(dir, kind, HeldBy(Clients \ {c}))
    /\ UNCHANGED << dir, db, chan, life, ghosts, budgets >>

-----------------------------------------------------------------------------
(* mkdir, mkdtemp, mkfifo, symlink: create, stat, report *)

RealMake(c, call, p, type) ==
    /\ Start(c, call)
    /\ \E i \in Inodes : RealCreate(p, i, type)
    /\ cl' = [cl EXCEPT ![c].pc = call, ![c].p = p]
    /\ UNCHANGED << db, chan, life, lost, crashes >>

\* the type comes from the stat, the permissions are one of perms
ReportMade(c, call, op, perms) ==
    /\ At(c, call)
    /\ LET p == cl[c].p
       IN  IF ~Exists(p) THEN Finish(c) /\ UNCHANGED chan
           ELSE /\ Goto(c, "last")
                /\ \E perm \in perms :
                      Send(c, Msg(c, op, p, [Lstat(p) EXCEPT !.mode.perm = perm]))
    /\ UNCHANGED << fsvars, db, life, ghosts, budgets >>

RealMkdir(c, p) == RealMake(c, "mkdir", p, "dir")
MkdirStat(c) == ReportMade(c, "mkdir", "mkdir", Perms)

RealSymlink(c, p) == RealMake(c, "symlink", p, "lnk")
SymlinkStat(c) == ReportMade(c, "symlink", "symlink", {RealPerm})

\* a directory that is reported as a file is
RealMkdtemp(c, p) == RealMake(c, "mkdtemp", p, "dir")
MkdtempStat(c) == ReportMade(c, "mkdtemp", "creat", {RealPerm})

RealMkfifo(c, p) == RealMake(c, "mkfifo", p, "fifo")
MkfifoStat(c) == ReportMade(c, "mkfifo", "mknod", Perms)

\* mkstemp: a fresh name; fstat of the new descriptor, CREAT, then OPEN
RealMkstemp(c, p) ==
    /\ Start(c, "mkstemp") /\ cl[c].fd = NoFd
    /\ \E i \in Inodes :
          /\ RealCreate(p, i, "reg")
          /\ cl' = [cl EXCEPT ![c].pc = "mkstemp", ![c].p = p,
                              ![c].fd = [NoFd EXCEPT !.ino = i]]
    /\ UNCHANGED << db, chan, life, lost, crashes >>

MkstempStat(c) ==
    /\ At(c, "mkstemp")
    /\ LET st == StatOf(cl[c].fd.ino)
       IN  /\ Send(c, Msg(c, "creat", cl[c].p, st))
           /\ cl' = [cl EXCEPT ![c].pc = "open_created", ![c].st = st]
    /\ UNCHANGED << fsvars, db, life, ghosts, budgets >>

\* mknod: an empty real file stands for the device.  The fstat of the fresh
\* descriptor is part of the step: OP_MKNOD does not use the link count
RealMknod(c, p) ==
    /\ Start(c, "mknod")
    /\ \E i \in Inodes, perm \in Perms :
          /\ RealCreate(p, i, "reg")
          /\ Send(c, Msg(c, "mknod", p,
                [ino |-> i, uid |-> RealUid, nlink |-> 1,
                 mode |-> [type |-> "chr", perm |-> perm]]))
    /\ Goto(c, "last")
    /\ UNCHANGED << db, life, lost, crashes >>

-----------------------------------------------------------------------------
(* link: link, lstat the old name, ask what is known of it, report *)

RealLink(c, p, q) ==
    /\ Start(c, "link")
    /\ Exists(p) /\ kind[dir[p]] # "dir" /\ ~Exists(q) /\ ParentIsDir(q)
    /\ SetDir([dir EXCEPT ![q] = dir[p]])
    /\ cl' = [cl EXCEPT ![c].pc = "link", ![c].p = p, ![c].q = q]
    /\ UNCHANGED << db, chan, life, lost, crashes >>

LinkStat(c) ==
    /\ At(c, "link")
    /\ LET st == Lstat(cl[c].p)
       IN  IF ~Exists(cl[c].p) THEN Finish(c) /\ UNCHANGED chan
           ELSE /\ Send(c, Msg(c, "stat", cl[c].p, st))
                /\ cl' = [cl EXCEPT ![c].pc = "link_known", ![c].st = st]
    /\ UNCHANGED << fsvars, db, life, ghosts, budgets >>

LinkKnown(c) ==
    /\ Answered(c, "link_known")
    /\ LET me == cl[c]
           st == IF Succeeded(c) THEN Merged(me.st, chan[c].msg) ELSE me.st
       IN  /\ Send(c, Msg(c, "link", me.q, st))
           /\ cl' = [cl EXCEPT ![c].pc = "last",
                       ![c].fd.linked = IF me.fd.path = me.p THEN me.q ELSE @]
    /\ UNCHANGED << fsvars, db, life, ghosts, budgets >>

-----------------------------------------------------------------------------
(* rename, renameat *)

\* lstat both names; two names of one file need nothing
StartRename(c, p, q) ==
    /\ Start(c, "rename")
    /\ ~(Exists(p) /\ Exists(q) /\ dir[p] = dir[q])
    /\ Send(c, Msg(c, "may_unlink", q, Lstat(q)))
    /\ cl' = [cl EXCEPT ![c].pc = "rename_old", ![c].p = p, ![c].q = q,
                        ![c].st = Lstat(p), ![c].st2 = Lstat(q)]
    /\ UNCHANGED << fsvars, db, life, ghosts, lost, crashes >>

RenameMarkOld(c) ==
    /\ Answered(c, "rename_old")
    /\ Send(c, Msg(c, "may_unlink", cl[c].p, cl[c].st))
    /\ cl' = [cl EXCEPT ![c].pc = "rename_stat", ![c].mark2 = Succeeded(c)]
    /\ UNCHANGED << fsvars, db, life, ghosts, budgets >>

RenameStat(c) ==
    /\ Answered(c, "rename_stat")
    /\ Send(c, Msg(c, "stat", cl[c].p, cl[c].st))
    /\ cl' = [cl EXCEPT ![c].pc = "rename_real", ![c].mark = Succeeded(c)]
    /\ UNCHANGED << fsvars, db, life, ghosts, budgets >>

\* the new name of a path when p becomes q
Moved(r, p, q) ==
    IF r = p THEN q
    ELSE IF IsUnder(r, p) THEN q \o SubSeq(r, Len(p) + 1, Len(r)) ELSE r
FitsAfterMove(p, q) ==
    \A r \in Paths : (r = p \/ IsUnder(r, p)) /\ Exists(r) => Moved(r, p, q) \in Paths

RenameOk(p, q) ==
    /\ Exists(p) /\ ParentIsDir(q) /\ ~IsUnder(q, p) /\ FitsAfterMove(p, q)
    /\ Exists(q) => /\ (kind[dir[p]] = "dir") = (kind[dir[q]] = "dir")
                    /\ ~HasChildren(q)

MovedDir(p, q) ==
    [r \in Paths |->
        IF \E s \in Paths : Exists(s) /\ (s = p \/ IsUnder(s, p)) /\ Moved(s, p, q) = r
        THEN dir[CHOOSE s \in Paths : Exists(s) /\ (s = p \/ IsUnder(s, p))
                                      /\ Moved(s, p, q) = r]
        ELSE IF r = p \/ IsUnder(r, p) \/ r = q THEN NoInode ELSE dir[r]]

SendRename_KeepFdPath(c, me, st) ==
    /\ Send(c, [Msg(c, "rename", me.q, st) EXCEPT !.oldpath = me.p])
    /\ cl' = [cl EXCEPT ![c] = [me EXCEPT !.pc = "last"]]

\* the requests that follow the real rename, in order; "rename_did" and so on
\* name the request that is answered next
SendRename(c, me, st) ==
    /\ Send(c, [Msg(c, "rename", me.q, st) EXCEPT !.oldpath = me.p])
    /\ cl' = [cl EXCEPT ![c] = [me EXCEPT !.pc = "last",
                !.fd.path = IF @ = me.p THEN me.q ELSE @,
                !.fd.linked = IF @ = me.p THEN me.q ELSE @]]

SendLinkOrRename(c, me, known) ==
    IF known THEN SendRename(c, me, me.st)
    ELSE /\ Send(c, Msg(c, "link", me.p, me.st))
         /\ cl' = [cl EXCEPT ![c] = [me EXCEPT !.pc = "rename_link"]]

\* a buffer that lstat did not fill is passed on as it is
Buffers(st) == IF st = NoStat THEN Garbage ELSE {st}

RealRename(c) ==
    /\ Answered(c, "rename_real")
    /\ \E st \in Buffers(cl[c].st), st2 \in Buffers(cl[c].st2) :
         LET me == [cl[c] EXCEPT !.st = st, !.st2 = st2]
             known == Succeeded(c)
             Cancel(p, buf, pc) ==
                /\ Send(c, Msg(c, "cancel_unlink", p, buf))
                /\ cl' = [cl EXCEPT ![c] = [me EXCEPT !.pc = pc]]
         IN  \/ /\ RenameOk(me.p, me.q)
                /\ SetDir(MovedDir(me.p, me.q))
                /\ IF me.mark2
                   THEN /\ Send(c, Msg(c, "did_unlink", me.q, st2))
                        /\ cl' = [cl EXCEPT ![c] =
                              [me EXCEPT !.pc = "rename_did", !.mark = known,
                                         !.fd = Unlinked(@, me.q)]]
                   ELSE SendLinkOrRename(c, me, known)
             \/ /\ ~RenameOk(me.p, me.q)
                /\ UNCHANGED << fsvars, ghosts >>
                /\ IF me.mark2 THEN Cancel(me.q, st2, "rename_cancel")
                   ELSE IF me.mark THEN Cancel(me.p, st, "last")
                   ELSE SendNothing(c) /\ Finish(c)
    /\ UNCHANGED << db, life, budgets >>

RenameCancelOld_Forget(c) ==
    /\ Answered(c, "rename_cancel")
    /\ SendNothing(c) /\ Finish(c)
    /\ UNCHANGED << fsvars, db, life, ghosts, budgets >>

RenameCancelOld(c) ==
    /\ Answered(c, "rename_cancel")
    /\ IF cl[c].mark
       THEN Send(c, Msg(c, "cancel_unlink", cl[c].p, cl[c].st)) /\ Goto(c, "last")
       ELSE SendNothing(c) /\ Finish(c)
    /\ UNCHANGED << fsvars, db, life, ghosts, budgets >>

RenameDid(c) ==
    /\ Answered(c, "rename_did")
    /\ SendLinkOrRename(c, cl[c], cl[c].mark)
    /\ UNCHANGED << fsvars, db, life, ghosts, budgets >>

RenameLinked(c) ==
    /\ Answered(c, "rename_link")
    /\ SendRename(c, cl[c], cl[c].st)
    /\ UNCHANGED << fsvars, db, life, ghosts, budgets >>

-----------------------------------------------------------------------------
(* Calls that stat a file and send one request about it *)

\* chown with both an owner and a group, and with one of the two
FullArgs    == {<< u, u >> : u \in Uids}
PartialArgs == {<< u, Keep >> : u \in Uids} \cup {<< Keep, u >> : u \in Uids}

ChownMsg(c, op, path, st, args) ==
    [Msg(c, op, path, [st EXCEPT !.uid = Overridden(@, args)]) EXCEPT !.args = args]

\* one-request calls by path; each is << the call, its request >>
StatRequests(c, p, st) == {<< "stat", Msg(c, "stat", p, st) >>}

ChownRequests(c, p, st) ==
    {<< "chown", ChownMsg(c, "chown", p, st, a) >> : a \in FullArgs}

\* symlinks are left alone
ChmodRequests(c, p, st) ==
    {<< "chmod", Msg(c, "chmod", p, [st EXCEPT !.mode.perm = m]) >> :
        m \in IF st.mode.type = "lnk" THEN {} ELSE Perms}

\* attributes other than POSIX ACLs, which shared_setxattr turns into a chmod;
\* the client does not send XATTR_CREATE and XATTR_REPLACE to the server
SetxattrRequests(c, p, st) ==
    {<< "setxattr", [Msg(c, "set_xattr", p, st) EXCEPT !.name = x[1], !.value = x[2]] >> :
        x \in XNames \X XValues}

GetxattrRequests(c, p, st) ==
    {<< "getxattr", [Msg(c, "get_xattr", p, st) EXCEPT !.name = n] >> : n \in XNames}

ListxattrRequests(c, p, st) == {<< "listxattr", Msg(c, "list_xattr", p, st) >>}

RemovexattrRequests(c, p, st) ==
    {<< "removexattr", [Msg(c, "remove_xattr", p, st) EXCEPT !.name = n] >> :
        n \in XNames}

Requests(c, p, st) ==
    UNION {StatRequests(c, p, st), ChownRequests(c, p, st), ChmodRequests(c, p, st),
           SetxattrRequests(c, p, st), GetxattrRequests(c, p, st),
           ListxattrRequests(c, p, st), RemovexattrRequests(c, p, st)}

\* the same by file descriptor: fstat, and the path the client remembers
FstatRequests(c, p, st) == {<< "fstat", Msg(c, "fstat", p, st) >>}

FchownRequests(c, p, st) ==
    {<< "fchown", ChownMsg(c, "fchown", p, st, a) >> : a \in FullArgs}

FchmodRequests(c, p, st) ==
    {<< "fchmod", Msg(c, "fchmod", p, [st EXCEPT !.mode.perm = m]) >> : m \in Perms}

FdRequests(c, p, st) ==
    FstatRequests(c, p, st) \cup FchownRequests(c, p, st) \cup FchmodRequests(c, p, st)

OneRequest(c, p) ==
    /\ Exists(p)
    /\ \E r \in Requests(c, p, Lstat(p)) : Start(c, r[1]) /\ Send(c, r[2])
    /\ Goto(c, "last")
    /\ UNCHANGED << fsvars, db, life, ghosts, lost, crashes >>

\* a program may go on using the descriptor of a file that has lost its name
HasFd(c) ==
    /\ Idle(c) /\ cl[c].fd # NoFd
    /\ StatOf(cl[c].fd.ino).nlink = 0 => StrayFds

OneFdRequest(c) ==
    /\ HasFd(c)
    /\ \E r \in FdRequests(c, cl[c].fd.path, StatOf(cl[c].fd.ino)) :
          Start(c, r[1]) /\ Send(c, r[2])
    /\ Goto(c, "last")
    /\ UNCHANGED << fsvars, db, life, ghosts, lost, crashes >>

-----------------------------------------------------------------------------
(* chown of the owner or the group alone: ask for the rest, then report both *)

AskOwner(c, op, path, st) ==
    /\ \E a \in PartialArgs :
          cl' = [cl EXCEPT ![c].pc = op, ![c].p = path, ![c].st = st, ![c].args = a]
    /\ Send(c, Msg(c, "stat", path, st))
    /\ UNCHANGED << fsvars, db, life, ghosts, lost, crashes >>

StartChown(c, p) ==
    Start(c, "chown_part") /\ Exists(p) /\ AskOwner(c, "chown", p, Lstat(p))

StartFchown(c) ==
    /\ HasFd(c)
    /\ Start(c, "fchown_part")
    /\ AskOwner(c, "fchown", cl[c].fd.path, StatOf(cl[c].fd.ino))

ChownKnown_Real(c) ==
    /\ Answered(c, "chown") \/ Answered(c, "fchown")
    /\ Send(c, ChownMsg(c, cl[c].pc, cl[c].p, cl[c].st, cl[c].args))
    /\ Goto(c, "last")
    /\ UNCHANGED << fsvars, db, life, ghosts, budgets >>

ChownKnown(c) ==
    /\ Answered(c, "chown") \/ Answered(c, "fchown")
    /\ LET st == IF Succeeded(c) THEN Merged(cl[c].st, chan[c].msg) ELSE cl[c].st
       IN  Send(c, ChownMsg(c, cl[c].pc, cl[c].p, st, cl[c].args))
    /\ Goto(c, "last")
    /\ UNCHANGED << fsvars, db, life, ghosts, budgets >>

-----------------------------------------------------------------------------
Init ==
    /\ \E f \in [InitialFiles -> Inodes] :
          /\ \A p, q \in InitialFiles : f[p] = f[q] => p = q
          /\ dir = [p \in Paths |-> IF p \in InitialFiles THEN f[p] ELSE NoInode]
    /\ kind = [i \in Inodes |-> IF Links(dir, i) = 0 THEN "free" ELSE "reg"]
    /\ db = EmptyDB
    /\ cl = [c \in Clients |-> NoCall(NoFd)]
    /\ chan = [c \in Clients |-> NoMsg]
    /\ life = [c \in Clients |-> "up"]
    /\ meta = [i \in Inodes |-> Untracked]
    /\ xmeta = [i \in Inodes |-> {}]
    /\ fdmark = {}
    /\ calls = [c \in Clients |-> MaxCalls]
    /\ lost = MaxLost
    /\ crashes = MaxCrashes

ClientStep(c) ==
    \/ \E p \in Own[c] :
          \/ StartUnlink(c, p) \/ StartRmdir(c, p) \/ StartOpen(c, p)
          \/ RealMkdir(c, p) \/ RealSymlink(c, p) \/ RealMkdtemp(c, p)
          \/ RealMkfifo(c, p) \/ RealMkstemp(c, p)
          \/ RealMknod(c, p) \/ OneRequest(c, p) \/ StartChown(c, p)
          \/ \E q \in Own[c] : RealLink(c, p, q) \/ StartRename(c, p, q)
    \/ RealUnlink(c) \/ RealRmdir(c) \/ LastAnswer(c)
    \/ RealOpen(c) \/ OpenStat(c) \/ OpenCreated(c) \/ Close(c)
    \/ MkdirStat(c) \/ SymlinkStat(c) \/ MkdtempStat(c) \/ MkfifoStat(c)
    \/ MkstempStat(c)
    \/ LinkStat(c) \/ LinkKnown(c)
    \/ RenameMarkOld(c) \/ RenameStat(c) \/ RealRename(c)
    \/ RenameCancelOld(c) \/ RenameDid(c) \/ RenameLinked(c)
    \/ OneFdRequest(c) \/ StartFchown(c) \/ ChownKnown(c)

\* the programs may stop making calls, but never in the middle of one
AtRest ==
    /\ \A c \in Clients : life[c] = "up" => cl[c].pc = "idle"
    /\ \A c \in Clients : chan[c] = NoMsg
    /\ UNCHANGED vars

Next ==
    \/ \E c \in Clients :
          ClientStep(c) \/ Serve(c) \/ LoseAnswer(c) \/ Abort(c) \/ Crash(c)
    \/ AtRest

Spec == Init /\ [][Next]_vars

-----------------------------------------------------------------------------
(* Properties *)

Owners == (Uids \cup {0, 1000}) \X (Uids \cup {0, 1000})
Modes == [type : {"reg", "dir", "lnk", "fifo", "chr"}, perm : Perms \cup {RealPerm, "none"}]
Stats == [ino : Inodes \cup {NoInode}, uid : Owners,
          mode : Modes, nlink : Nat]
Steps == {"idle", "unlink", "rmdir", "open", "open_stat", "open_created", "mkdir",
          "symlink", "mkdtemp", "mkfifo", "mkstemp", "link", "link_known",
          "rename_old", "rename_stat", "rename_real", "rename_did", "rename_cancel",
          "rename_link", "chown", "fchown", "last"}

\* Every variable has its type: files exist at paths, rows and messages carry
\* real inodes and owners, a client is at a step of a wrapper.
TypeOK ==
    /\ dir \in [Paths -> Inodes \cup {NoInode}]
    /\ kind \in [Inodes -> {"free", "reg", "dir", "lnk", "fifo"}]
    /\ \A r \in db.files :
          /\ r.path = Nameless \/ r.path \in Seq(Names)
          /\ r.ino \in Inodes \cup {NoInode} /\ r.uid \in Owners
          /\ r.mode \in Modes /\ r.deleting \in Clients \cup {Nobody}
    /\ \A x \in db.xattrs : x.ino \in Inodes /\ x.name \in XNames /\ x.value \in XValues
    /\ DOMAIN cl = Clients
    /\ \A c \in Clients :
          /\ cl[c].pc \in Steps /\ cl[c].p \in Paths \cup {NoPath}
          /\ cl[c].q \in Paths \cup {NoPath} /\ cl[c].st \in Stats /\ cl[c].st2 \in Stats
          /\ cl[c].mark \in BOOLEAN /\ cl[c].mark2 \in BOOLEAN
          /\ cl[c].fd \in [ino : Inodes \cup {NoInode}, path : Paths \cup {NoPath},
                           linked : Paths \cup {NoPath}]
    /\ DOMAIN chan = Clients
    /\ \A c \in Clients : chan[c].dir \in {"none", "request", "answer"}
    /\ life \in [Clients -> {"up", "killed", "aborted"}]
    /\ calls \in [Clients -> 0 .. MaxCalls]
    /\ lost \in 0 .. MaxLost /\ crashes \in 0 .. MaxCrashes

\* all clients that work on p are between two calls
Settled(p) == \A c \in Clients : p \in Own[c] => Idle(c)

\* When every client that works on a path is between calls, no row of the
\* database speaks of a file that is not there: each row of the path names the
\* inode that is really at that path, and nobody is still deleting it.  This is
\* what MAY_UNLINK / DID_UNLINK / CANCEL_UNLINK and RENAME are for.
NoStaleRow ==
    \A r \in db.files : r.path \in Paths /\ Settled(r.path) =>
        dir[r.path] = r.ino /\ r.deleting = Nobody

\* When a path is settled, the owner and mode that chown, chmod and the creating
\* calls gave its inode are what the database has for it: no request was lost,
\* applied to another file, or undone by another client's requests.
MetaKept ==
    \A p \in Paths : Settled(p) /\ Exists(p) /\ meta[dir[p]].tracked =>
        \E r \in db.files : /\ r.path = p /\ r.ino = dir[p]
                            /\ r.uid = meta[dir[p]].uid /\ r.mode = meta[dir[p]].mode

\* When a path is settled, the extended attributes of its inode are exactly
\* those that were set on that file: none is lost by a rename, and a new file
\* that reuses an inode number inherits none from its predecessor.
XattrsKept ==
    \A p \in Paths : Settled(p) /\ Exists(p) =>
        {<< x.name, x.value >> : x \in {y \in db.xattrs : y.ino = dir[p]}} = xmeta[dir[p]]

\* What a lone client is told is what it did: stat() and fstat() answer with the
\* owner and mode that its calls gave the inode, or find nothing if none did;
\* getxattr() and listxattr() with the attributes it set.
AnswersRight ==
    \A c \in Clients : chan[c].dir = "answer" =>
        LET q == chan[c].request
            a == chan[c].msg
        IN  q.ino \in Inodes =>
            CASE q.op \in {"stat", "fstat"} ->
                    IF meta[q.ino].tracked
                    THEN << a.result, a.uid, a.mode >> =
                            << "succeed", meta[q.ino].uid, meta[q.ino].mode >>
                    ELSE a.result = "fail"
              [] q.op = "get_xattr" ->
                    IF a.result = "succeed" THEN << q.name, a.value >> \in xmeta[q.ino]
                    ELSE \A x \in xmeta[q.ino] : x[1] # q.name
              [] q.op = "list_xattr" -> a.value = {x[1] : x \in xmeta[q.ino]}
              [] OTHER -> TRUE

\* The server never loses a row that belongs to another client's file: processing
\* a request of c, it leaves every row of a path c does not work on as it was,
\* unless that row was announced for deletion (its inode may have been reused).
RowsOfOthersKept ==
    [][\A c \in Clients : chan[c].dir = "request" /\ chan'[c].dir # "request" =>
          \A r \in db.files :
              r.deleting = Nobody /\ r.path \in Paths \ Own[c] => r \in db'.files]_vars

\* No sequence of legal system calls makes the server answer RESULT_ABORT,
\* on which pseudo_client_op() calls abort().
NoAbort == \A c \in Clients : life[c] # "aborted"

\* c's outstanding request, or one that was refused with an abort
Pending(c, op, p) ==
    /\ chan[c].dir # "none"
    /\ chan[c].dir = "answer" => chan[c].msg.result = "abort"
    /\ LET m == IF chan[c].dir = "request" THEN chan[c].msg ELSE chan[c].request
       IN  m.op = op /\ (IF op = "rename" THEN m.oldpath ELSE m.path) = p

\* c has announced that p may disappear and has not yet said what became of it
Deleting(c, p) ==
    \/ cl[c].pc \in {"unlink", "rmdir"} /\ cl[c].p = p
    \/ cl[c].pc \in {"rename_old", "rename_stat", "rename_real", "rename_did",
                     "rename_cancel"} /\ cl[c].q = p
    \/ cl[c].pc \in {"rename_stat", "rename_real", "rename_did", "rename_cancel",
                     "rename_link"} /\ cl[c].p = p
    \/ cl[c].pc = "last" /\ \E op \in {"did_unlink", "cancel_unlink", "rename"} :
                                Pending(c, op, p)

\* A row is marked for deletion only on behalf of a client that is in the middle
\* of deleting or renaming that path, or that died there: no mark outlives the
\* call that set it, whatever the other clients do in between.  (Descriptors of
\* unlinked files are the exception: fdmark.)
MarksOwned ==
    \A r \in db.files : r.deleting # Nobody =>
        \/ life[r.deleting] # "up"
        \/ r.deleting \in fdmark
        \/ Deleting(r.deleting, r.path)
=============================================================================
