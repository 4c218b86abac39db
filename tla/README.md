# A TLA+ model of pseudo

pseudo lets an unprivileged process believe it is root: a preloaded library
wraps system calls, the real call is made with the real (limited) rights, and
a server keeps in a database what the process believes about its files: owner,
group, mode, device numbers, extended attributes.  This directory models the
places where that can go wrong in ways tests hardly reach:

* the **protocol between wrapped calls, the real filesystem and the
  database**: a call is several real calls and several requests, the database is never
  changed in the same step as the filesystem, and other processes run in
  between;
* the **server's event loop**, its table of clients, and when it may exit;
* the **coming and going of servers**: clients start them, all at once, and send
  a request again when the one they talked to is gone;
* the **client library inside a process**: threads, callbacks and signal handlers share one
  lock, one counter and one saved signal mask;
* the **state a line of processes hands on** through fork and exec: emulated ids, root
  directory, whether pseudo is disabled, and the library itself;
* **paths**: every path is made canonical, below an emulated root directory, before anybody
  uses it;
* the **life of the database file**: created, migrated from older releases, loaded and flushed,
  by servers that may be killed at any statement.

## 1. Inventory

| component | state | operations | interacts with |
|---|---|---|---|
| file database (`pseudo_db.c`) | table `files` (path, dev, ino, uid, gid, mode, rdev, deleting), table `xattrs` | link, unlink, update, rename, mark / confirm / cancel a deletion, find by path / inode / both, get / set / remove / list attributes | called by request processing only |
| request processing (`pseudo_op` in `pseudo.c`) | none of its own | one function: look the request up by path and by inode, resolve mismatches, perform the operation | database; called by the event loop |
| event loop (`pseudo_server.c`) | client table (`fd`, `pid`), `active_clients`, `highest_client`, `max_clients`, two timers, two die flags | accept, serve a message, close a client, time out, shut down, signal | processes, over a socket |
| client (`pseudo_client.c`) | connection, paths of open descriptors, fake ids, chroot, umask | `pseudo_client_op`: fill in a message, send it, resend it when the server died | wrappers above it, server below |
| wrappers (`ports/*/guts`) | none | one function per system call | real calls and `pseudo_client_op` |
| start-up (`pseudo_server.c`, `pseudo_client.c`) | lock file, pid file, socket, SIGUSR1 | spawn a server, connect, ping, retry; daemonise, lock, bind, listen | clients and servers, through the filesystem and signals |
| wrapper frame (`templates/wrapfuncs.c`, `pseudo_wrappers.c`) | mutex, holder, recursion count, `antimagic`, saved signal mask | block signals, take the lock, decide whether to emulate, drop, restore; `fork`, `exec*`, the open of a FIFO | every wrapper runs inside it; callbacks and handlers re-enter it |
| process state (`pseudo_client.c`, `pseudo_util.c`, `ports/uids_generic`) | four user ids and four group ids, chroot, `pseudo_disabled`, cache of PSEUDO_* variables | `set*id`, `chroot`, initialise, prepare an environment | the program's environment, the next process |
| paths (`pseudo_util.c`, `base_path`) | working directory, paths of descriptors | extend a base element by element, follow links | file system; every wrapper with a path |
| database set-up (`get_dbs`, `make_tables`, `pdb_backup`, `pdb_restore`) | handles, `file_db_dirty`, schema version | open, create, migrate, load, flush | request processing; the event loop when idle |
| log (`pseudolog.c`), database check | see section 7 | | |

What is hard in this code:

* **ordering across two stores.** Filesystem and database agree only if every
  wrapper's sequence of steps, interleaved with everybody else's, ends right.
  The device of the code is to mark a row before a file disappears
  (`MAY_UNLINK`) and to confirm (`DID_UNLINK`) or withdraw
  (`CANCEL_UNLINK`) afterwards;
* **inode reuse.** The database identifies a file by path and by inode
  number, and both are reused as soon as a file is gone;
* **failure.** A process may be killed between two steps; the server may die
  between processing a request and answering it, after which the client sends the request
  again;
* **start-up.** Nobody supervises the server.  Whoever finds none starts one, the
  lock decides, and a loser has to find the winner.  A server that is leaving
  still holds the lock but accepts nobody;
* **the client table.** Batches of epoll events name slots, slots are reused,
  the table grows, and "nobody is here" is decided by a counter;
* **re-entrance.** A wrapped call can be made by another thread, by a callback, by a handler and by
  the library itself, and the code must tell these apart with one counter and one thread id;
* **two copies of the state.** Ids and settings are in the library's memory and in environment
  variables; a fork copies the first, an exec keeps only the second;
* **half-done migrations.** A migration and the record that it was done are two statements.

`PROJECT.json` lists each hazard at its line, with the properties that are aimed at it.

## 2. Modules

```
FilesDB         the tables, as pure operators         pseudo_db.c
  PseudoOp      one request against the tables        pseudo.c, pseudo_op
    PseudoClients   processes, filesystem, requests   wrappers, pseudo_client.c
      PseudoClaims      claims of docs and comments
        MCPseudoClients     instances for TLC
      PseudoClients_proof   theorems
        LoneClient_proof      theorems about one process with its own files
PseudoServer    event loop and client table           pseudo_server.c
  MCPseudoServer        instances for TLC
  PseudoServer_proof    theorems
RequestService  what a request promises (abstract)
  ServerLifecycle   clients, daemons, lock, socket    pseudo_server.c, pseudo_client.c
    MCServerLifecycle     instances for TLC
    ServerLifecycle_proof theorems
UserIds         what a set*id call does               ports/uids_generic, ports/linux/guts
  ProcessState    one line of processes               pseudo_client.c, pseudo_util.c, exec and fork
    MCProcessState        instances for TLC
    ProcessState_proof    theorems
PathFix         canonical paths and chroot            pseudo_util.c, pseudo_client.c
  MCPathFix             instances for TLC
  PathFix_proof         theorems
WrapperLock     threads inside the library            pseudo_wrappers.c, wrapfuncs.c
  MCWrapperLock         instances for TLC
  WrapperLock_proof     theorems
DatabaseSetup   opening, migrating, flushing          pseudo_db.c
  MCDatabaseSetup       instances for TLC
  DatabaseSetup_proof   theorems
```

**FilesDB.**  The database is a record of two sets of rows.  Each SQL
statement is an operator with the name of the C function that prepares it;
its `WHERE` clause is the set comprehension.  Rows keep their primary key,
because it decides which of several matching rows a `SELECT` returns.  Paths are
sequences of names, so "starts with oldpath/" is a prefix, and SQL's
`replace()` is modelled as what it does, on sequences.  There
is one device; owner and group are a pair, and mode stands for mode and `rdev`.

**PseudoOp.**  `pseudo_op(db, msg, stale)` is the function of that name: look
up, resolve mismatches, dispatch.  Every branch is kept, also those that only
log, because they decide what the lookup flags say afterwards.  `stale` is the
content of a buffer that the code may read without having written it.

**PseudoClients.**  The filesystem is `dir` (inode at each path) and `kind`
(type of each inode, or free).  `cl[c]` holds the local variables of the
wrapper that process `c` is in, `pc` names the step, `chan[c]` the request or
answer on its connection.  One action is one atomic thing: a real call, or the
processing of one request by the server.  Sending is merged with the step
before it, because a request has no effect until it is processed.  A process
is one sequential client because `pseudo_getlock()` lets one of its threads at a
time into a wrapper.  Uninitialised stat buffers are a choice among
what an earlier call can have left in them (`Garbage`).

| calls | actions |
|---|---|
| unlink, unlinkat, rmdir | `StartUnlink`, `StartRmdir`, `RealUnlink`, `RealRmdir`, `LastAnswer` |
| open with O_CREAT, close | `StartOpen`, `RealOpen`, `OpenStat`, `OpenCreated`, `Close` |
| mkdir, symlink, mkdtemp, mkfifo, mkstemp | `RealMkdir`, `MkdirStat` and likewise |
| mknod of a device | `RealMknod` |
| link | `RealLink`, `LinkStat`, `LinkKnown` |
| rename | `StartRename`, `RenameMarkOld`, `RenameStat`, `RealRename`, `RenameDid`, `RenameCancelOld`, `RenameLinked` |
| stat, chown, chmod, set/get/list/remove xattr | `OneRequest` |
| fstat, fchown, fchmod | `OneFdRequest` |
| chown and fchown of owner or group alone | `StartChown`, `StartFchown`, `ChownKnown` |
| the server | `Serve`, `LoseAnswer` |
| failure | `Abort`, `Crash` |

Ghost variables record what the requests promised: `meta` and `xmeta`, the owner,
mode and attributes each inode was given; `fdmark`, who sent a request about an
unlinked open file.  A ghost never appears in a guard.

**PseudoServer.**  The variables have the names of the C variables.  `Wake`
is `epoll_wait` returning a batch, `Tick` its time-out, `Interrupted` its end by a signal (the code takes
both for `LOOP_DELAY` seconds, only the first lets time pass), the other server
actions handle one event of the batch each, in any order.  A refused shutdown answers with a text of
pids, in which a pid of seven digits (`LongPids`) ends what the client can read.  Processes connect, send one
message at a time, and leave at any moment, with messages unread.  `poll` is the build.
Without `PSEUDO_EPOLL` the batch is everything `select` names, `Turn` takes its clients in the
order of their slots and the listening socket last, and after an `accept` that failed with EMFILE
(`hitmaxfiles`) the first client that `select` did not name, `victim`, is in the batch to be closed.

**RequestService** and **ServerLifecycle.**  `ServerLifecycle` models
`pseudo_client_request` of several clients with everything below it
(`pseudo_client_setup`, `client_connect`, `client_ping`, `client_spawn_server`) and
`pseudo_server_start` of the daemons they start.  `pc[c]` is the client's place in
that code, `server[s]` the daemon's, `parent[s]` that of the process which forked the daemon and
waits for SIGUSR1, the child's exit, or an alarm.  `lock` and `sock` are the two
files they meet at.  A server id is one incarnation at a time and is used again once the
process and its parent are gone, so the number of servers over time is unbounded.
The tries of a client are not counted: `GiveUp` may happen before any try, at most `MaxGiveUps`
times in all.  What a process may rely on is
`RequestService`: a request is applied before `pseudo_client_request` returns, or the
process is aborted.  The three models meet at interfaces: the serving
server of `ServerLifecycle` is `PseudoServer` with one action per message, the processing of a
request is `PseudoOp`, and a server lost between processing and answering is
`LoseAnswer` in `PseudoClients`.

**UserIds** and **ProcessState.**  A process `p` is a record: whether the library is loaded, the
environment, the library's cache of its variables (`pseudo_env`), the two identities, the
chroot directory, `pseudo_inited`, `pseudo_disabled`, `antimagic`.  The functions of the library
are operators on that record with their C names, and an action applies them in the order of the
code: `fork` is `pseudo_setupenv` and `libpseudo_init` on a copy, `execv` is `Image` of the
prepared environment, in which nothing but the variables survives.  The model follows one
process and goes on with either side where a call makes another.  `Setenv` is the program, which may
set, clear or drop anything.  A variable is a set of at most one value; an id list is
kept as a value, since formatting and parsing it lose nothing, except that the parser
puts the fourth group id into the user's file system id, which is modelled.

**PathFix.**  A path is a sequence of elements, the walk a stack `frames` of the calls of
`pseudo_append_elements` with what each has left to append; each action is one call of
`pseudo_append_element`, by its case: nothing, up, name, link, overflow.  Around it are the calls
that change where a path starts: `chdir`, `fchdir`, `chroot`, and an `open` that keeps a directory: the path
that is remembered (`dirfd`) and the directory it really is (`fddir`), to which `fchdir` goes and of which
`getcwd` then tells.  `HandOn` is a request that does not fit the buffer together with its base: it goes to the real
call as it is, without the chroot directory.  Two uses of such a path are left out: `chroot` with a relative one, and
a descriptor that remembers one as its path.
`Kernel` is the reference: path lookup as the kernel does it, with a root directory, one element
at a time (`Onward`), by the directory it is in, what is left of the path and the links it may still
follow; it is used both as what the real calls see and as what `AgreesWithKernel` compares with.  An
empty request is left out: `base_path()` returns it as it is.

**WrapperLock.**  Each thread has a stack of frames, one per wrapped call it is in; `pc` in a frame
is the place in the generated wrapper.  Each store to a shared variable is a step of its own:
taking the lock is `pthread_mutex_lock`, `LockFirst`, `LockClaim`, dropping it is
`pseudo_droplock`, `DropClear`, `pthread_mutex_unlock`.  Six kinds of call cover the wrappers: plain ones,
`nftw` with its callbacks, the FIFO case of `openat`, `exec*`, `posix_spawn*`, which also restores the mask early but comes
back when it succeeds, and `fork`.  Handlers push a
frame whenever the thread's mask lets them.  After a fork the model goes on with the parent or
with the child, after an exec with the new image.

**DatabaseSetup.**  A database is which tables exist in which form, the attributes they hold, the recorded
versions and the indexes.  `MakeTable`, `PopulateTable`, `MakeIndex`, `RunMigration`,
`RecordMigration` are the statements of `make_tables` in its order; each is a transaction, and each may fail
(`MakeTablesFails`).  `unversioned` remembers that a database came from the release without a table of migrations.  `get_dbs`
to `pdb_restore` open logs.db, files.db and the memory database; both builds (`USE_MEMORY_DB` or
not) are in the model.  `Crash` happens at every step.  What requests do to rows is
`PseudoOp`; here a request only adds to their number.

An operator `X_Fault` (for instance `Markable_Once`) is `X` with a plausible
mistake.  No specification uses one; replacing `X` by it must violate the
property named in `PROJECT.json`, which shows that the property is able to fail.

## 3. Properties

Of `PseudoClients`.  "Settled" is said of a path when every process that works
on it is between two calls.

* `NoStaleRow`: every row of a settled path names the inode that is really
  there, and is not marked.
* `MetaKept`: owner and mode that calls gave a file are what its row says,
  under each of its names.
* `XattrsKept`: its attributes are exactly those set on it; a file that reuses an
  inode number inherits none.
* `AnswersRight`: `stat`, `fstat`, `getxattr` and `listxattr` are answered
  with what the process did, or with "not found" if it did nothing.
* `RowsOfOthersKept`: processing a request removes or alters no unmarked row
  of a path that the sender does not work on.
* `MarksOwned`: a mark does not outlive the call that set it, unless the
  process died in it.
* `NoAbort`: the server never answers `RESULT_ABORT`, which kills the process.

Of `PseudoServer`.

* `CountRight`, `OneSlotEach`: the table is consistent.
* `LeavesNoSooner`: a server that nobody told to go has been alone, without a break, for the whole timeout in
  force (that of `-t` until the first client, then the default, or the short one after a refusal), less
  `LOOP_DELAY` for each signal that interrupted its wait (section 6).
* `NeverAbandons`: the server exits of its own accord only when nobody is
  attached but the process that asked for it.
* `NakNamesOthers`: a refused shutdown names only others, and each of them that no pid of seven digits hides.
* `HurriesAfterRefusal`: after a refusal, the last client's leaving starts
  the short timer.
* `AnswerComes`, `IdleExit`: a request is answered, or ends with its process, its server or,
  in the loop of `select`, its connection; a server left alone exits.

Of `ServerLifecycle`.

* `OneServer`: at most one server is past the lock.
* `Reachable`: `pseudo.socket` leads to the server that serves.
* `ProcessedOnce`: no server processes a request twice.  Together with
  `Implements` this says what a resend can do, and `sequential` says that the database bears it.
* `Implements`: the refinement of `RequestService`.
* `Served`: every request ends, answered or given up.

Of `ProcessState`.

* `EnabledEmulates`: a library that is not disabled has its state and an `antimagic` of 0,
  after any number of switches.
* `StaysLoaded`: only `PSEUDO_UNLOAD` takes the library out of a line of processes (or
  `system()` in a disabled process).
* `NothingGained`: without privilege and exec, no sequence of `set*id` calls and forks gives a
  process an id it did not hold.
* `DisabledPassedOn`: a fork that finds `PSEUDO_DISABLED` set and every exec do what it asks, and an exec whose
  environment says nothing keeps the setting, even with an empty environment.  Of a fork that finds
  the variable gone it says nothing (section 6).

Of `PathFix`.

* `TypeOK`: includes that the path fits its buffer with the slash that is added last.
* `StaysBelowRoot`: no combination of `..`, links and bases leads out of the chroot directory,
  and links nest no deeper than the limit.  The exception is a request that does not fit the buffer with its base
  (section 6).
* `AgreesWithKernel`: the result is the file that the kernel finds, whenever it finds one over at
  most `PSEUDO_MAX_LINK_RECURSION` links and the request fits.  Links are taken as they are stored; what a chroot does
  to a link that is made in it is another matter (section 6).
* `WalkEnds`: so do circular links.

Of `WrapperLock`.

* `Excludes`: a thread inside a wrapper's body owns the mutex and is its recorded holder, if no handler runs
  in the window of `NoSelfDeadlock` (`LateSignals` is `FALSE`); it is false there.
* `OwnCallsOnly`: a call bypasses the emulation exactly when the library made it.
* `MaskKept`: between calls, and at an exec, a thread has the mask the program gave it.
* `CallsReturn`: every call returns, except a FIFO open to which nobody comes.
* `NoSelfDeadlock`: no thread waits for a mutex it has.  Refuted, see section 6.

Of `DatabaseSetup`.

* `SetUpRight`: after a start without an error, the tables are those of this release, with each
  attribute once, if the release that wrote the database recorded its migrations (section 6).
* `AttributesKept`, `RowsKept`: nothing is lost by a migration, a crash in it, a reopening, an
  exit or a restart, beyond what a memory database cannot keep.  An attribute that is kept may still be
  where nobody reads it (section 6).

## 4. Runs

Bounds are constants of the modules: `MaxCalls` calls (of each process, of all threads, or of the
one process of `paths`), `MaxLost` lost answers, `MaxCrashes` kills (in `database` also statements that fail), `MaxFaults` failures of
accept or malloc, `MaxSignals` signals that interrupt a lone server, `MaxSets` calls that change ids or root, `MaxUpdates` changes of the database.

| run | instance | why this is enough to be interesting |
|---|---|---|
| `sequential` | 1 process, 2 names, 2 inodes, 23 calls, 4 calls in a row, 1 lost answer | creates, changes, removes and creates again, with the inode reused, in every order; by name and through a descriptor whose file is renamed and linked; any one request is processed twice (for more, `LoneInvariant`) |
| `crash` | 2 processes with files of their own, 2 inodes, 1 kill, 2 calls each | the killed process leaves its inode to the other |
| `marks` | 2 processes on shared names, open, unlink, rename, fchown, 1 kill | two deletions and a rename of the same row in every interleaving |
| `tree` | 1 process, two directories with a child each, 3 inodes, 5 calls, one file pseudo has never seen | make, fill and rename a directory over another name, with tracked and untracked contents |
| `server` | 2 connections (each reused any number of times), one of them with a pid of seven digits, a table that starts with 2 slots and grows by 2, `-t 8` and 30 as the default, 2 signals | both processes attached needs a table of three, so it grows with a client in it; both loops; a server that was told `-t` leaves before and after its first client.  Too small for two cases that are left to the theorems: a pid that is hidden behind a long one (three clients), and more events than fit a batch of 10 |
| `lifecycle` | 2 clients, 2 server ids, 1 fault (kill, signal, failed connect or fork), 1 idle exit, 1 client that gives up | both clients start a server and race; the winner leaves or dies at any step; a third and a fourth incarnation follow.  With 3 server ids (339,345 states) the result is the same |
| `process` | 2 ids, 1 directory, all ten `set*id` calls, 2 of them, any number of forks, execs and changes of the environment | an id given up and asked for again; disable, fork, enable, exec in every order |
| `paths` | 48 file systems over two names, 8 requests, 3 calls, links nested 3 deep, a buffer of 6 elements | links upwards, across, absolute, dangling and circular, met by absolute and relative requests after `chdir` and `chroot`; walks that overflow the buffer; requests that do not fit it with their base and are handed on |
| `threads` | 2 threads, 4 calls in all | a call with a call in its callback and one in a handler, against another thread; two ends of a FIFO; a fork, an exec that fails and a spawn while the other thread is anywhere |
| `database` | 8 databases of four releases and none, both builds, 4 crashes or failed statements, 4 changes | a crash in the middle of each migration and of its repetition |
| `stat_rename`, `exec_deadlock` | 2 processes; 1 thread | section 6 |

Two processes on *shared* paths are not in `NoStaleRow` and `MetaKept`: the code does
not promise it (section 6), and `doc/database` describes one of the races
itself.  What is promised there is `MarksOwned`.

`sequential` leaves two things out by a constant, because the code does not keep the properties
there and no document says that it does.  `NotResent`: a second `OP_RENAME` finds the row
under the new name already and can be answered `RESULT_ABORT` (`pseudo.c:680`).
`StrayFds`: calls by a descriptor that knows no name of its file, because the file has none any more (`pseudo.c:1038`) or
had a second one when it was opened (section 6); `marks`, `crash` and `tree` have them.
`threads` leaves out late signals (section 6) and a FIFO opened in a callback of `nftw`, where
dropping the lock only lowers its count.  Two of the databases of `database` say little about `SetUpRight`:
`Unversioned` is outside it, and `Marked` (version 2 without attributes) never migrates: `make_tables` creates the new `xattrs`
first, migration 4 looks for the old one's `file_id` in it and fails at every start, so no start of it is without an error.

`CHECK_DEADLOCK` stays on in every run but `paths`, whose process stops after its last call.  Processes may
rest between calls (`AtRest`) and an exited server stays exited (`Exited`); anything else that stops is
an error.

No symmetry is used: the clients of `crash` and `marks` have different paths,
and liveness is checked in `server`, `lifecycle`, `paths` and `threads`.

## 5. Fairness and proofs

`PseudoServer!Spec` has weak fairness of `ServerStep` and nothing else: the
server's process is scheduled while it can run, and `epoll_wait` and `select` return after at
most `LOOP_DELAY` seconds.  Nothing is assumed of the processes.
`PseudoClients!Spec` is used for safety only.

`ServerLifecycle!Spec` has weak fairness of each client's steps within a request, of
each waiting parent and of each starting or leaving daemon: they are processes that
run when they can.  It has strong fairness of `ServeStep(c)`: a server is busy with other
clients now and then, but handles every event of a batch before it asks for the next
one, so it gets to each client that has something for it.  Faults, idle exits, new
requests and giving up are not fair.

`WrapperLock!Spec` has weak fairness of each thread's steps and of two `open` calls that can complete
each other, which the scheduler and the kernel give, and strong fairness of `pthread_mutex_lock`: a
mutex that is free again and again is not withheld from one thread for ever (POSIX does not promise
that, the futex-based implementation wakes waiters in turn).  No call, signal or other process is
assumed to come.  `PathFix!Spec` has weak fairness of a walk that has begun.  `ProcessState` and
`DatabaseSetup` are used for safety only.

`PseudoServer_proof` proves for every finite set of connections, table
increment greater than one, and time-outs (`ConnsAssumption`,
`ChunkAssumption`, `TimeoutAssumption`, `PidsAssumption`):

| theorem | statement |
|---|---|
| `Invariant` | `Spec => []IInv` |
| `TypeCorrect` | `Spec => []TypeOK` |
| `TableCorrect` | `Spec => [](CountRight /\ SlotsCovered /\ OneSlotEach)` |
| `ServerNeverAbandons` | `Spec => []NeverAbandons` |
| `ServerHurries` | `Spec => []HurriesAfterRefusal` |
| `RefusalNamesOthers` | `Spec => NakNamesOthers` |
| `ClientsKeepSlots` | `Spec => []OneSlotEach` |
| `ServerLeavesNoSooner` | `Spec => []LeavesNoSooner`, if `MaxEvents < Chunk` |

`IInv` is the type invariant, the three table properties, and four facts that
make it inductive.  `BatchOpen`: slots of the batch in hand are open, so an event handled late
is never handled for a slot that was emptied in between.  `UnreadIsLast`: an unread message
is the last one its process sent.  `PeaceAgreed`: while the server has
agreed to leave, nobody is attached but processes that asked for it;
`NeverAbandons` follows.  `TimerWillRestart`: while the timeout is the short one and a longer timer
is still running, a client is attached that has no event in the batch, and its departure will
be an event of a later batch, which restarts the timer; `HurriesAfterRefusal`
follows.  `CountRight` rests on lemmas about the cardinality
of a function's support when one point changes and when its domain grows; `Chunk > 1` is needed by
`SlotsCovered`, because a growing table sets `highest_client` one past the slot it fills.

`ServerLeavesNoSooner` rests on a second invariant, `TInv`, on top of `IInv`.  `TimeServed` and `ShortServed`:
while the time spent alone, what signals have cost and the time left do not add up to the timeout in force (or the short one, which a refusal may bring at any
time), a client is attached that has no event in the batch, and its departure restarts the timer.
`LeaveCause`: a server that means to leave has had its time, or still has the process attached that asked.
The hypothesis says that a batch of events is smaller than the table; in `pseudo_server.c` it is (10 events, 16
slots).  Without it the statement is false: with two slots per chunk, three clients attached and one in the
queue, a refused shutdown makes the timeout short, the queued connection finds the table full and no memory,
which makes the timeout long again, and if the three leave in the same batch the server goes when the short
timer ends.  Two connections, as in run `server`, are too few to show it; the proof did.

`ServerLifecycle_proof` proves for every set of clients, set of servers (that
avoids the names of "no server", `ServersAssumption`) and bounds that are natural numbers
(`BoundsAssumption`):

| theorem | statement |
|---|---|
| `Invariant` | `Spec => []IInv` |
| `TypeCorrect` | `Spec => []TypeOK` |
| `AtMostOneServer` | `Spec => []OneServer` |
| `ServerReachable` | `Spec => []Reachable` |
| `NoRepetition` | `Spec => ProcessedOnce` |
| `ServiceImplemented` | `Spec => Implements` |

`IInv` here is the type invariant and four facts.  `LockHeld`: a server past
`TakeLock` is the one the lock names, from which `OneServer` follows.  `SockOwned`: a
server past `BindSocket` is the one the socket leads to; preserved because only
the holder of the lock replaces the socket.  `Talking`: what the message on a connection can be
at each step of its client; an answer to a ping is never read as the answer to the request,
which `Implements` needs.  `Fresh`: while a request is on its
way, the server at the other end has not processed it, which is `ProcessedOnce`.

`ProcessState_proof` proves for every set of ids with 0 in it, every set of directories, every choice of
calls and any number of them (`IdsAssumption`, `ProcessAssumption`):

| theorem | statement |
|---|---|
| `TypesHold` | `Spec => []TypeOK` |
| `EmulationHolds` | `Spec => []EnabledEmulates` |
| `LoadedHolds` | `Spec => StaysLoaded` |
| `NoGain` | `Spec => NothingGained` |
| `DisabledHolds` | `Spec => DisabledPassedOn` |

`IInv` is the type invariant, `EnabledEmulates` and three facts.  `Balanced`: `antimagic` is at most 1
between calls, and 1 only in a disabled library, so that the `pseudo_magic` of the next switch brings
it back to 0 and never below.  `NotAsked`: as long as nobody set it, `PSEUDO_UNLOAD` is neither in the
environment nor in the cache.  `FlagKept`: until then the cache says what
`pseudo_disabled` is, which is what an empty environment inherits.  The lemmas follow one process record through
`pseudo_init_client` field by field, since every fork and exec goes through it.

`PathFix_proof` proves for every set of file systems, requests and limits (`PathAssumption`):

| theorem | statement |
|---|---|
| `TypesHold` | `Spec => []TypeOK` |
| `ChrootHolds` | `Spec => []StaysBelowRoot` |
| `KernelAgrees` | `Spec => []AgreesWithKernel` |

`IInv` is the type invariant with `Rooted` and `Bounded`.  `Rooted`: the floor `root` is never above the end of the
path, and for a request that starts inside the chroot directory it is exactly that directory's length
and the path begins with it; `..` stops at the floor, an absolute link cuts back to it, everything
else appends.  `Bounded`: while walking there is room for the final slash, frames nest no deeper than the
limit, and a path that was handed on is one that did not fit.  The lemmas are about prefixes under `Append`, `Front` and `SubSeq`.

`KernelAgrees` compares two algorithms that resolve one path: the stack of `pseudo_append_elements` against the
kernel's lookup.  Its invariant is `Tracks`: as long as the kernel finds the request, the lookup
that starts at the path built so far, with what all the frames have left, one after another, as its
path, finds the same file with the links that remain.  Every action of the walk keeps it, because it is a step of the lookup or none
(`KernelStep`): "", "." and ".." up to the floor, a name, a link, whose target becomes a new frame here and is put before the rest of the path there.
At the end nothing is left and the lookup is where the path is.
Two general lemmas carry the recursion: `TailRecursion` (a tail-recursive function over any set of states exists
and satisfies its equation, whether or not it terminates; the witness counts the steps) and `SetInduction`
(induction over the naturals in terms of a set, from the library's well-founded minimum).  By the second, `CanonicalLookup`
shows that `lstat` of a canonical path, looked up element by element from `/`, is the entry of that path.
The hypothesis on the file system is `IsTree`: what is in a directory has its directory.

`WrapperLock_proof` proves for any number of threads, any set of calls and any nesting of them (`LockAssumption`),
if no signal arrives late (`~LateSignals`):

| theorem | statement |
|---|---|
| `Invariant` | `Spec => []IInv` |
| `TypeCorrect` | `Spec => []TypeOK` |
| `LockExcludes` | `Spec => []Excludes` |
| `AntimagicTells` | `Spec => []OwnCallsOnly` |
| `MaskComesBack` | `Spec => []MaskKept` |
| `NoWaitForOneself` | `Spec => []NoSelfDeadlock` |

`IInv` is the type invariant and seven facts.  `Shape`: which steps a frame goes through, and at which of them another
frame can lie on it; above a frame that is in `pseudo_client_op` there is exactly a call of the library's own.
`OneThread`: the child of a fork has one thread while it starts.  `MaskInv`: for every frame, the mask its thread
will have when all frames above it have returned; signals are blocked from `pseudo_sigblock` on, so a handler
interrupts a call only before it takes the lock, while a FIFO's `open` waits or where `exec*`
or `posix_spawn*` has restored the mask.  `SavedInv`: the one `pseudo_saved_sigmask` is the mask of the `exec*` or `posix_spawn*` that has the lock.  `LockInv` and `Levels`
tie the mutex, its holder and `pseudo_mutex_recursion` to the frames: those that hold the lock have the
levels 1 to `recursion`, the oldest the lowest, so the frame that drops the lock last is the one that locked
the mutex.  `MagicInv`: `antimagic` is 1 in a `pseudo_client_op` and 0 outside.  The assumption is what `exec_deadlock` is
about (section 6), and `Excludes` needs it as well: a handler that interrupts `pseudo_droplock` of a failed `exec*`,
or of any `posix_spawn*`, just before the holder is cleared takes and drops the lock; another thread may take it, and then
the interrupted call clears that thread's claim.

`DatabaseSetup_proof` proves for every set of attributes and databases that satisfy `DatabaseAssumption`, any number of changes and
crashes, with and without the memory database:

| theorem | statement |
|---|---|
| `Invariant` | `Spec => []IInv` |
| `TypeCorrect` | `Spec => []TypeOK` |
| `OpenedUpToDate` | `Spec => []SetUpRight` |
| `AttributesSurvive` | `Spec => AttributesKept` |
| `RowsSurvive` | `Spec => RowsKept` |

The assumption on a database is `Recorded`: unless it is from the release before the table of migrations (`unversioned`), a migration
that it has recorded was done, and one without any record is one that this release began to create (`Versioned`).  Unversioned
files are in the model and in the other two theorems; `SetUpRight` excludes them, because for them it is false (section 6).  `IInv` is the type invariant, `Recorded` of files.db and of the memory
database, and four facts.  `TablesInv` and `MigrateInv`: how far `make_tables` has come, in particular that at the record
of a migration its statement is done (if the database is not an unversioned one), and that the record "all done" of a new table of migrations is written only over tables of
this release.  `HandleInv`: a handle without an error stands for a database whose last migration is recorded; `SetUpRight` follows.
`MemoryInv`: as long as nothing failed, the memory database is a copy of files.db up to the rows
still to be flushed, from which a flush takes nothing away.

`PseudoClients_proof` proves for any clients, paths, files, calls, lost answers and crashes (`ClientsAssumption`, `PathsAssumption`,
`OwnAssumption`):

| theorem | statement |
|---|---|
| `Invariant` | `Spec => []IInv` |
| `MarksLeaveNoTrace` | `Spec => []MarksOwned` |

A mark is set by one request of an `unlink`, `rmdir` or `rename` and removed by a later one of the same call, with requests
of other processes in between; and the later one is left out when the first found no row.  So `IInv` has,
per client: `Fits` (shapes of its call, connection and request), `CallInv` (which request each step waits for, and that no other
step has a `MAY_UNLINK` under way), and `MarkInv` (a row it marked belongs to a path the call is about to delete; an answer that is
not an abort, and the two flags a rename keeps of its answers, tell when there is no mark).  About the
server it needs lemmas on every statement of `FilesDB` and every operation of `PseudoOp`: that, whatever a request repairs on the way, it marks
no row but the one it was asked to mark, that a request answered with an abort marks nothing, and that `DID_UNLINK`, `CANCEL_UNLINK`
and `RENAME` leave none of the client's marks at their path.  A client that crashed, or whose descriptor's unlinked file took a mark, is
outside the property, as section 6 explains.

`LoneClient_proof` proves the properties of `sequential` for one process that has its files to itself:

| theorem | statement, under `LoneClient` |
|---|---|
| `LoneInvariant` | `Spec => [](the database is exact)` |
| `LoneNoStaleRow` | `Spec => []NoStaleRow` |
| `LoneMetaKept` | `Spec => []MetaKept` |
| `LoneXattrsKept` | `Spec => []XattrsKept` |
| `LoneAnswersRight` | `Spec => []AnswersRight` |
| `LoneNoAbort` | `Spec => []NoAbort` |

`LoneClient` bounds neither the paths (only: finitely many), inodes, ids, modes and attributes nor the number of calls and lost
answers.  It has the hypotheses without which the properties fail or the proof would be about more than this:

* one process, whose paths are all of them, and no file from before: with two processes on a path the code does not
  promise `NoStaleRow` (section 6), and a file that the server never heard of has no row to be exact about;
* paths of one name *if* the process renames: `rename_db` changes the paths below a directory with SQL's `replace()`, which also
  changes later occurrences of the name (section 6), and reasoning about it is induction over data.  Without `rename` the
  paths may be nested in any way;
* a `RENAME` is not sent again, as in the run;
* no calls by descriptor.  A descriptor knows the name it was opened by and the last one linked to it; when it loses both while the
  file has another, its next call is a path mismatch and is answered with an abort (section 6).  `sequential` checks these calls where
  that cannot happen: two names, and no descriptor of a file that has both when it is opened.

The invariant is `LInv`.  `Exact(db, D, M, c, meta, xmeta)` says that the rows are the names of a directory `D`, one
row each, with the inode, owner and mode of the ghost variables; that the marked rows are those of the paths `M`; that the
attributes belong to inodes of `D` and are those that were set; and that the ids are numbered.  Between two calls `D` is the real
directory and `M` is empty.  Inside a call it is not: a created file is in the directory before the server hears of it, and a removed
one is in the database until `DID_UNLINK`.  So `StepRight` and `CallRight` say for each step what the call remembers, and
`Before` and `After` which `D` and `M` the database has before and after the request that is under way.  While a request is under way the
database may be either (the server may have processed it and its answer be lost), so every request but `RENAME` is shown to
take `Before` to `After` *and* `After` to `After`: that is what makes a resend harmless, and it fails for `RENAME`.
On the way the lemmas show that no branch of `pseudo_op` that repairs a mismatch touches a row that is right, and
that a lookup that may return any of several rows returns the one with the least id (which exists, as `<` on the naturals is well-founded).

Model-checked only:

* liveness (`AnswerComes`, `IdleExit`, `Served`, `WalkEnds`, `CallsReturn`): out of the prover's reach;
* `PseudoClients!TypeOK`: the paths of renamed rows come from SQL's `replace()`, a recursive function, and that it
  returns a sequence of names again is an induction over its argument;
* `RowsOfOthersKept`: it holds for processes with paths apart from each other and needs the invariant of `LoneClient_proof` for each of
  them at once, next to rows that a killed process has left;
* what `sequential` and `tree` check outside `LoneClient`: calls by descriptor, and renames of a directory with files below it.

## 6. Claims the code does not keep

Each is a run that TLC refutes; `PROJECT.json` quotes the text.

* `stat_rename`: renaming a file that has no row makes an unmarked row under
  the old name for a moment; a `stat` of the new name is then answered with
  an abort.
* `exec_deadlock`: wrapped calls block signals so that a handler cannot wait for the lock of the
  call it interrupted.  `exec*` restores the mask early and does not block again when it
  fails; in `pseudo_droplock`, between clearing the holder and unlocking, a handler's
  wrapped call waits for its own thread.  `posix_spawn*` restores it early too (`posix_spawn.c:29`) and goes through that
  window on every success (`ports/common/pseudo_wrappers.c:442-446`).

Seen while modelling, without a run of their own:

* A file created while its predecessor of the same name is marked gets no row, against
  `doc/database:45-57`: the clash deletes the marked row, but `found_path` still says it was found
  (`pseudo.c:600`).
* Renaming `b` to `a` moves `b/b` to `a/a`, against `doc/database:74-75`: SQL's `replace()` replaces
  every occurrence (`pseudo_db.c:2024`).  With absolute paths this needs a path that contains itself.
* The timeout of option `-t` holds until the first client connects; `accept` sets the default
  (`pseudo_server.c:711`), against `pseudo.1:273-278`.
* A signal that interrupts the server's wait costs a lone server `LOOP_DELAY` seconds of its timeout, although none have passed
  (`pseudo_server.c:670` and `841`): about fifteen SIGUSR2, which only asks for a list of the clients, end a server
  with the default timeout at once, against the same lines of `pseudo.1`.
* The refusal of a shutdown prints each pid into 8 bytes (`pseudo_server.c:566`): seven digits leave no room for the blank, and the
  NUL in its place ends the list that the client prints.
* When `PSEUDO_DISABLED` is gone from the environment at a fork, the comment at `pseudo_client.c:449-453` says that
  "we'd enable pseudo"; the code falls back to the value in its cache and the child stays disabled.
* With `PSEUDO_UNLOAD`, a process that forks should behave as if disabled (`pseudo.1:607-620`).  The child takes
  the library out of `LD_PRELOAD` and does not initialise it again (`ports/common/guts/fork.c:17-21`), so that it goes on emulating.
* `PSEUDO_UIDS` and `PSEUDO_GIDS` in the environment are not overwritten (`pseudo_util.c:967`), so a
  process that has them executes its next program with the ids it was started with, against
  `pseudo.1:603-605`; the same values are read back when a disabled process forks and is enabled.
  `setregid` and `setresgid` store the user ids instead of the group ids; `setfsuid` and `setfsgid`
  store nothing.
* A database without a migrations table gets one that says "version 8" (`pseudo_db.c:64`) where the
  comment at line 202 says "version -1": its `files` keeps its old form, and statements that
  name the column `deleting` fail.
* A kill between a migration and its record makes the next start repeat it.  For 1, 2, 3, 6, 7 and 8 the repetition fails, at every
  later start.  After 4 each attribute is copied a second time, and 8, which makes their index unique, fails.
  After 5 it heals: the start creates an empty `xattrs`, and the repetition drops it again.  The
  handle is set before (`pseudo_db.c:715`), so requests go on with the tables as they are.
* A kill between the record of migration 5 and statement 6 strands the attributes: the next start creates an empty `xattrs`
  (`pseudo_db.c:494`), renaming `xattrs_new` to it (line 270) fails from then on, and nobody reads `xattrs_new`.  `AttributesKept` counts
  that table and does not notice; `SetUpRight` says that no such start succeeds.
* A database of version 2 to 3 without the table `xattrs` never migrates: `make_tables` creates it in the new form before
  migration 4 selects the old one's columns.
* In a fresh database the index of `xattrs` on device, inode and name is not unique (`pseudo_db.c:152`); in a migrated one it
  is (line 276).  `pdb_copy_xattrs` inserts without asking and meets the difference where the target has an attribute already.
* A backup that fails clears `file_db_dirty` all the same (`pseudo_db.c:420`), and a memory database that could not
  be loaded is flushed over files.db at exit.
* Inside a chroot, an absolute link beyond the recursion limit is left in the path, and the real
  call follows it from the real root.
* A path that is too long for the buffer together with its base is handed on without the chroot directory
  (`pseudo_util.c:824`).  The comment there says that it "will fail in libc or the syscall", which is so only if the path
  is too long by itself; a shorter one, in a deep chroot directory, reaches a file outside.
* An absolute link made in a chroot is stored with the chroot directory before its target (`symlinkat.c:14-17`) and
  followed from the chroot directory (`pseudo_util.c:690-700`), so that the directory comes twice, against `doc/chroot:19-21` and
  `pseudo.1:523-528`.  The file systems of `PathFix` are fixed and have links as they are stored.
* While a FIFO open waits, its thread has the mask that was saved last by any thread
  (`openat.c:95`).
* `highest_client` is never lowered: the loop in `close_client` runs while the
  slot is occupied, after emptying it.  Only scans get longer (`SlotsCovered` holds).
* `FASTOP` is answered like `OP`: the type is overwritten before it is compared.
* `XATTR_CREATE` and `XATTR_REPLACE` are not sent to the server.
* A row called "NAMELESS FILE" is not renamed when the path becomes known, against
  `doc/database:32-36`.
* `doc/utils:22-23` says one second where the code waits three after a refusal.
* `fchown` of an unlinked open file leaves a marked row for good (`pseudo.c:1038`).  The next
  file with that name and inode gets its owner.
* A file with names `a` and `d`, opened as `a`: after `unlink` of `a` the descriptor keeps the path `a` unless the link was made
  while it was open, and the next `fstat` is a path mismatch, on which the client aborts (`pseudo.c:680`).
* The daemon sends SIGUSR1 to `getppid()` unless that is 1; under a subreaper a
  stranger gets it if the parent has timed out.
* Two processes that set owner and group of one file at the same time can lose
  one of the two changes: the wrapper asks, then sends both.
* An untracked file that gets a hard link has one row; a `stat` by the first name
  is then a path mismatch.

## 7. Not modelled

The pid file, the operation log and its query tool, the database check, the private
passwd and group files, the darwin port, generated code, profiling: `PROJECT.json` gives the reason
for each.  Of the modelled wrappers: `O_TMPFILE`, ACL attributes (which become a chmod), `dup` and
`closefrom`, a second descriptor per process, `clone` with its own mutex copy.  Of paths: an empty one, `chroot` with a relative path that is handed on for its
length, and a descriptor opened by one.  Of the database file: a
statement that is cut off in the middle where there is no journal.

## 8. Plan

1. *Done:* `FilesDB`, `PseudoOp`, `PseudoClients`, `PseudoServer`, the proofs of
   the event loop.
2. *Done:* `RequestService` and `ServerLifecycle` with their proofs.
3. *Done:* `UserIds`, `ProcessState` and `PathFix` with their proofs.
4. *Done:* `WrapperLock` and `DatabaseSetup`; the `select` loop in `PseudoServer`.
5. *Done:* the proofs of `WrapperLock`, of `DatabaseSetup`, of `LeavesNoSooner` and of `MarksOwned`.
6. *Done:* `KernelAgrees` of `PathFix`; the exactness of the database for a lone process.
7. Proofs next: `RowsOfOthersKept` from a hypothesis that keeps the clients' paths apart; calls by descriptor for a lone
   process with at most two names to a file; what `replace()` does to the paths below a directory.
8. Descriptor tables: `dup`, `dup2`, `closefrom`, the server's own descriptors, several descriptors per
   process, with the paths they remember.
